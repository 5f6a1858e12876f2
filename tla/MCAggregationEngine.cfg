CONSTANTS
    Exchange = {x1, x2}
    Subscriber = {s1, s2}
    MaxEvents = 1
    MaxStarts = 2
SPECIFICATION Spec
INVARIANTS
    GateHolds
    EveryUpdatePublished
    AtMostOneLateCall
    StopDrains
PROPERTIES
    ImplementsPublicationLog
    StopReturns
    ViewsReachSubscribers
\* The owner may stop the engine and leave it.
CHECK_DEADLOCK FALSE
