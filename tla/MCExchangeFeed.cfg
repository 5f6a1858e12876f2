CONSTANTS
    Exchange = {x}
    NoExchange = none
    Price <- MCPrice
    Quantity <- MCQuantity
    OrderId <- MCOrderId
    Sequence <- MCSequence
    Stamp <- MCStamp
    File <- MCFile
    SkipUntil <- MCSkipUntil
    MaxCalls = 2
    MaxTaken = 7
SPECIFICATION Spec
INVARIANTS
    GapsOnlyBetweenCalls
PROPERTIES
    StopReturns
    MockStops
    NoLineTwice
\* The feed and the mock may both have stopped.
CHECK_DEADLOCK FALSE
