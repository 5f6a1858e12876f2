CONSTANTS
    Exchange = {x1, x2}
    NoExchange = none
    Price <- MCPrice
    Quantity <- MCQuantity
    OrderId <- MCOrderId
    Sequence <- MCSequence
    Stamp <- MCStamp
    MaxTime = 2
SPECIFICATION Spec
INVARIANTS
    UncrossIsClearing
    OnlyStandInCrosses
    QuotesBacked
PROPERTIES
    MatchingEnds
    AskSideStays
\* A failed assertion aborts the process.
CHECK_DEADLOCK FALSE
