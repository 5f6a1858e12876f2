CONSTANTS
    Exchange = {x1, x2}
    NoExchange = none
    Price <- MCPrice
    Quantity <- MCQuantity
    OrderId <- MCOrderId
    Sequence <- MCSequence
    Stamp <- MCStamp
    MaxTime = 2
SPECIFICATION Spec
INVARIANTS
    BestAskExceedsBestBid
CHECK_DEADLOCK FALSE
