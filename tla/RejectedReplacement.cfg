CONSTANTS
    Exchange = {x1}
    NoExchange = none
    Price <- MCPrice
    Quantity <- MCLots
    OrderId <- MCOrderId
    Sequence <- MCSequence
    Stamp <- MCStamp
SPECIFICATION Spec
PROPERTIES
    RejectedIsIgnored
CHECK_DEADLOCK FALSE
