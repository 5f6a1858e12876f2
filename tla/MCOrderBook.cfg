CONSTANTS
    Exchange = {x1, x2}
    NoExchange = none
    Price <- MCPrice
    Quantity <- MCQuantity
    OrderId <- MCOrderId
    Sequence <- MCSequence
    Stamp <- MCStamp
SYMMETRY MCSymmetry
SPECIFICATION Spec
INVARIANTS
    TypeOK
    LevelsBalance
    CrossingsHaveCause
    AppliedOnceInOrder
\* A failed assertion aborts the process: nothing follows.
CHECK_DEADLOCK FALSE
