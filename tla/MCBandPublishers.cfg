CONSTANTS
    Digits = 2
    Width = 16
    Precision = 1
    Whole = 10
    Price <- MCPrice
    Quantity <- MCQuantity
    Offset <- MCOffset
    Threshold <- MCThreshold
    MaxViews = 3
SPECIFICATION Spec
INVARIANTS
    AssertionsHold
    CacheIsOneView
    BandsNest
    VolumeIsDepth
\* The number of views is bounded.
CHECK_DEADLOCK FALSE
