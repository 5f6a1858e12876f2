CONSTANTS
    Bands = 2
    MaxViews = 3
    MaxCrashes = 2
SPECIFICATION Spec
INVARIANTS
    HeaderOnce
    RowsKept
