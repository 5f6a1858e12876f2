CONSTANTS
    MaxViews = 1
    MaxCalls = 1
    Document <- MCDocument
    Environment = {"", "off"}
    NoHost <- NoUrl
    ClientToken = "secret"
    ClientSymbol = "BTCUSDT"
SPECIFICATION Spec
PROPERTY StopReturns
CHECK_DEADLOCK FALSE
