CONSTANTS
    MaxViews = 2
    MaxCalls = 2
    Document <- MCDocument
    Environment = {"", "off"}
    NoHost <- NoUrl
    ClientToken = "secret"
    ClientSymbol = "BTCUSDT"
SPECIFICATION Spec
INVARIANTS
    ViewsInOrder
    StopIsFinal
    DialsResolvedHosts
    EngineOutlivesHandlers
PROPERTIES
    ViewsArrive
    SignalEnds
\* The client and the server may both have stopped.
CHECK_DEADLOCK FALSE
