CONSTANTS
    p1 = p1
    p2 = p2
    c1 = c1
    c2 = c2
    Half = 2
    Producer <- MCProducer
    Consumer <- MCConsumer
    MaxCalls <- MCMaxCalls
SPECIFICATION Spec
PROPERTIES
    NothingTwice
    FirstInFirstOut
    EmptyIsEmpty
    CallsEnd
\* The number of calls is bounded.
CHECK_DEADLOCK FALSE
