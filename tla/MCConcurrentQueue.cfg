CONSTANTS
    Sender = {p1, p2}
    Receiver = {c1, c2}
    Timed = {c2}
    MaxPush = 2
SPECIFICATION QueueSpec
INVARIANTS
    NoLostWakeup
PROPERTIES
    ImplementsChannel
    LoopsEnd
\* The threads end once the queue is closed and drained.
CHECK_DEADLOCK FALSE
