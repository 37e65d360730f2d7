\* Two messages, one longer than the room: they are mixed.
CONSTANTS
    Task = {t1, t2}
    Nobody = nobody
    Capacity = 2
    PrintfBuf = 3
    Lengths = {3}
    MaxCalls = 2

SPECIFICATION Spec

INVARIANT
    Unmixed

\* When every task has made its calls there is nothing left to do.
CHECK_DEADLOCK FALSE
