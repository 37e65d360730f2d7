\* Two tasks read one port: the same bytes are handed to both.
CONSTANTS
    Task = {t1, t2}
    Nobody = nobody
    Ticks = 5
    Word = 8
    Capacity = 4
    FrameBuf = 1
    Poll = 2
    YieldPoll = 2
    Receiver = {t1, t2}
    Yielder = {}
    Timeouts = {2}
    Lengths = {1}
    MaxBytes = 2
    Lag = 1
    Preempted = TRUE
    IrqPriority = 4
    MaxSyscallPriority = 5

SPECIFICATION Spec

INVARIANT
    HandsOutOnce

\* The system stops in an assertion when the line falls idle.
CHECK_DEADLOCK FALSE
