\* One task receives, another yields, in turn; the tick count wraps.
CONSTANTS
    Task = {t1, t2}
    Nobody = nobody
    Ticks = 5
    Word = 8
    Capacity = 4
    FrameBuf = 1
    Poll = 2
    YieldPoll = 2
    Receiver = {t1}
    Yielder = {t2}
    Timeouts = {2, 4}
    Lengths = {2}
    MaxBytes = 2
    Lag = 1
    Preempted = FALSE
    IrqPriority = 4
    MaxSyscallPriority = 5

SPECIFICATION FairSpec

INVARIANTS
    TypeOK
    RecvInTime
    ListsSwitchEmpty
    HandsOutOnce

PROPERTIES
    EmptyMeansTimeout
    HearsBytes

\* The system stops in an assertion when the line falls idle.
CHECK_DEADLOCK FALSE
