\* The receive path, a reader the line does not outrun, and a flush.
CONSTANTS
    Word = 8
    Capacity = 4
    MaxRead = 3
    MaxBytes = 9
    MaxLatency = 1
    Paced = TRUE
    MaxFlushes = 1
    RxTaskSet = FALSE
    IrqPriority = 4
    MaxSyscallPriority = 5

SPECIFICATION FairSpec

INVARIANT
    TypeOK
    Accounted

PROPERTIES
    DeliversStream
    KeepsDelivering
