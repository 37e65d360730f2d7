\* The line may outrun the reader: the ring claims more than it holds.
CONSTANTS
    Word = 8
    Capacity = 4
    MaxRead = 3
    MaxBytes = 9
    MaxLatency = 1
    Paced = FALSE
    MaxFlushes = 0
    RxTaskSet = FALSE
    IrqPriority = 4
    MaxSyscallPriority = 5

SPECIFICATION Spec

INVARIANT
    HeldFits

