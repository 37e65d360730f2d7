\* A flush in mid-buffer: bytes are handed out twice.
CONSTANTS
    Word = 8
    Capacity = 4
    MaxRead = 3
    MaxBytes = 9
    MaxLatency = 1
    Paced = TRUE
    MaxFlushes = 1
    RxTaskSet = FALSE
    IrqPriority = 4
    MaxSyscallPriority = 5

SPECIFICATION Spec

INVARIANT
    ReadOnce

