\* A transfer round the end of the buffer reads past it.
CONSTANTS
    Word = 8
    Capacity = 4
    MaxLen = 3
    MaxBytes = 10
    Beyond = beyond
    TxTaskSet = FALSE
    IrqPriority = 4
    MaxSyscallPriority = 5
SPECIFICATION Spec
INVARIANT InsideBuffer
