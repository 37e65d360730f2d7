\* The transmit path: safety, the inductive invariant, refinement, liveness.
CONSTANTS
    Word = 8
    Capacity = 4
    MaxLen = 5
    MaxBytes = 18
    Beyond = beyond
    TxTaskSet = FALSE
    IrqPriority = 4
    MaxSyscallPriority = 5

SPECIFICATION FairSpec

INVARIANTS
    TypeOK
    TxInvariant
    NoStranded
    IdleMeansSent
    FlushMeansSent
    RoomIsSent
    CopyClearOfDma

PROPERTIES
    ReprogrammedWhenDrained
    ImplementsStream
    KeepsSending
    FlushEnds
