\* Two tasks in every call of the sending API.
CONSTANTS
    Task = {t1, t2}
    Nobody = nobody
    Capacity = 2
    PrintfBuf = 3
    Lengths = {3}
    MaxCalls = 3

SPECIFICATION FairSpec

INVARIANTS
    TypeOK
    OneTaskInDriver
    ReportsWhatItSent
    FlushLeavesNothing

PROPERTIES
    ForeverShortIfRefused
    MutexComesBack
    CallsEnd

\* When every task has made its calls there is nothing left to do.
CHECK_DEADLOCK FALSE
