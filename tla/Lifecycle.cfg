\* A port opened three times, closed or reopened under traffic.
CONSTANTS
    MaxOpens = 3
    MaxQueued = 3
    Sizes = {1, 4}

SPECIFICATION FairSpec

INVARIANTS
    TypeOK
    NoStrayDma
    FaultsOnlyUnpublished
    ReadyWhenOpen
    SilentWhenClosed
    CompletionIsOwn

PROPERTY
    SendsWhenOpen

\* When memory runs out, a handler faults, or the port has had its openings.
CHECK_DEADLOCK FALSE
