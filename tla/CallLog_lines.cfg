SPECIFICATION FairSpec
CONSTANTS
    Capacity = 3
    MaxCalls = 2
    MaxLines = 2
    MaxLate = 1
INVARIANTS
    TypeOK
    CompleteLog
    NoStuck
PROPERTIES
    WaitEnds
