SPECIFICATION FairSpec
CONSTANTS
    MaxConcurrentCalls = 2
    StartMayFail = TRUE
    TotalCalls = 4
    CallsPerBatch = 2
INVARIANTS
    TypeOK
    OneCallPerAgent
    SearchEnds
    Books
    NoBlockedSender
PROPERTIES
    SlotSpec
    ExitsIfAllStart
    Shutdown
    CallsComplete
