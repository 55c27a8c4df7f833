SPECIFICATION FairSpec
CONSTANTS
    MaxConcurrentCalls = 2
    StartMayFail = TRUE
    TotalCalls = 2
    CallsPerBatch = 1
PROPERTIES
    ProgramExits
