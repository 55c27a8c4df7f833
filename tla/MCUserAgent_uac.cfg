SPECIFICATION FairSpec
CONSTANTS
    Role = "uac"
    MaxConcurrentCalls = 1
    MaxCalls = 2
    MaxIncoming = 1
    Envs <- UacEnvs
INVARIANTS
    TypeOK
    OwnResult
    NothingStale
PROPERTIES
    Contracts
    CallReported
