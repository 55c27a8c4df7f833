SPECIFICATION FairSpec
CONSTANTS
    Role = "uas"
    MaxConcurrentCalls = 1
    MaxCalls = 0
    MaxIncoming = 3
    Envs <- UasEnvs
INVARIANTS
    OwnAnswer
    OwnResult
    NoZombie
PROPERTIES
    HandoverContract
    IncomingReported
    AgentExits
