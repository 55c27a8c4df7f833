SPECIFICATION FairSpec
CONSTANTS
    Role = "uas"
    MaxConcurrentCalls = 2
    MaxCalls = 0
    MaxIncoming = 2
    Envs <- UasCancelled
\* The agent really stops for ever in this run.
CHECK_DEADLOCK FALSE
PROPERTIES
    AgentExits
