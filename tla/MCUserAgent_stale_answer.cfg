SPECIFICATION FairSpec
CONSTANTS
    Role = "uac"
    MaxConcurrentCalls = 1
    MaxCalls = 2
    MaxIncoming = 0
    Envs <- UacRacing
INVARIANTS
    SdpOfThisCall
