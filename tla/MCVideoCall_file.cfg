SPECIFICATION FairSpec
CONSTANTS
    Files <- MCFiles
    Mtu = 13
    MaxPasses = 2
    MaxWire = 1
    CallIndex = 1
    MaxFaults = 1
INVARIANTS
    TypeOK
    MarkerEndsPicture
    ParameterSetsKept
    SameVideo
    RecordingStarts
PROPERTIES
    BothStop
