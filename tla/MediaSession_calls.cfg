SPECIFICATION FairSpec
CONSTANT
    MayFail = TRUE
INVARIANTS
    TypeOK
    EndIsLast
PROPERTIES
    MediaEnds
    KeepsContract
