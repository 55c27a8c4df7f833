SPECIFICATION Spec
CONSTANT
    MayFail = FALSE
INVARIANTS
    NoNilSender
