SPECIFICATION FairSpec
CONSTANTS
    MaxConcurrentCalls = 2
    TotalCalls = 3
    MaxArrivals = 6
    StartMayFail = TRUE
    Signals = TRUE
\* Agents really stop for ever when callEndChan is full and nobody reads it.
CHECK_DEADLOCK FALSE
INVARIANTS
    TypeOK
    Books
PROPERTIES
    Shutdown
    CollectorStops
