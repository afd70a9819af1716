SPECIFICATION Spec
CONSTANTS
    Rows = {r1, r2, r3}
    Tables = {t1}
    MaxChunk = 1
    MaxRetries = 2
    DiskLimit = 1
    MaxFlights = 2
    MaxStops = 2
    MaxDiskErrors = 1
SYMMETRY Symmetry
INVARIANTS
    TypeOK
    NoSilentLoss
    Durable
    ShutdownSafe
    DuplicateOnlyAfterFailure
PROPERTY ImplementsDelivery
CHECK_DEADLOCK FALSE
