SPECIFICATION FairSpec
CONSTANTS
    Rows = {r1, r2}
    Tables = {t1, t2}
    MaxChunk = 1
    MaxRetries = 2
    DiskLimit = 2
    MaxFlights = 1
    MaxStops = 1
    MaxDiskErrors = 0
PROPERTY ShutdownCompletes
CHECK_DEADLOCK FALSE
