SPECIFICATION Spec
CONSTANTS
    Rows = {r1, r2}
    Tables = {t1}
    MaxChunk = 2
    MaxRetries = 3
    DiskLimit = 3
    MaxFlights = 2
    MaxStops = 1
    MaxDiskErrors = 0
PROPERTY TrimKeepsUnflushed
CHECK_DEADLOCK FALSE
