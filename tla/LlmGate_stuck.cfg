SPECIFICATION BusySpec
CONSTANTS
    Calls = {c1, c2}
    Slots = 1
    Threshold = 1
PROPERTY Recovers
