SPECIFICATION FairSpec
CONSTANTS
    Calls = {c1, c2, c3, c4, c5}
    Slots = 2
    Threshold = 2
INVARIANTS TypeOK SlotsHeld OneProbe
PROPERTIES Served ImplementsSemaphore
