SPECIFICATION Spec
CONSTANTS
    Timers = {t1, t2, t3}
    None = None
    Harmless = {crash}
    Medium = {rollout}
    Critical = {node}
    MaxIncidents = 2
    Clicks = {c1, c2}
    Scopes <- MCScopes
    MaxPerHour = 1
INVARIANTS TypeOK OneLoop LoopFollowsRow OneOpen FixedOnce
PROPERTY ClosedForGood
SYMMETRY MCSymmetry
CHECK_DEADLOCK FALSE
