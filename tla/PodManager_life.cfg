SPECIFICATION Spec
CONSTANTS
    Pods = {p1, p2}
    Users = {u1, u2}
    Calls = {c1, c2}
    None = None
    PoolSize = 1
    MaxHandlers = 3
    MaxOnDemand = 1
    MaxTries = 1
SYMMETRY Symmetry
INVARIANTS TypeOK OneEditor Private OnDemandCounted
PROPERTIES HandedWithFlows ReconcileRepairs
