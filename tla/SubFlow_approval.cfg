SPECIFICATION Spec
CONSTANTS
    Nodes = {1, 2, 3, 4}
    Tabs <- MCTabs
INVARIANT WaitsForApproval
CHECK_DEADLOCK FALSE
