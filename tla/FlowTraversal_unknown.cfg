SPECIFICATION FairSpec
CONSTANTS
    Nodes = {1, 2, 3, 4}
    Flows <- UnknownFlows
PROPERTY DeadlockDetected
CHECK_DEADLOCK FALSE
