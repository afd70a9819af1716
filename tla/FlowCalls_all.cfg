SPECIFICATION CallSpec
CONSTANTS
    Nodes = {1, 2, 3, 4}
    Flows <- EngineFlows
    Tabs <- MCTabs
INVARIANTS TypeOK CallTypeOK RunsOnce SentMeansRun CyclesRejected RunsInOrder
PROPERTIES RunEnds CallReturns CallProgress
CHECK_DEADLOCK FALSE
