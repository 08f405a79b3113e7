SPECIFICATION Spec
CONSTANTS
    AppWrappers = {"a", "b", "c"}
    Asks <- MCAsks
    PodWeights <- MCPodWeights
INVARIANTS
    NotOverstated
    ExactWithoutSurplus
CHECK_DEADLOCK FALSE
