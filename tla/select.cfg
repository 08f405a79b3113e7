SPECIFICATION Spec
CONSTANTS
    AppWrappers = {"a", "b", "c"}
    Clusters <- TwoClusters
    MultiClusterMode = TRUE
    Precedence <- MCPrecedence
    Namespace <- MCNamespace
    Priorities = {1, 2}
    Asks <- MCAsks
    Capacities <- MCCapacities
    Quotas <- MCQuotas
INVARIANTS
    ReservationsPropagate
    LoopSelects
    SelectedFit
    NoPriorityInversion
    SelectedWithinQuota
CHECK_DEADLOCK FALSE
