SPECIFICATION Spec
CONSTANTS
    AppWrappers = {"a", "b"}
    NoAppWrapper = "none"
    Legacy = {"b"}
    Faults = {"error"}
    NItems = 1
    MinAvailable <- OnlyAMonitored
    CompletionStatus <- Empties
    Unparsable = {"b"}
    Invalid <- Empties
    Podless = {1}
    ForceDeletion = {}
    LaggingPods = {}
    Priority <- Zeroes
    Precedence <- Ranks
    PodResources <- Unit
    Capacity <- CapacityOne
    PodSpec <- UnitPod
    Namespace <- OneNamespace
    MultiClusterMode = FALSE
    MaxNumRequeuings <- Ones
    Deletable = {}
    Restartable = {"Dispatcher"}
INVARIANTS
    TypeOK
    HandOff
    ConditionTruthful
    InFlightAccounted
    NoOvercommit
PROPERTY ImplementsLifecycle
