SPECIFICATION Spec
CONSTANTS
    AppWrappers = {"a"}
    NoAppWrapper = "none"
    Legacy = {}
    Faults = {"delete"}
    NItems = 1
    MinAvailable <- Ones
    CompletionStatus <- Empties
    Unparsable = {}
    Invalid <- Empties
    Podless = {}
    ForceDeletion = {}
    LaggingPods = {}
    Priority <- Zeroes
    Precedence <- Ranks
    PodResources <- Unit
    Capacity <- CapacityOne
    PodSpec <- UnitPod
    Namespace <- OneNamespace
    MultiClusterMode = FALSE
    MaxNumRequeuings <- Ones
    Deletable = {}
    Restartable = {}
INVARIANT ResourcesTracked
