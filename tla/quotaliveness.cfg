SPECIFICATION AdmissionFairSpec
CONSTANTS
    AppWrappers = {"a"}
    NoAppWrapper = "none"
    Legacy = {}
    Faults = {}
    NItems = 1
    MinAvailable <- Ones
    CompletionStatus <- Empties
    Unparsable = {}
    Invalid <- Empties
    Podless = {}
    ForceDeletion = {"a"}
    LaggingPods = {}
    Priority <- Zeroes
    Precedence <- Ranks
    PodResources <- Unit
    Capacity <- CapacityTwo
    PodSpec <- UnitPod
    Namespace <- OneNamespace
    MultiClusterMode = FALSE
    MaxNumRequeuings <- Ones
    Deletable = {}
    Restartable = {"Dispatcher"}
    Hard <- OneCpu
PROPERTY QueuedIsDispatched
