SPECIFICATION FairSpec
CONSTANTS
    AppWrappers = {"a"}
    NoAppWrapper = "none"
    Legacy = {}
    Faults = {"error"}
    NItems = 1
    MinAvailable <- Ones
    CompletionStatus <- Empties
    Unparsable = {}
    Invalid <- Empties
    Podless = {}
    ForceDeletion = {"a"}
    LaggingPods = {}
    Priority <- Zeroes
    Precedence <- Ranks
    PodResources <- Unit
    Capacity <- CapacityOne
    PodSpec <- UnitPod
    Namespace <- OneNamespace
    MultiClusterMode = FALSE
    MaxNumRequeuings <- Ones
    Deletable = {"a"}
    Restartable = {}
PROPERTIES
    DeletionCompletes
    TeardownCompletes
    QueuedIsDispatched
    ImplementsLifecycle
