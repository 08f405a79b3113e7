SPECIFICATION FairSpec
CONSTANTS
    AppWrappers = {"a"}
    NoAppWrapper = "none"
    Legacy = {}
    Faults = {}
    NItems = 1
    MinAvailable <- MinusOnes
    CompletionStatus <- Empties
    Unparsable = {}
    Invalid <- Empties
    Podless = {}
    ForceDeletion = {"a"}
    LaggingPods = {"Runner"}
    Priority <- Zeroes
    Precedence <- Ranks
    PodResources <- Unit
    Capacity <- CapacityOne
    PodSpec <- UnitPod
    Namespace <- OneNamespace
    MultiClusterMode = FALSE
    MaxNumRequeuings <- Ones
    Deletable = {"a"}
    Restartable = {}
PROPERTY DeletionCompletes
