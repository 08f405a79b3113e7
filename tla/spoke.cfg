SPECIFICATION Spec
CONSTANTS
    AppWrappers = {"hub", "spoke"}
    NoAppWrapper = "none"
    Legacy = {}
    Faults = {}
    NItems = 1
    MinAvailable <- Ones
    CompletionStatus <- Empties
    Unparsable = {}
    Invalid <- Empties
    Podless = {}
    ForceDeletion = {}
    LaggingPods = {}
    Priority <- Zeroes
    Precedence <- Zeroes
    PodResources <- Unit
    PodSpec <- UnitPod
    Namespace <- OneNamespace
    MultiClusterMode = TRUE
    MaxNumRequeuings <- Ones
    Hubs = {"hub"}
    Copy <- SpokeOfHub
    Capacity <- CapacityOne
    Deletable = {}
    Restartable = {"Dispatcher", "Runner"}
    PolicyLag = TRUE
INVARIANTS
    SpokeGuarded
    SpokeBooked
    CountsAgree
