SPECIFICATION Spec
CONSTANTS
    AppWrappers = {"a"}
    NoAppWrapper = "none"
    Legacy = {}
    Faults = {"error", "lost", "timeout"}
    NItems = 2
    MinAvailable <- Ones
    CompletionStatus <- FirstItem
    Unparsable = {}
    Invalid <- SecondItem
    Podless = {2}
    ForceDeletion = {"a"}
    LaggingPods = {}
    Priority <- Zeroes
    Precedence <- Ranks
    PodResources <- Unit
    Capacity <- CapacityOne
    PodSpec <- UnitPod
    Namespace <- OneNamespace
    MultiClusterMode = FALSE
    MaxNumRequeuings <- Ones
    Deletable = {"a"}
    Restartable = {"Dispatcher", "Runner"}
INVARIANTS
    CacheSound
    SelectedAreQueued
    ResourcesTracked
    ResourcesGuarded
    DeployedBooked
    RestartLimit
