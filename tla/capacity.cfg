SPECIFICATION FairSpec
CONSTANTS
    Nodes = {"n1", "n2"}
    NodeSpecs <- MCNodeSpecs
    Pods = {"web", "job"}
    PodSpec <- MCPodSpec
    Ends = {"Succeeded"}
    Wrapped = {"job"}
    Faults = {"error", "lost"}
PROPERTIES
    CapacityConverges
    RefreshedOncePerTimeout
