--------------------------- MODULE MCClusterInfo ---------------------------
(* Two nodes with four CPUs; a pod of an AppWrapper and one that is not,   *)
(* whose init container needs more than its container.                     *)
EXTENDS ClusterInfo

Cpu(n) == [k \in {"cpu"} |-> n]

Container(n) == [requests |-> Cpu(n), limits |-> Zero]

MCNodeSpecs ==
    {[unschedulable |-> FALSE, taints |-> {"PreferNoSchedule"}, allocatable |-> Cpu(4)],
     [unschedulable |-> FALSE, taints |-> {"NoExecute"}, allocatable |-> Cpu(4)]}

MCPodSpec ==
    [p \in Pods |-> [containers |-> <<Container(1)>>,
                     initContainers |-> <<Container(2)>>, overhead |-> Cpu(1)]]
=============================================================================
