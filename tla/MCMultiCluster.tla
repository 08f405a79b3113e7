--------------------------- MODULE MCMultiCluster ---------------------------
(* One AppWrapper of one CPU, "hub", and its copy, "spoke".                *)
EXTENDS MultiCluster

Cpu(n) == [k \in {"cpu"} |-> n]

All(x) == [a \in AppWrappers |-> x]

Zeroes == All(0)
Ones == All(1)
Empties == All({})
Unit == All(<<[replicas |-> 1, requests |-> Cpu(1), limits |-> Zero]>>)
UnitPod == All([containers |-> <<[requests |-> Cpu(1), limits |-> Zero]>>,
                initContainers |-> <<>>, overhead |-> Zero])
OneNamespace == All("ns")
CapacityOne == Cpu(1)
SpokeOfHub == [h \in Hubs |-> "spoke"]
=============================================================================
