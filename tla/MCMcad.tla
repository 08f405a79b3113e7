------------------------------- MODULE MCMcad -------------------------------
(* Small instances of Mcad for TLC.  AppWrappers "a", "b" ask for one CPU  *)
(* each, and the cluster has one: only one of them can be in flight.       *)
EXTENDS Mcad, TLC

Cpu(n) == [k \in {"cpu"} |-> n]

All(x) == [a \in AppWrappers |-> x]

Zeroes == All(0)
Ones == All(1)
MinusOnes == All(-1)
Empties == All({})
FirstItem == All({1})
SecondItem == All({2})
Unit == All(<<[replicas |-> 1, requests |-> Cpu(1), limits |-> Zero]>>)
UnitPod == All([containers |-> <<[requests |-> Cpu(1), limits |-> Zero]>>,
                initContainers |-> <<>>, overhead |-> Zero])
OneNamespace == All("ns")
CapacityOne == Cpu(1)
Ranks == [a \in AppWrappers |-> IF a = "a" THEN 1 ELSE 2]

\* "a" is monitored, "b" is not.
OnlyAMonitored == [a \in AppWrappers |-> IF a = "a" THEN 1 ELSE -1]
=============================================================================
