---------------------------- MODULE MCAdmission ----------------------------
(* An AppWrapper of one CPU in a namespace with a quota of one CPU (of cpu *)
(* and requests.cpu the smaller counts); the capacity is two CPUs.         *)
EXTENDS Admission

Cpu(n) == [k \in {"cpu"} |-> n]

All(x) == [a \in AppWrappers |-> x]

Zeroes == All(0)
Ones == All(1)
Empties == All({})
Unit == All(<<[replicas |-> 1, requests |-> Cpu(1), limits |-> Zero]>>)
UnitPod == All([containers |-> <<[requests |-> Cpu(1), limits |-> Zero]>>,
                initContainers |-> <<>>, overhead |-> Zero])
OneNamespace == All("ns")
CapacityTwo == Cpu(2)
Ranks == [a \in AppWrappers |-> IF a = "a" THEN 1 ELSE 2]

OneCpu ==
    [n \in {"ns"} |->
        [name \in {<<"", "cpu">>, <<"requests", "cpu">>, <<"", "pods">>} |->
            CASE name[1] = "requests" -> 1 [] name[2] = "cpu" -> 2 [] OTHER -> 9]]
=============================================================================
