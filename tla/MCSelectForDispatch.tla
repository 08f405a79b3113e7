------------------------ MODULE MCSelectForDispatch ------------------------
(* A small instance of SelectForDispatch for TLC: three AppWrappers, "a"   *)
(* and "b" in a namespace with a quota, "c" in one without; two clusters   *)
(* with two resources, one of which they may not have.                     *)
EXTENDS SelectForDispatch

Weight(cpu, gpu) ==
    IF gpu = 0 THEN [k \in {"cpu"} |-> cpu]
    ELSE [k \in {"cpu", "gpu"} |-> IF k = "cpu" THEN cpu ELSE gpu]

Pair(requests, limits) == [requests |-> requests, limits |-> limits]

MCPrecedence == [a \in AppWrappers |->
                    CASE a = "a" -> 1 [] a = "b" -> 2 [] a = "c" -> 3]
MCNamespace == [a \in AppWrappers |-> IF a = "c" THEN "open" ELSE "limited"]

TwoClusters == <<"k1", "k2">>

MCAsks == {Pair(Weight(1, 0), Weight(1, 0)), Pair(Weight(2, 0), <<>>),
           Pair(Weight(1, 1), Weight(1, 1))}
MCCapacities == {Weight(2, 0), Weight(3, 1)}
MCQuotas == {[n \in {"limited"} |-> q] :
                q \in {Pair(Weight(2, 0), <<>>), Pair(<<>>, Weight(1, 1))}}
=============================================================================
