-------------------------- MODULE MCUnadmittedPods --------------------------
(* Three AppWrappers in one namespace; cpu requests and gpu limits of 0 to *)
(* 2, with pods that may lack, match or exceed what is asked for.          *)
EXTENDS UnadmittedPods

Pair(cpu, gpu) ==
    [requests |-> [k \in {"cpu"} |-> cpu],
     limits   |-> IF gpu = 0 THEN Zero ELSE [k \in {"gpu"} |-> gpu]]

MCAsks == {Pair(1, 0), Pair(2, 1)}
MCPodWeights == {Pair(0, 0), Pair(1, 0), Pair(2, 1)}
=============================================================================
