---------------------------- MODULE Deployment ----------------------------
(***************************************************************************)
(* What the deployments of MCAD have in common, in one cluster (Mcad) and  *)
(* in several (MultiCluster): both controllers, and what the cluster and   *)
(* its users are like.                                                     *)
(***************************************************************************)
EXTENDS Dispatcher, Runner

CONSTANTS
    Capacity,       \* the capacity in the status of the one ClusterInfo object
    Deletable,      \* the AppWrappers a user may delete
    Restartable     \* the controllers that may be restarted

ASSUME DeploymentAssumption ==
    /\ Deletable \subseteq AppWrappers
    /\ Restartable \subseteq Controllers

NoQuota == [n \in {} |-> NoWeights]

\* The variables of the controllers keep their types.
TypeOK ==
    /\ ReconcilerTypeOK
    /\ ResourceTypeOK
    /\ DispatcherTypeOK
    /\ RunnerTypeOK
=============================================================================
