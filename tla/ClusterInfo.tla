---------------------------- MODULE ClusterInfo ----------------------------
(***************************************************************************)
(* clusterinfo_controller.go: the ClusterInfo controller computes the      *)
(* capacity of the cluster, without the pods that do not belong to         *)
(* AppWrappers, and publishes it once per clusterInfoTimeout in the status *)
(* of a ClusterInfo object, which the Dispatcher reads.  It lists the      *)
(* nodes once and then the pods of one node after the other; the cluster   *)
(* (external) goes on changing between any two of these calls.             *)
(***************************************************************************)
EXTENDS Weights

CONSTANTS
    Nodes,
    NodeSpecs,      \* the records [unschedulable, taints, allocatable] a node
                    \* may have; taints is a set of effects
    Pods,
    PodSpec,        \* PodSpec[p]: the specification of pod p
    Ends,           \* the phases pods may end in
    Wrapped,        \* the pods with the AppWrapper name label
    Faults          \* "error": a call fails; "lost": its reply is lost

ASSUME ClusterInfoAssumption ==
    /\ Ends \subseteq {"Succeeded", "Failed"}
    /\ Faults \subseteq {"error", "lost"}

VARIABLES
    node,       \* node[n]: the specification of node n
    pod,        \* pod[p]: the phase of pod p and the node it is assigned to
    info,       \* the ClusterInfo object: capacity, and whether Time + timeout is over
    view,       \* the informer copy of it, and whether it is the stored version
    op          \* the reconciliation: the nodes listed and not handled yet, the
                \* capacity so far, whether the copy read is current

cluster == <<node, pod>>

vars == <<cluster, info, view, op>>

NoPod == [phase |-> "none", node |-> "none"]

\* A ClusterInfo object without status: Time is zero, which is long past.
NewInfo == [capacity |-> Zero, expired |-> TRUE]

Idle == [busy |-> FALSE, nodes |-> Zero, capacity |-> Zero, current |-> FALSE]

-----------------------------------------------------------------------------
(* The cluster (external).                                                 *)

NodeChanges(n) ==
    /\ node' \in {[node EXCEPT ![n] = s] : s \in NodeSpecs \ {node[n]}}
    /\ UNCHANGED pod

\* A pod is bound to a node, ends, or is removed; a new pod takes its name.
PodChanges(p) ==
    /\ pod' \in {[pod EXCEPT ![p] = s] : s \in
          CASE pod[p] = NoPod ->
                 {[phase |-> "Running", node |-> n] : n \in Nodes}
            [] pod[p].phase = "Running" ->
                 {NoPod} \cup
                 {[pod[p] EXCEPT !.phase = f] : f \in Ends}
            [] OTHER -> {NoPod}}
    /\ UNCHANGED node

ClusterStep ==
    /\ (\E n \in Nodes : NodeChanges(n)) \/ (\E p \in Pods : PodChanges(p))
    /\ UNCHANGED <<info, view, op>>

\* clusterInfoTimeout is over since the last update.
Expire ==
    /\ ~info.expired
    /\ info' = [info EXCEPT !.expired = TRUE]
    /\ view' = IF view.current THEN [view EXCEPT !.expired = TRUE] ELSE view
    /\ UNCHANGED <<cluster, op>>

\* The informer of the controller catches up on the object.
Sync ==
    /\ ~view.current
    /\ view' = [expired |-> info.expired, current |-> TRUE]
    /\ UNCHANGED <<cluster, info, op>>

-----------------------------------------------------------------------------
(* Reconcile                                                               *)

\* Mutant: the capacity is computed again whenever the object changes.
AlwaysDue == TRUE

\* "do not recompute cluster capacity if old value has not expired yet"; a
\* copy that is out of date may have expired when the object has not.
Due == view.expired

\* Start to compute the capacity: list the nodes.
Start ==
    /\ ~op.busy
    /\ Due
    /\ op' = [busy |-> TRUE, nodes |-> node, capacity |-> Zero,
              current |-> view.current]
    /\ UNCHANGED <<cluster, info, view>>

Schedulable(spec) ==
    ~spec.unschedulable /\ spec.taints \cap {"NoSchedule", "NoExecute"} = {}

\* Mutant: pods that succeeded still count.
NotFailed(p, n) == p \notin Wrapped /\ pod[p].node = n /\ pod[p].phase # "Failed"

\* "non-AppWrapper, non-terminated pods on this node"
Foreign(p, n) ==
    /\ p \notin Wrapped
    /\ pod[p].node = n
    /\ pod[p].phase \notin {"Failed", "Succeeded"}

PodRequest == [p \in Pods |-> NewWeightsForPod(PodSpec[p])]

\* nodeCapacity: the allocatable capacity of node n, listed with this
\* specification, without the requests of such pods.
NodeCapacity(spec, n) ==
    Minus(spec.allocatable, Total(LAMBDA p : PodRequest[p],
                                  {p \in Pods : Foreign(p, n)}))

\* What the loop adds for node n, nothing for one it skips.
Contribution(spec, n) ==
    IF Schedulable(spec) THEN NodeCapacity(spec, n) ELSE Zero

\* One turn of the loop, for the nodes in any order.
AddNode(n) ==
    /\ n \in DOMAIN op.nodes
    /\ op' = [op EXCEPT !.nodes = [m \in DOMAIN @ \ {n} |-> @[m]],
                        !.capacity = Plus(@, Contribution(op.nodes[n], n))]
    /\ UNCHANGED <<cluster, info, view>>

\* Listing the nodes or the pods of a node fails: the request is retried.
ListFails ==
    /\ "error" \in Faults
    /\ DOMAIN op.nodes # {}
    /\ op' = Idle
    /\ UNCHANGED <<cluster, info, view>>

\* Update the status of the copy that was read.  After an error the request is
\* retried, after a success it comes back when the new value expires.
Publish(r) ==
    /\ op.busy
    /\ DOMAIN op.nodes = {}
    /\ IF op.current /\ r \in {"ok", "lost"}
       THEN /\ info' = [capacity |-> op.capacity, expired |-> FALSE]
            /\ view' = [view EXCEPT !.current = FALSE]
       ELSE UNCHANGED <<info, view>>
    /\ op' = Idle
    /\ UNCHANGED cluster

Outcomes == {"ok"} \cup Faults

Reconcile ==
    \/ Start
    \/ \E n \in Nodes : AddNode(n)
    \/ ListFails
    \/ \E r \in Outcomes : Publish(r)

\* The process starts again, in the middle of a computation.  At any other time
\* this amounts to a Sync, or to a Publish that fails and a Sync.
Restart ==
    /\ DOMAIN op.nodes # {}
    /\ op' = Idle
    /\ view' = [expired |-> info.expired, current |-> TRUE]
    /\ UNCHANGED <<cluster, info>>

Init ==
    /\ node \in [Nodes -> NodeSpecs]
    /\ pod = [p \in Pods |-> NoPod]
    /\ info = NewInfo
    /\ view = [expired |-> TRUE, current |-> TRUE]
    /\ op = Idle

Next ==
    \/ ClusterStep
    \/ Expire
    \/ Sync
    \/ Reconcile
    \/ Restart

Spec == Init /\ [][Next]_vars

\* The worker, the informers and the clock make progress; a call that is
\* retried for ever succeeds once in a while.
FairSpec ==
    /\ Spec
    /\ WF_vars(Start)
    /\ WF_vars(\E n \in Nodes : AddNode(n))
    /\ SF_vars(Publish("ok"))
    /\ WF_vars(Sync)
    /\ WF_vars(Expire)
-----------------------------------------------------------------------------

\* The capacity of the cluster at this moment, in total.
TrueCapacity ==
    LET usable == {n \in Nodes : /\ ~node[n].unschedulable
                                 /\ "NoSchedule" \notin node[n].taints
                                 /\ "NoExecute" \notin node[n].taints}
        others == {p \in Pods \ Wrapped :
                      pod[p].phase = "Running" /\ pod[p].node \in usable}
    IN  Minus(Total(LAMBDA n : node[n].allocatable, usable),
              Total(LAMBDA p : PodRequest[p], others))

Disturbance == ClusterStep \/ ListFails \/ Restart

\* Once nodes and pods stop changing, and failures and restarts stop, the capacity
\* in ClusterInfo becomes that of the cluster, and stays it: whatever mixture of old and
\* new was published when pods moved during a computation, whichever of its
\* updates failed, were lost or were based on an old copy.
CapacityConverges ==
    <>[][~Disturbance]_vars => <>[](info.capacity = TrueCapacity)

\* "how often to refresh cluster capacity" (timings.go:28): the capacity does not
\* change again before it has expired, although the controller may act on an
\* informer copy from before its own last update.
RefreshedOncePerTimeout ==
    [][info'.capacity # info.capacity => info.expired]_vars
=============================================================================
