------------------------- MODULE ClusterInfoProofs -------------------------
(***************************************************************************)
(* clusterinfo_controller.go: the capacity is published at most once per   *)
(* clusterInfoTimeout, for every cluster, every failure and every restart. *)
(* The controller decides on its informer copy, which may be from before   *)
(* its own last update, and publishes much later; what saves it is that    *)
(* the API server accepts an update of the stored version only.            *)
(***************************************************************************)
EXTENDS ClusterInfo, TLAPS

\* The shape of the object, of its informer copy and of the reconciliation.
Shapes ==
    /\ info = [capacity |-> info.capacity, expired |-> info.expired]
    /\ info.expired \in BOOLEAN
    /\ view \in [expired : BOOLEAN, current : BOOLEAN]
    /\ op = [busy |-> op.busy, nodes |-> op.nodes, capacity |-> op.capacity,
             current |-> op.current]
    /\ op.busy \in BOOLEAN
    /\ op.current \in BOOLEAN

\* The copy of the stored version tells whether that version has expired.
CopyCurrent == view.current => view.expired = info.expired

\* A reconciliation that read the stored version, which its update needs, is
\* about one that has expired: nobody else publishes meanwhile.
ComputesExpired == op.busy /\ op.current => info.expired

CInv ==
    /\ Shapes
    /\ CopyCurrent
    /\ ComputesExpired

\* The initial states satisfy the invariant.
LEMMA CInvInit == Init => CInv
  BY DEF Init, CInv, Shapes, CopyCurrent, ComputesExpired, NewInfo, Idle

\* Handling the nodes that were listed changes neither the object nor what was read.
LEMMA AddNodeKeeps ==
  ASSUME CInv, NEW n \in Nodes, AddNode(n)
  PROVE  /\ op'.busy = op.busy
         /\ op'.current = op.current
         /\ op' = [busy |-> op'.busy, nodes |-> op'.nodes,
                   capacity |-> op'.capacity, current |-> op'.current]
  <1> DEFINE rest == [m \in DOMAIN op.nodes \ {n} |-> op.nodes[m]]
             sum == Plus(op.capacity, Contribution(op.nodes[n], n))
  <1>1. op' = [op EXCEPT !.nodes = rest, !.capacity = sum]
    BY DEF AddNode
  <1> HIDE DEF rest, sum
  <1> QED BY <1>1 DEF CInv, Shapes

\* Every step preserves it: what is computed from an expired object is accepted
\* only while the object is still the one that was read.
LEMMA CInvNext == CInv /\ [Next]_vars => CInv'
  <1> SUFFICES ASSUME CInv, [Next]_vars PROVE CInv'
    OBVIOUS
  <1> USE DEF CInv
  <1>1. CASE ClusterStep
    BY <1>1 DEF ClusterStep, Shapes, CopyCurrent, ComputesExpired
  <1>2. CASE Expire
    BY <1>2 DEF Expire, Shapes, CopyCurrent, ComputesExpired
  <1>3. CASE Sync
    BY <1>3 DEF Sync, Shapes, CopyCurrent, ComputesExpired
  <1>4. CASE Start
    BY <1>4 DEF Start, Due, Shapes, CopyCurrent, ComputesExpired
  <1>5. ASSUME NEW n \in Nodes, AddNode(n) PROVE CInv'
    <2>1. UNCHANGED <<info, view>>
      BY <1>5 DEF AddNode
    <2> QED BY <1>5, <2>1, AddNodeKeeps DEF Shapes, CopyCurrent, ComputesExpired
  <1>6. CASE ListFails
    BY <1>6 DEF ListFails, Idle, Shapes, CopyCurrent, ComputesExpired
  <1>7. ASSUME NEW r \in Outcomes, Publish(r) PROVE CInv'
    <2>1. op' = Idle
      BY <1>7 DEF Publish
    <2>2. CASE op.current /\ r \in {"ok", "lost"}
      <3>1. /\ info' = [capacity |-> op.capacity, expired |-> FALSE]
            /\ view' = [view EXCEPT !.current = FALSE]
        BY <1>7, <2>2 DEF Publish
      <3> QED BY <2>1, <3>1 DEF Idle, Shapes, CopyCurrent, ComputesExpired
    <2>3. CASE ~(op.current /\ r \in {"ok", "lost"})
      <3>1. UNCHANGED <<info, view>>
        BY <1>7, <2>3 DEF Publish
      <3> QED BY <2>1, <3>1 DEF Idle, Shapes, CopyCurrent, ComputesExpired
    <2> QED BY <2>2, <2>3
  <1>8. CASE Restart
    BY <1>8 DEF Restart, Idle, Shapes, CopyCurrent, ComputesExpired
  <1>9. CASE UNCHANGED vars
    BY <1>9 DEF vars, Shapes, CopyCurrent, ComputesExpired
  <1> QED BY <1>1, <1>2, <1>3, <1>4, <1>5, <1>6, <1>7, <1>8, <1>9 DEF Next, Reconcile

\* The controller reads the stored version and finds it expired before it may
\* replace it, across every failure, lost reply, delayed informer and restart.
THEOREM ClusterInfoInvariant == Spec => []CInv
  BY CInvInit, CInvNext, PTL DEF Spec

\* A step that publishes a capacity meets an object that has expired.
LEMMA StepRefreshes ==
  CInv /\ [Next]_vars => [info'.capacity # info.capacity => info.expired]_vars
  <1> SUFFICES ASSUME CInv, Next, info'.capacity # info.capacity
               PROVE  info.expired
    BY DEF vars
  <1>1. ~ClusterStep /\ ~Sync /\ ~Start /\ ~ListFails /\ ~Restart
    BY DEF ClusterStep, Sync, Start, ListFails, Restart
  <1>2. ~ \E n \in Nodes : AddNode(n)
    BY DEF AddNode
  <1>3. CASE Expire
    BY <1>3 DEF Expire, CInv, Shapes
  <1>4. ASSUME NEW r \in Outcomes, Publish(r) PROVE info.expired
    BY <1>4 DEF Publish, CInv, ComputesExpired
  <1> QED BY <1>1, <1>2, <1>3, <1>4 DEF Next, Reconcile

\* "how often to refresh cluster capacity" (timings.go:28): the published capacity
\* never changes before it has expired, for every cluster and every failure.
THEOREM CapacityIsRefreshedOncePerTimeout == Spec => RefreshedOncePerTimeout
  <1>1. CInv /\ [Next]_vars => [info'.capacity # info.capacity => info.expired]_vars
    BY StepRefreshes
  <1> QED BY <1>1, ClusterInfoInvariant, PTL DEF Spec, RefreshedOncePerTimeout
=============================================================================
