------------------------- MODULE MultiClusterProofs -------------------------
(***************************************************************************)
(* What TLAPS proves of MultiCluster.                                      *)
(***************************************************************************)
EXTENDS MultiCluster, ControllerProofs

-----------------------------------------------------------------------------
(* Type correctness.                                                       *)

\* Copies are AppWrappers, and not those of the hub.
LEMMA SpokesType ==
    /\ Spokes \subseteq AppWrappers
    /\ Hubs \subseteq AppWrappers
    /\ \A h \in Hubs : Copy[h] \in Spokes /\ Copy[h] \notin Hubs
    /\ \A s \in Spokes : s \notin Hubs
    /\ NoAppWrapper \notin Hubs \cup Spokes
    /\ \A g, h \in Hubs : Copy[g] = Copy[h] => g = h
BY MultiClusterAssumption, NoAppWrapperAssumption DEF Spokes

\* A status that is taken from an object or put into one.
LEMMA StatusTypes ==
    ASSUME NEW o \in Object
    PROVE  /\ Status(o) \in StatusType
           /\ \A s \in StatusType : WithStatus(o, s) \in Object
           /\ Guarded(o) \in Object
<1>1. Status(o) \in StatusType
  BY DEF Status, StatusType, Object
<1>2. \A s \in StatusType : WithStatus(o, s) \in Object
  BY DEF WithStatus, StatusType, Object
<1>3. Guarded(o) \in Object
  BY DEF Guarded, Object, Finalizers
<1> QED
  BY <1>1, <1>2, <1>3

\* A call failed: one entry of the Dispatcher's cache is refreshed.
LEMMA HFailedType ==
    ASSUME TypeOK, NEW a \in AppWrappers, HFailed(a)
    PROVE  cache' \in [Controllers -> [AppWrappers -> CacheEntry]]
BY FreshEntryType, CacheUpdateType, ControllersType
   DEF HFailed, TypeOK, ReconcilerTypeOK

\* The requests that are as in one cluster are steps of the Dispatcher.
LEMMA HubDispatcherStep ==
    ASSUME HubStep, MultiClusterTypeOK
    PROVE  \/ DispatcherStep(Capacity, NoQuota) /\ UNCHANGED <<ann, policy, seen>>
           \/ \E a \in Hubs, r \in Outcomes : HAnnotate(a, r) /\ UNCHANGED dispatcherVars
           \/ \E a \in Hubs, r \in Outcomes : HUnbind(a, r) /\ UNCHANGED dispatcherVars
           \/ \E r \in Outcomes : HBind(r) /\ UNCHANGED dispatcherVars
<1> USE SpokesType DEF MultiClusterTypeOK
<1>0. UNCHANGED resourceVars
  BY DEF HubStep, OnlyHub, spokeVars
<1>1. ASSUME NEW r \in Outcomes, NEW a \in Hubs, HReconcile(a, r)
      PROVE  DispatcherStep(Capacity, NoQuota) /\ UNCHANGED <<ann, policy, seen>>
  BY <1>0, <1>1 DEF HReconcile, DispatcherStep, DRequestStep, DReconcile, bindingVars
<1>2. ASSUME NEW r \in Outcomes, HDispatch(r)
      PROVE  DispatcherStep(Capacity, NoQuota) /\ UNCHANGED <<ann, policy, seen>>
  BY <1>0, <1>2 DEF HDispatch, DispatcherStep, DRequestStep, bindingVars
<1>3. ASSUME NEW r \in Outcomes, HBound(r) \/ HUnbound(r)
      PROVE  DispatcherStep(Capacity, NoQuota) /\ UNCHANGED <<ann, policy, seen>>
  <2>1. hub.aw \in AppWrappers
    BY <1>3 DEF HBound, HUnbound
  <2> QED
    BY <1>0, <1>3, <2>1
       DEF HBound, HUnbound, DispatcherStep, DRequestStep, DReconcile, bindingVars
<1>4. ASSUME NEW paused \in SUBSET Requeued, HSelect(paused)
      PROVE  DispatcherStep(Capacity, NoQuota) /\ UNCHANGED <<ann, policy, seen>>
  BY <1>0, <1>4 DEF HSelect, DispatcherStep, bindingVars
<1> QED
  BY <1>1, <1>2, <1>3, <1>4 DEF HubStep, HBinding, HFollowUp

\* The steps of the Dispatcher in the hub preserve the types.
LEMMA HubStepType ==
    ASSUME MultiClusterTypeOK, HubStep
    PROVE  MultiClusterTypeOK'
<1> USE SpokesType, ControllersType DEF MultiClusterTypeOK
<1>0. UNCHANGED <<resourceVars, runner, accepting>>
  BY DEF HubStep, OnlyHub, spokeVars
<1>a. \A a \in AppWrappers : view[D][a] \in Object
  BY DEF TypeOK, ReconcilerTypeOK
<1>b. /\ hub' \in [op : {"idle", "bind", "bound", "unbound"},
                   aw : Hubs \cup {NoAppWrapper}]
      /\ hub'.aw = NoAppWrapper <=> hub'.op = "idle"
  BY DEF HubStep, HReconcile, HBinding, HAnnotate, HUnbind, HDispatch, HFollowUp,
         HBind, HBound, HUnbound, HSelect, HFailed, HubIdle
<1>1. CASE DispatcherStep(Capacity, NoQuota) /\ UNCHANGED <<ann, policy, seen>>
  <2>1. ReconcilerTypeOK' /\ DispatcherTypeOK'
    BY <1>1, DispatcherStepType
  <2> QED
    BY <1>0, <1>1, <1>b, <2>1 DEF TypeOK, ResourceTypeOK, RunnerTypeOK, resourceVars
<1>2. ASSUME NEW a \in Hubs, NEW r \in Outcomes, HAnnotate(a, r),
             UNCHANGED dispatcherVars
      PROVE  MultiClusterTypeOK'
  <2>1. cache' \in [Controllers -> [AppWrappers -> CacheEntry]]
    BY <1>2, HFailedType DEF HAnnotate, TypeOK, ReconcilerTypeOK
  <2>2. UNCHANGED <<store, view, queue, policy, seen>>
    BY <1>2 DEF HAnnotate, HFailed
  <2>3. ann' \in [AppWrappers -> StatusType]
    BY <1>2, <1>a, StatusTypes DEF HAnnotate, DView, Pickled
  <2> QED
    BY <1>0, <1>2, <1>b, <2>1, <2>2, <2>3
       DEF TypeOK, ReconcilerTypeOK, ResourceTypeOK, RunnerTypeOK, DispatcherTypeOK,
           resourceVars, dispatcherVars
<1>3. ASSUME NEW a \in Hubs, NEW r \in Outcomes, HUnbind(a, r),
             UNCHANGED dispatcherVars
      PROVE  MultiClusterTypeOK'
  <2>1. cache' \in [Controllers -> [AppWrappers -> CacheEntry]]
    BY <1>3, HFailedType DEF HUnbind, TypeOK, ReconcilerTypeOK
  <2>2. UNCHANGED <<store, view, queue, ann, seen>>
    BY <1>3 DEF HUnbind, HFailed
  <2>3. policy' \in [Hubs -> {"none", "live", "terminating"}]
    BY <1>3 DEF HUnbind, PolicyDeleted
  <2> QED
    BY <1>0, <1>3, <1>b, <2>1, <2>2, <2>3
       DEF TypeOK, ReconcilerTypeOK, ResourceTypeOK, RunnerTypeOK, DispatcherTypeOK,
           resourceVars, dispatcherVars
<1>4. ASSUME NEW r \in Outcomes, HBind(r), UNCHANGED dispatcherVars
      PROVE  MultiClusterTypeOK'
  <2>0. hub.aw \in AppWrappers
    BY <1>4 DEF HBind
  <2>1. cache' \in [Controllers -> [AppWrappers -> CacheEntry]]
    BY <1>4, <2>0, HFailedType DEF HBind, TypeOK, ReconcilerTypeOK
  <2>2. UNCHANGED <<store, view, queue, ann, seen>>
    BY <1>4 DEF HBind, HFailed
  <2>3. policy' \in [Hubs -> {"none", "live", "terminating"}]
    BY <1>4 DEF HBind
  <2> QED
    BY <1>0, <1>4, <1>b, <2>1, <2>2, <2>3
       DEF TypeOK, ReconcilerTypeOK, ResourceTypeOK, RunnerTypeOK, DispatcherTypeOK,
           resourceVars, dispatcherVars
<1> QED
  BY <1>1, <1>2, <1>3, <1>4, HubDispatcherStep

\* The requests that are as in one cluster are steps of the Runner.
LEMMA SpokeRunnerStep ==
    ASSUME SpokeStep, MultiClusterTypeOK
    PROVE  \/ RunnerStep /\ UNCHANGED accepting
           \/ \E a \in Spokes, r \in Outcomes : RTakeOver(a, r)
           \/ \E a \in Spokes, r \in Outcomes : RGuard(a, r)
           \/ \E r \in Outcomes : RAccepted(r)
<1> USE SpokesType
<1>1. ASSUME NEW r \in Outcomes, NEW a \in Spokes, RReconciles(a, r)
      PROVE  RunnerStep /\ UNCHANGED accepting
  BY <1>1 DEF RReconciles, RunnerStep, RReconcile
<1>2. ASSUME NEW r \in Outcomes, RFollowUp(r)
      PROVE  RAccepted(r) \/ (RunnerStep /\ UNCHANGED accepting)
  BY <1>2 DEF RFollowUp, RunnerStep
<1>3. CASE RItem \/ \E force \in BOOLEAN : RAgain(force)
  BY <1>3 DEF RItem, RAgain, RunnerStep
<1>4. ASSUME NEW r \in Outcomes, NEW a \in Spokes, RAccepting(a, r)
      PROVE  RTakeOver(a, r) \/ RGuard(a, r)
  BY <1>4 DEF RAccepting
<1>5. \/ \E r \in Outcomes, a \in Spokes : RReconciles(a, r)
      \/ \E r \in Outcomes, a \in Spokes : RAccepting(a, r)
      \/ \E r \in Outcomes : RFollowUp(r)
      \/ RItem
      \/ \E force \in BOOLEAN : RAgain(force)
  BY DEF SpokeStep
<1> QED
  BY <1>1, <1>2, <1>3, <1>4, <1>5

\* The steps of the Runner in the spokes preserve the types.
LEMMA SpokeStepType ==
    ASSUME MultiClusterTypeOK, SpokeStep
    PROVE  MultiClusterTypeOK'
<1> USE SpokesType, ControllersType DEF MultiClusterTypeOK
<1>0. UNCHANGED <<dispatcherVars, hub, bindingVars>>
  BY DEF SpokeStep, OnlySpoke
<1>a. \A a \in AppWrappers : RView(a) \in Object /\ ann[a] \in StatusType
  BY DEF RView, TypeOK, ReconcilerTypeOK
<1>b. accepting' \in Spokes \cup {NoAppWrapper}
  BY DEF SpokeStep, RReconciles, RAccepting, RTakeOver, RGuard, RFollowUp, RAccepted,
         RItem, RAgain
<1>c. SUFFICES ReconcilerTypeOK' /\ ResourceTypeOK' /\ RunnerTypeOK'
  BY <1>0, <1>b DEF TypeOK, DispatcherTypeOK, dispatcherVars, bindingVars
<1>1. CASE RunnerStep
  BY <1>1, RunnerStepType
<1>2. ASSUME NEW a \in Spokes, NEW r \in Outcomes, RTakeOver(a, r)
      PROVE  ReconcilerTypeOK' /\ ResourceTypeOK' /\ RunnerTypeOK'
  <2>1. a \in AppWrappers /\ RView(a) \in Object
    BY <1>a
  <2>2. PICK o \in Object :
           \/ UpdateStatus(R, a, RView(a), o, "Running", "Accepting", r)
           \/ store' = store /\ cache' = [cache EXCEPT ![R][a] = FreshEntry(R, a)]
    BY <1>2, <1>a, <2>1, StatusTypes DEF RTakeOver
  <2>3. /\ store' \in [AppWrappers -> Object]
        /\ cache' \in [Controllers -> [AppWrappers -> CacheEntry]]
    <3>1. CASE UpdateStatus(R, a, RView(a), o, "Running", "Accepting", r)
      BY <2>1, <3>1, UpdateStatusType DEF TypeOK, States, Steps
    <3>2. CASE store' = store /\ cache' = [cache EXCEPT ![R][a] = FreshEntry(R, a)]
      BY <2>1, <3>2, FreshEntryType, CacheUpdateType DEF TypeOK, ReconcilerTypeOK
    <3> QED
      BY <2>2, <3>1, <3>2
  <2>4. queue' \in [Controllers -> SUBSET AppWrappers]
    BY <1>2, <2>1, ReconciledType DEF RTakeOver, TypeOK, ReconcilerTypeOK
  <2> QED
    BY <1>2, <2>3, <2>4
       DEF RTakeOver, TypeOK, ReconcilerTypeOK, ResourceTypeOK, RunnerTypeOK,
           resourceVars
<1>3. ASSUME NEW a \in Spokes, NEW r \in Outcomes, RGuard(a, r)
      PROVE  ReconcilerTypeOK' /\ ResourceTypeOK' /\ RunnerTypeOK'
  <2>1. a \in AppWrappers /\ RView(a) \in Object /\ Guarded(RView(a)) \in Object
    BY <1>a, StatusTypes
  <2>2. store' \in [AppWrappers -> Object]
    BY <1>3, <2>1, UpdateType DEF RGuard, TypeOK, ReconcilerTypeOK
  <2>3. cache' \in [Controllers -> [AppWrappers -> CacheEntry]]
    BY <1>3, <2>1, FreshEntryType, CacheUpdateType
       DEF RGuard, TypeOK, ReconcilerTypeOK
  <2>4. queue' \in [Controllers -> SUBSET AppWrappers]
    BY <1>3, <2>1, ReconciledType DEF RGuard, TypeOK, ReconcilerTypeOK
  <2> QED
    BY <1>3, <2>2, <2>3, <2>4
       DEF RGuard, TypeOK, ReconcilerTypeOK, ResourceTypeOK, RunnerTypeOK, resourceVars
<1>4. ASSUME NEW r \in Outcomes, RAccepted(r)
      PROVE  ReconcilerTypeOK' /\ ResourceTypeOK' /\ RunnerTypeOK'
  <2>1. accepting \in AppWrappers
    BY <1>4 DEF RAccepted
  <2>2. Guarded(RView(accepting)) \in Object
    BY <1>a, <2>1, StatusTypes
  <2>3. /\ store' \in [AppWrappers -> Object]
        /\ cache' \in [Controllers -> [AppWrappers -> CacheEntry]]
    BY <1>4, <2>1, <2>2, UpdateStatusType DEF RAccepted, TypeOK, States, Steps
  <2>4. queue' \in [Controllers -> SUBSET AppWrappers]
    BY <1>4, <2>1, ReconciledType DEF RAccepted, TypeOK, ReconcilerTypeOK
  <2> QED
    BY <1>4, <2>3, <2>4
       DEF RAccepted, TypeOK, ReconcilerTypeOK, ResourceTypeOK, RunnerTypeOK,
           resourceVars
<1> QED
  BY <1>1, <1>2, <1>3, <1>4, SpokeRunnerStep

\* The API server keeps an AppWrapper that is marked for deletion well typed.
LEMMA MarkedType ==
    ASSUME TypeOK, NEW a \in AppWrappers, Delete(a)
    PROVE  ReconcilerTypeOK'
<1>1. [store[a] EXCEPT !.del = TRUE] \in Object
  BY ZenonT(40) DEF TypeOK, ReconcilerTypeOK, Object
<1>2. Stored([store[a] EXCEPT !.del = TRUE]) \in Object
  BY <1>1, StoredType
<1> QED
  BY <1>2 DEF Delete, TypeOK, ReconcilerTypeOK

\* What KubeStellar does preserves the types.
LEMMA KubeStellarType ==
    ASSUME MultiClusterTypeOK, NEW h \in Hubs, KubeStellar(h)
    PROVE  MultiClusterTypeOK'
<1> USE SpokesType, ControllersType DEF MultiClusterTypeOK
<1>0. UNCHANGED <<dispatcherVars, hub, resourceVars, runner, accepting>>
  BY DEF KubeStellar, spokeVars
<1>1. h \in AppWrappers /\ Copy[h] \in AppWrappers
  OBVIOUS
<1>2. SUFFICES /\ ReconcilerTypeOK'
               /\ ann' \in [AppWrappers -> StatusType]
               /\ policy' \in [Hubs -> {"none", "live", "terminating"}]
               /\ seen' \subseteq Hubs
  BY <1>0 DEF TypeOK, DispatcherTypeOK, ResourceTypeOK, RunnerTypeOK, dispatcherVars,
              resourceVars
<1>3. CASE Downsync(h)
  <2>1. [NewObject EXCEPT !.ex = "live"] \in Object
    BY DEF NewObject, Object, States, Steps, Reasons
  <2>2. store' \in [AppWrappers -> Object]
    BY <1>3, <2>1 DEF Downsync, TypeOK, ReconcilerTypeOK
  <2> QED
    BY <1>1, <1>3, <2>2, NoEntryType DEF Downsync, TypeOK, ReconcilerTypeOK
<1>4. CASE Report(h)
  <2>1. store[h] \in Object /\ store[Copy[h]] \in Object
    BY <1>1 DEF TypeOK, ReconcilerTypeOK
  <2>2. WithStatus(store[h], Status(store[Copy[h]])) \in Object
    BY <2>1, StatusTypes
  <2> QED
    BY <1>4, <2>2 DEF Report, TypeOK, ReconcilerTypeOK, bindingVars
<1>5. CASE Withdraw(h)
  BY <1>1, <1>5, MarkedType DEF Withdraw, bindingVars
<1>6. CASE PolicyGone(h)
  BY <1>6 DEF PolicyGone, TypeOK, ReconcilerTypeOK, reconcilerVars
<1>7. CASE PolicySync(h)
  BY <1>7 DEF PolicySync, TypeOK, ReconcilerTypeOK, reconcilerVars
<1> QED
  BY <1>3, <1>4, <1>5, <1>6, <1>7 DEF KubeStellar

\* Initially all variables have their types.
LEMMA MultiClusterInitType == Init => MultiClusterTypeOK
<1> SUFFICES ASSUME Init PROVE MultiClusterTypeOK
  OBVIOUS
<1>1. TypeOK
  BY ControllersInitType DEF Init
<1>2. ann \in [AppWrappers -> StatusType]
  BY DEF Init, NoStatus, StatusType, States, Steps, Reasons
<1> QED
  BY <1>1, <1>2 DEF Init, MultiClusterTypeOK, HubIdle

\* Every step of the system preserves the types.
LEMMA MultiClusterNextType ==
    ASSUME MultiClusterTypeOK, [Next]_vars
    PROVE  MultiClusterTypeOK'
<1> USE SpokesType, ControllersType
<1>1. CASE UserStep
  <2>1. ReconcilerTypeOK'
    <3>1. ASSUME NEW h \in Hubs, Create(h) PROVE ReconcilerTypeOK'
      <4>0. store[h] \in Object
        BY DEF MultiClusterTypeOK, TypeOK, ReconcilerTypeOK
      <4>1. [store[h] EXCEPT !.ex = "live"] \in Object
        BY <4>0 DEF Object
      <4>2. store' = [store EXCEPT ![h] = [store[h] EXCEPT !.ex = "live"]]
        BY <3>1 DEF Create, MultiClusterTypeOK, TypeOK, ReconcilerTypeOK
      <4> QED
        BY <3>1, <4>1, <4>2 DEF Create, MultiClusterTypeOK, TypeOK, ReconcilerTypeOK
    <3>2. ASSUME NEW h \in Deletable, Delete(h) PROVE ReconcilerTypeOK'
      BY <3>2, MarkedType, DeploymentAssumption DEF MultiClusterTypeOK
    <3> QED
      BY <1>1, <3>1, <3>2 DEF UserStep
  <2> QED
    BY <1>1, <2>1 DEF UserStep, MultiClusterTypeOK, TypeOK, DispatcherTypeOK,
                      ResourceTypeOK, RunnerTypeOK, dispatcherVars, resourceVars,
                      bindingVars, spokeVars
<1>2. CASE HubStep
  BY <1>2, HubStepType
<1>3. CASE SpokeStep
  BY <1>3, SpokeStepType
<1>4. CASE \E h \in Hubs : KubeStellar(h)
  BY <1>4, KubeStellarType
<1>5. ASSUME NEW c \in Controllers, NEW a \in AppWrappers, Informer(c, a)
      PROVE  MultiClusterTypeOK'
  <2>1. ReconcilerTypeOK'
    BY <1>5 DEF Informer, Sync, MultiClusterTypeOK, TypeOK, ReconcilerTypeOK
  <2> QED
    BY <1>5, <2>1 DEF Informer, MultiClusterTypeOK, TypeOK, DispatcherTypeOK,
                      ResourceTypeOK, RunnerTypeOK, dispatcherVars, resourceVars,
                      bindingVars, spokeVars
<1>6. ASSUME NEW s \in Spokes, SpokeCluster(s) PROVE MultiClusterTypeOK'
  <2>1. ReconcilerTypeOK' /\ ResourceTypeOK'
    BY <1>6, ClusterStepType DEF SpokeCluster, MultiClusterTypeOK
  <2> QED
    BY <1>6, <2>1 DEF SpokeCluster, MultiClusterTypeOK, TypeOK, DispatcherTypeOK,
                      RunnerTypeOK, dispatcherVars, bindingVars
<1>7. ASSUME NEW c \in Controllers, NEW mine \in SUBSET AppWrappers, RestartIn(c, mine)
      PROVE  ReconcilerTypeOK'
  <2>1. [a \in AppWrappers |-> IF a \in mine THEN store[a] ELSE view[c][a]]
           \in [AppWrappers -> Object]
    BY DEF MultiClusterTypeOK, TypeOK, ReconcilerTypeOK
  <2>2. view' = [view EXCEPT ![c] = [a \in AppWrappers |->
                                       IF a \in mine THEN store[a] ELSE view[c][a]]]
    BY <1>7 DEF RestartIn, MultiClusterTypeOK, TypeOK, ReconcilerTypeOK
  <2> QED
    BY <1>7, <2>1, <2>2, NoEntryType
       DEF RestartIn, MultiClusterTypeOK, TypeOK, ReconcilerTypeOK
<1>8. CASE HubRestart
  <2>1. ReconcilerTypeOK'
    BY <1>7, <1>8 DEF HubRestart
  <2> QED
    BY <1>8, <2>1 DEF HubRestart, HubIdle, MultiClusterTypeOK, TypeOK,
                      DispatcherTypeOK, QueuingDecision, ResourceTypeOK, RunnerTypeOK,
                      resourceVars, spokeVars
<1>9. CASE SpokeRestart
  <2>1. ReconcilerTypeOK'
    BY <1>7, <1>9 DEF SpokeRestart
  <2>2. RunnerTypeOK'
    <3>1. 1 \in 1 .. NItems + 1
      BY ResourceAssumption
    <3> QED
      BY <1>9, <3>1 DEF SpokeRestart, RunnerTypeOK, RunnerState, Idle
  <2> QED
    BY <1>9, <2>1, <2>2, PodRelistType
       DEF SpokeRestart, MultiClusterTypeOK, TypeOK, DispatcherTypeOK,
           dispatcherVars, bindingVars
<1>10. CASE UNCHANGED vars
  BY <1>10 DEF vars, reconcilerVars, resourceVars, dispatcherVars, bindingVars,
               MultiClusterTypeOK, TypeOK, ReconcilerTypeOK, DispatcherTypeOK,
               ResourceTypeOK, RunnerTypeOK
<1> QED
  BY <1>1, <1>2, <1>3, <1>4, <1>5, <1>6, <1>8, <1>9, <1>10 DEF Next

\* The variables of both clusters and of KubeStellar keep their types.
THEOREM MultiClusterTypeCorrect == Spec => []MultiClusterTypeOK
<1>1. MultiClusterTypeOK /\ [Next]_vars => MultiClusterTypeOK'
  BY MultiClusterNextType
<1> QED
  BY <1>1, MultiClusterInitType, PTL DEF Spec

-----------------------------------------------------------------------------
(***************************************************************************)
(* The inductive invariant.                                                *)
(*                                                                         *)
(* An AppWrapper of the hub and its copy are written by different          *)
(* controllers, and KubeStellar carries the status from one to the other.  *)
(* n is the transition count in the annotation of the copy o, which the    *)
(* Dispatcher made when it dispatched the AppWrapper for this run.         *)
(***************************************************************************)

SameRun(x, y) == SameStatus(x, y) /\ x.restarts = y.restarts

Agree(x, y) == x.tc = y.tc => SameStatus(x, y)

Is(x, state, step) == x.state = state /\ x.step = step

InForce(o) == o.ex = "live" /\ ~o.del

\* The status x is the one in the annotation, or that after the hand over.
JustDispatched(x, n) ==
    \/ x.tc = n /\ Is(x, "Running", "Dispatching")
    \/ x.tc = n + 1 /\ Is(x, "Running", "Accepting")

\* The status x is one the copy o has or had.
Reported(x, o) ==
    /\ Follows(x, o)
    /\ x.tc < o.tc => /\ x.state \in {"Running", "Failed"}
                      /\ x.step \in {"Accepting", "Creating", "Created", "Deleting"}

InRun(x, n, o) == JustDispatched(x, n) \/ (n + 1 < x.tc /\ Reported(x, o))

\* The Dispatcher went on from the last status of the copy o.
PastRun(x, o) == o.step = "Deleted" /\ o.tc < x.tc

Copied(x, n, o) == InRun(x, n, o) \/ PastRun(x, o)

CopyStatuses ==
    {<<"Empty", "Idle">>, <<"Running", "Accepting">>, <<"Running", "Creating">>,
     <<"Running", "Created">>, <<"Running", "Deleting">>, <<"Running", "Deleted">>,
     <<"Failed", "Deleting">>, <<"Failed", "Deleted">>, <<"Failed", "Creating">>,
     <<"Failed", "Created">>, <<"Succeeded", "Idle">>}

\* The Runner may have created resources for the copy o.
Committed(o) == o.state # "Empty" /\ o.step # "Accepting"

CopyValid(o) ==
    /\ o.fin \subseteq {"runner"}
    /\ <<o.state, o.step>> \in CopyStatuses
    /\ o.ex = "live" /\ Committed(o) => "runner" \in o.fin
    /\ o.state = "Empty" => o.tc = 0

\* The copy and the informer copy of it.
CopyOK(s) == CopyValid(store[s]) /\ CopyValid(RView(s))

\* A copy that the Runner takes for one with its finalizer has it.
GuardKept(s) ==
    InForce(RView(s)) /\ "runner" \in RView(s).fin =>
        store[s].ex = "live" /\ "runner" \in store[s].fin

\* What the Runner holds are versions of the copy, and agree.
SpokeOrder(s) ==
    /\ RView(s).ex = "live" \/ cache[R][s].has => Follows(RView(s), store[s])
    /\ cache[R][s].has => Follows(cache[R][s], store[s]) /\ Agree(cache[R][s], RView(s))
    /\ store[s].ex = "live" /\ RView(s).ex # "live" => ~cache[R][s].has

\* While the Runner creates resources nobody has declared them deleted.
CreatingSeen(s) ==
    RView(s).ex = "live" /\ Is(RView(s), "Running", "Creating") =>
        store[s].step \in {"Creating", "Created", "Deleting"}

SpokeInv(s) == CopyOK(s) /\ GuardKept(s) /\ SpokeOrder(s) /\ CreatingSeen(s)

\* What the Dispatcher holds agrees with the AppWrapper, and is ahead of it only
\* when a last report came late.
HubOrder(h) ==
    /\ Agree(DView(h), store[h])
    /\ DView(h).tc > store[h].tc => store[h].step = "Deleted"
    /\ cache[D][h].has =>
          /\ Agree(cache[D][h], store[h])
          /\ Agree(cache[D][h], DView(h))
          /\ cache[D][h].tc > store[h].tc => store[h].step = "Deleted"
    /\ DView(h).ex = "gone" => store[h].ex = "gone"
    /\ store[h].ex = "new" => DView(h).ex = "new"
    /\ \A x \in {store[h], DView(h)} : x.ex = "new" => x.state = "Empty"

\* The annotation of a copy is the status the AppWrapper was dispatched with, and
\* what the hub knows is of the run the copy is for, or of a later one.
CopyRel(h) ==
    LET o == store[Copy[h]]
        n == ann[Copy[h]].tc
    IN  o.ex = "live" =>
          /\ Is(ann[Copy[h]], "Running", "Dispatching")
          /\ o.state # "Empty" =>
                /\ n < o.tc
                /\ o.restarts = ann[Copy[h]].restarts
                /\ o.tc = n + 1 => o.step = "Accepting"
          /\ \A x \in {store[h], DView(h)} :
                /\ Copied(x, n, o)
                /\ InRun(x, n, o) => x.restarts = ann[Copy[h]].restarts
          /\ cache[D][h].has => cache[D][h].tc < n \/ Copied(cache[D][h], n, o)

Binding(h) == hub = [op |-> "bind", aw |-> h]

\* Between the annotation and the BindingPolicy nothing is reported.
BindOK(h) ==
    Binding(h) =>
        /\ store[h].ex # "new"
        /\ Is(ann[h], "Running", "Dispatching")
        /\ policy[h] # "live" =>
              /\ SameRun(store[h], ann[h])
              /\ SameRun(DView(h), ann[h])
              /\ cache[D][h].has => cache[D][h].tc <= ann[h].tc

\* An AppWrapper that is yet to be copied has its annotation.
Bound(h) ==
    policy[h] = "live" /\ InForce(store[h]) /\ ~InForce(store[Copy[h]]) =>
        /\ Is(ann[h], "Running", "Dispatching")
        /\ \A x \in {store[h], DView(h)} :
              JustDispatched(x, ann[h].tc) /\ x.restarts = ann[h].restarts
        /\ cache[D][h].has =>
              cache[D][h].tc < ann[h].tc \/ JustDispatched(cache[D][h], ann[h].tc)

\* Only an AppWrapper that was created has a BindingPolicy, and a copy stays no
\* longer than it.
PolicyOK(h) ==
    /\ policy[h] = "none" => ~InForce(store[Copy[h]])
    /\ policy[h] # "none" => store[h].ex # "new"

HubInv(h) == HubOrder(h) /\ CopyRel(h) /\ BindOK(h) /\ Bound(h) /\ PolicyOK(h)

\* What the workers found at the start of a request still holds.
HubWorker ==
    /\ \A a \in todo : a \in Hubs /\ DView(a).ex = "live"
    /\ adding # NoAppWrapper => /\ adding \in Hubs
                               /\ DView(adding).ex = "live"
                               /\ DView(adding).state = "Empty"
    /\ hub.op # "idle" => DispatcherIdle
    /\ \A a \in AppWrappers \ Hubs : DView(a).ex # "live"

SpokeWorker ==
    /\ runner.op # "idle" => runner.aw \in Spokes /\ RView(runner.aw).ex = "live"
    /\ runner.op \in {"create", "fail"} =>
          ~RView(runner.aw).del /\ Is(RView(runner.aw), "Running", "Creating")
    /\ runner.op = "delete" =>
          RView(runner.aw).del \/ RView(runner.aw).step = "Deleting"
    /\ accepting # NoAppWrapper =>
          /\ accepting \in Spokes
          /\ InForce(RView(accepting))
          /\ Is(RView(accepting), "Running", "Accepting")

MInv ==
    /\ MultiClusterTypeOK
    /\ \A s \in Spokes : SpokeInv(s)
    /\ \A h \in Hubs : HubInv(h)
    /\ HubWorker
    /\ SpokeWorker

-----------------------------------------------------------------------------
(* The wrapped resources, if deleting them does not fail.                  *)

\* The delete loop has passed items that are gone, or found some.
LoopPassed ==
    runner.op = "delete" =>
        \/ runner.remaining > 0
        \/ \A j \in Items : j < runner.next => ~Exists(runner.aw, j)

\* A copy with resources is there, committed, and not reported as deleted.
ResourcesOK(s) ==
    \A i \in Items :
        Exists(s, i) => /\ store[s].ex = "live"
                        /\ Committed(store[s])
                        /\ store[s].step # "Deleted"

MResInv == MInv /\ LoopPassed /\ \A s \in Spokes : ResourcesOK(s)

-----------------------------------------------------------------------------
(* What the transitions of either controller mean for the other's copy.    *)

\* The transitions of the Dispatcher (dispatcher.go).
HubTransition(o, n) ==
    /\ n.tc = o.tc + 1
    /\ \/ o.state \in {"Empty", "Queued"}
       \/ /\ Is(o, "Running", "Dispatching")
          /\ Is(n, "Running", "Accepting")
          /\ n.restarts = o.restarts
       \/ o.step = "Deleted" /\ n.step = "Idle"

\* The transitions of the Runner (runner.go) after it has taken a copy over.
SpokeTransition(o, n) ==
    /\ n.tc = o.tc + 1
    /\ n.restarts = o.restarts
    /\ \/ /\ Is(o, "Running", "Accepting")
          /\ Is(n, "Running", "Creating")
          /\ "runner" \in n.fin
       \/ Is(o, "Running", "Creating") /\ Is(n, "Running", "Created")
       \/ Is(o, "Running", "Created") /\ Is(n, "Succeeded", "Idle")
       \/ /\ o.state = "Running" /\ o.step \in {"Creating", "Created"}
          /\ \/ Is(n, "Failed", o.step)
             \/ Is(n, "Failed", "Deleting")
             \/ Is(n, "Running", "Deleting")
       \/ /\ o.state \in {"Running", "Failed"} /\ o.step = "Deleting"
          /\ Is(n, o.state, "Deleted")

\* The Runner takes over the status in the annotation.
TakeOver(o, n, status) ==
    /\ Is(o, "Empty", "Idle")
    /\ Is(n, "Running", "Accepting")
    /\ n.tc = status.tc + 1
    /\ n.restarts = status.restarts

\* What CopyRel says of the copy o with the annotation status.
Carries(o, status) ==
    o.state # "Empty" =>
        /\ status.tc < o.tc
        /\ o.restarts = status.restarts
        /\ o.tc = status.tc + 1 => o.step = "Accepting"

\* Statuses that are the same are in the same run.
LEMMA SameCopied ==
    ASSUME NEW x, NEW y, NEW n, NEW o, NEW p, SameStatus(x, y), SameStatus(o, p)
    PROVE  /\ Copied(x, n, o) <=> Copied(y, n, p)
           /\ InRun(x, n, o) <=> InRun(y, n, p)
           /\ JustDispatched(x, n) <=> JustDispatched(y, n)
BY DEF SameStatus, Copied, InRun, PastRun, JustDispatched, Reported, Follows, Is

\* A transition of the Dispatcher is the hand over in this run, or leaves it.
LEMMA HubTransitionCopied ==
    ASSUME NEW x, NEW y, NEW status, NEW o, x.tc \in Nat, status.tc \in Nat, o.tc \in Nat,
           Copied(x, status.tc, o), HubTransition(x, y), CopyValid(o), Carries(o, status)
    PROVE  /\ Copied(y, status.tc, o)
           /\ InRun(y, status.tc, o) => /\ InRun(x, status.tc, o)
                                        /\ y.restarts = x.restarts
<1> USE DEF Is
<1>0. /\ o.state = "Empty" => o.tc = 0
      /\ o.step = "Deleted" => o.state # "Empty"
      /\ o.state # "Queued" /\ o.step # "Dispatching"
  BY DEF CopyValid, CopyStatuses
<1>1. CASE PastRun(x, o)
  <2>1. PastRun(y, o) /\ status.tc + 1 < o.tc
    BY <1>0, <1>1 DEF PastRun, HubTransition, Carries
  <2>2. ~InRun(y, status.tc, o)
    BY <1>1, <2>1 DEF PastRun, InRun, JustDispatched, Reported, Follows, HubTransition
  <2> QED
    BY <2>1, <2>2 DEF Copied
<1>2. CASE JustDispatched(x, status.tc)
  <2>1. JustDispatched(y, status.tc) /\ y.restarts = x.restarts
    BY <1>2 DEF JustDispatched, HubTransition
  <2> QED
    BY <1>2, <2>1 DEF Copied, InRun
<1>3. CASE status.tc + 1 < x.tc /\ Reported(x, o)
  <2>1. x.tc = o.tc
    BY <1>0, <1>3 DEF Reported, Follows, HubTransition
  <2>2. x.step = "Deleted" /\ y.step = "Idle" /\ o.step = "Deleted"
    BY <1>0, <1>3, <2>1 DEF Reported, Follows, SameStatus, HubTransition
  <2>3. PastRun(y, o)
    BY <2>1, <2>2 DEF PastRun, HubTransition
  <2>4. ~InRun(y, status.tc, o)
    BY <1>3, <2>1, <2>2 DEF InRun, JustDispatched, Reported, Follows, HubTransition
  <2> QED
    BY <2>3, <2>4 DEF Copied
<1> QED
  BY <1>1, <1>2, <1>3 DEF Copied, InRun

\* A transition of the Runner leaves a status in the run it is in.
LEMMA SpokeTransitionCopied ==
    ASSUME NEW x, NEW n \in Nat, NEW o, NEW p, x.tc \in Nat, o.tc \in Nat,
           Copied(x, n, o), SpokeTransition(o, p)
    PROVE  /\ Copied(x, n, p)
           /\ InRun(x, n, p) => InRun(x, n, o)
<1> USE DEF Is
<1>0. o.step # "Deleted" /\ ~PastRun(x, o)
  BY DEF SpokeTransition, PastRun
<1>1. InRun(x, n, o)
  BY <1>0 DEF Copied
<1>2. InRun(x, n, p)
  <2>1. CASE JustDispatched(x, n)
    BY <2>1 DEF InRun
  <2>2. CASE n + 1 < x.tc /\ Reported(x, o)
    <3>1. x.tc < p.tc /\ p.tc \in Nat
      BY <2>2 DEF Reported, Follows, SpokeTransition
    <3>2. /\ x.state \in {"Running", "Failed"}
          /\ x.step \in {"Accepting", "Creating", "Created", "Deleting"}
      BY <2>2 DEF Reported, Follows, SameStatus, SpokeTransition
    <3> QED
      BY <2>2, <3>1, <3>2 DEF InRun, Reported, Follows
  <2> QED
    BY <1>1, <2>1, <2>2 DEF InRun
<1> QED
  BY <1>1, <1>2 DEF Copied

\* Before the Runner takes a copy over the hub has nothing but its dispatch.
LEMMA TakeOverCopied ==
    ASSUME NEW x, NEW status, NEW o, NEW p, x.tc \in Nat, status.tc \in Nat, o.tc \in Nat,
           Copied(x, status.tc, o), CopyValid(o), TakeOver(o, p, status)
    PROVE  /\ Copied(x, status.tc, p)
           /\ InRun(x, status.tc, p) => InRun(x, status.tc, o)
<1> USE DEF Is
<1>0. o.tc = 0 /\ o.step = "Idle"
  BY DEF CopyValid, TakeOver
<1>1. JustDispatched(x, status.tc)
  BY <1>0 DEF Copied, InRun, PastRun, Reported, Follows
<1> QED
  BY <1>1 DEF Copied, InRun

\* What is reported is of this run.
LEMMA ReportedCopied ==
    ASSUME NEW x, NEW status, NEW o, status.tc \in Nat, o.tc \in Nat,
           SameRun(x, o), o.state # "Empty", CopyValid(o), Carries(o, status)
    PROVE  InRun(x, status.tc, o) /\ x.restarts = status.restarts
<1> USE DEF Is
<1>1. CASE o.tc = status.tc + 1
  <2>1. o.state = "Running" /\ o.step = "Accepting"
    BY <1>1 DEF Carries, CopyValid, CopyStatuses
  <2> QED
    BY <1>1, <2>1 DEF Carries, SameRun, SameStatus, InRun, JustDispatched
<1>2. CASE o.tc # status.tc + 1
  <2>1. status.tc + 1 < o.tc
    BY <1>2 DEF Carries
  <2> QED
    BY <2>1 DEF Carries, SameRun, SameStatus, InRun, Reported, Follows
<1> QED
  BY <1>1, <1>2

\* A report agrees with what the Dispatcher has, and is behind it only if it is
\* the last one of a run.
LEMMA ReportedAgrees ==
    ASSUME NEW x, NEW status, NEW o, x.tc \in Nat, status.tc \in Nat, o.tc \in Nat,
           x.tc < status.tc \/ Copied(x, status.tc, o),
           o.state # "Empty", CopyValid(o), Carries(o, status)
    PROVE  Agree(x, o) /\ (x.tc > o.tc => o.step = "Deleted")
<1> USE DEF Is
<1>0. status.tc < o.tc
  BY DEF Carries
<1>1. CASE x.tc < status.tc
  BY <1>0, <1>1 DEF Agree
<1>2. CASE JustDispatched(x, status.tc)
  <2>1. x.tc <= o.tc
    BY <1>0, <1>2 DEF JustDispatched
  <2>2. x.tc = o.tc => o.tc = status.tc + 1 /\ x.state = "Running" /\ x.step = "Accepting"
    BY <1>0, <1>2 DEF JustDispatched
  <2>3. x.tc = o.tc => o.state = "Running" /\ o.step = "Accepting"
    BY <2>2 DEF Carries, CopyValid, CopyStatuses
  <2> QED
    BY <2>1, <2>2, <2>3 DEF Agree, SameStatus
<1>3. CASE Reported(x, o)
  BY <1>3 DEF Reported, Follows, Agree
<1>4. CASE PastRun(x, o)
  BY <1>4 DEF PastRun, Agree
<1> QED
  BY <1>1, <1>2, <1>3, <1>4 DEF Copied, InRun

-----------------------------------------------------------------------------
(* What one request does to an AppWrapper, in either cluster.              *)

\* Controller c acts on a and on nothing else.
Only(c, a) ==
    /\ UNCHANGED view
    /\ \A b \in AppWrappers \ {a} : store'[b] = store[b]
    /\ \A d \in Controllers, b \in AppWrappers :
          d # c \/ b # a => cache'[d][b] = cache[d][b]

\* The cache entry isStale leaves.
Refreshes(c, a) ==
    cache'[c][a].has =>
        /\ cache[c][a].has
        /\ \/ SameStatus(cache'[c][a], view[c][a])
           \/ SameStatus(cache'[c][a], cache[c][a])

\* The cache entry updateStatus leaves when the API server took the update.
Records(c, a) ==
    cache'[c][a].has =>
        \/ SameStatus(cache'[c][a], store'[a])
        \/ SameStatus(cache'[c][a], view[c][a])

\* The API server stores what was sent, or removes it.
LEMMA StoredKeeps ==
    ASSUME NEW o \in Object
    PROVE  /\ SameRun(Stored(o), o)
           /\ Stored(o).del = o.del /\ Stored(o).fin = o.fin
           /\ Stored(o).ex = o.ex \/ Stored(o).ex = "gone"
BY DEF Stored, SameRun, SameStatus, Object

\* A request that sends no status refreshes the cache.
LEMMA UpdateWrites ==
    ASSUME TypeOK, NEW c \in Controllers, NEW a \in AppWrappers,
           NEW read, NEW new, NEW r, UNCHANGED view,
           store' = store \/ Update(a, read, new, r),
           NEW e \in {NoEntry, FreshEntry(c, a), cache[c][a]},
           cache' = [cache EXCEPT ![c][a] = e]
    PROVE  Only(c, a) /\ Refreshes(c, a)
<1>1. cache'[c][a] = e
  BY DEF TypeOK, ReconcilerTypeOK
<1>2. Refreshes(c, a)
  BY <1>1 DEF Refreshes, NoEntry, FreshEntry, Entry, SameStatus
<1>3. \A d \in Controllers, b \in AppWrappers :
         d # c \/ b # a => cache'[d][b] = cache[d][b]
  BY DEF TypeOK, ReconcilerTypeOK
<1>4. \A b \in AppWrappers \ {a} : store'[b] = store[b]
  BY DEF Update, TypeOK, ReconcilerTypeOK
<1> QED
  BY <1>2, <1>3, <1>4 DEF Only

\* A request that isStale aborts changes the cache only.
LEMMA StaleWrites ==
    ASSUME TypeOK, NEW c \in Controllers, NEW a \in AppWrappers, IsStale(c, a),
           NEW timedOut, UNCHANGED <<store, view>>,
           cache' = [cache EXCEPT ![c][a] = StaleEntry(c, a, timedOut)]
    PROVE  Only(c, a) /\ Refreshes(c, a)
<1>1. cache'[c][a] = StaleEntry(c, a, timedOut) /\ cache[c][a] \in CacheEntry
  BY DEF TypeOK, ReconcilerTypeOK
<1>2. cache[c][a].has
  BY DEF IsStale, Behind, CacheConflict
<1>3. Refreshes(c, a)
  BY <1>1, <1>2 DEF Refreshes, StaleEntry, NoEntry, SameStatus, CacheEntry
<1>4. \A d \in Controllers, b \in AppWrappers :
         d # c \/ b # a => cache'[d][b] = cache[d][b]
  BY DEF TypeOK, ReconcilerTypeOK
<1> QED
  BY <1>3, <1>4 DEF Only

\* updateStatus makes one transition, or leaves everything but the cache alone.
LEMMA StatusWrites ==
    ASSUME TypeOK, NEW c \in Controllers, NEW a \in AppWrappers,
           NEW read, NEW o \in Object, NEW state \in States,
           NEW step \in Steps, NEW r, UNCHANGED view,
           UpdateStatus(c, a, read, o, state, step, r)
    PROVE  /\ Only(c, a)
           /\ \/ store' = store /\ Refreshes(c, a)
              \/ /\ read = store[a]
                 /\ store'[a] = Stored(Transition(o, state, step))
                 /\ Records(c, a)
<1> DEFINE new == Transition(o, state, step)
<1>1. new \in Object
  BY TransitionType
<1>2. SameStatus(Stored(new), new)
  BY <1>1, StoredKeeps DEF SameRun
<1>3. PICK e \in {Entry(new), FreshEntry(c, a)} :
         /\ cache' = [cache EXCEPT ![c][a] = e]
         /\ ~Succeeds(a, read, r) => e = FreshEntry(c, a)
  BY DEF UpdateStatus
<1>4. cache'[c][a] = e
  BY <1>3 DEF TypeOK, ReconcilerTypeOK
<1>5. \A d \in Controllers, b \in AppWrappers :
         d # c \/ b # a => cache'[d][b] = cache[d][b]
  BY <1>3 DEF TypeOK, ReconcilerTypeOK
<1>6. \A b \in AppWrappers \ {a} : store'[b] = store[b]
  BY DEF UpdateStatus, Update, TypeOK, ReconcilerTypeOK
<1>7. /\ FreshEntry(c, a).has =>
            cache[c][a].has /\ SameStatus(FreshEntry(c, a), view[c][a])
      /\ SameStatus(Entry(new), new)
  BY DEF FreshEntry, Entry, NoEntry, SameStatus
<1>8. CASE Accepted(a, read, r)
  <2>1. read = store[a] /\ store'[a] = Stored(new)
    BY <1>8 DEF UpdateStatus, Update, Accepted, TypeOK, ReconcilerTypeOK
  <2>2. Records(c, a)
    BY <1>2, <1>3, <1>4, <1>7, <2>1 DEF Records, SameStatus
  <2> QED
    BY <1>5, <1>6, <2>1, <2>2 DEF Only
<1>9. CASE ~Accepted(a, read, r)
  <2>1. store' = store
    BY <1>9 DEF UpdateStatus, Update
  <2>2. Refreshes(c, a)
    BY <1>3, <1>4, <1>7, <1>9 DEF Refreshes, Accepted, Succeeds
  <2> QED
    BY <1>5, <1>6, <2>1, <2>2 DEF Only
<1> QED
  BY <1>8, <1>9

-----------------------------------------------------------------------------
(* What the steps of the hub do to an AppWrapper and its copy.             *)

\* An object is stored as it is or removed, and is not brought back.
ExKept(a) ==
    /\ InForce(store'[a]) => InForce(store[a])
    /\ store[a].ex # "new" => store'[a].ex # "new"
    /\ store[a].ex = "gone" => store'[a].ex = "gone"

\* The status of h stays as it is.
HubEdits(h) ==
    /\ SameRun(store'[h], store[h])
    /\ ExKept(h)
    /\ view'[D][h] = view[D][h]
    /\ Refreshes(D, h)
    /\ ann'[h] = ann[h] /\ policy'[h] = policy[h]
    /\ Binding(h)' => Binding(h)

HubTransits(h) ==
    /\ view[D][h].ex = "live" /\ SameRun(view[D][h], store[h])
    /\ HubTransition(store[h], store'[h])
    /\ ExKept(h)
    /\ view'[D][h] = view[D][h]
    /\ Records(D, h)
    /\ ann'[h] = ann[h] /\ policy'[h] = policy[h]
    /\ ~Binding(h)'

HubAnnotates(h) ==
    /\ view[D][h] = store[h] /\ store'[h] = store[h] /\ view'[D][h] = view[D][h]
    /\ view[D][h].ex = "live" /\ Is(view[D][h], "Running", "Dispatching")
    /\ Refreshes(D, h)
    /\ cache'[D][h].has => Follows(cache'[D][h], view[D][h])
    /\ ann'[h] = Status(view[D][h]) /\ policy'[h] = policy[h]

\* The BindingPolicy of h is created or deleted.
HubBinds(h) ==
    /\ store'[h] = store[h] /\ view'[D][h] = view[D][h] /\ Refreshes(D, h)
    /\ ann'[h] = ann[h]
    /\ \/ Binding(h) /\ policy[h] # "live" /\ policy'[h] = "live"
       \/ policy[h] # "none" /\ policy'[h] = "terminating"
    /\ ~Binding(h)'

SpokeSame(s) ==
    /\ store'[s] = store[s] /\ view'[R][s] = view[R][s] /\ cache'[R][s] = cache[R][s]
    /\ ann'[s] = ann[s]

\* The hub's steps do not concern the copies, nor other AppWrappers of the hub.
LEMMA HubFrame ==
    ASSUME MultiClusterTypeOK, NEW a \in Hubs, Only(D, a),
           \A b \in AppWrappers \ {a} : ann'[b] = ann[b],
           \A h \in Hubs \ {a} : policy'[h] = policy[h] /\ (Binding(h)' => Binding(h))
    PROVE  /\ \A s \in Spokes : SpokeSame(s)
           /\ \A h \in Hubs \ {a} : HubEdits(h)
<1> USE SpokesType, ControllersType
<1>1. \A s \in Spokes : SpokeSame(s)
  BY DEF Only, SpokeSame, D, R
<1>2. ASSUME NEW h \in Hubs \ {a} PROVE HubEdits(h)
  <2>1. store'[h] = store[h] /\ view' = view /\ cache'[D][h] = cache[D][h]
    BY DEF Only
  <2>2. ann'[h] = ann[h]
    OBVIOUS
  <2> QED
    BY <2>1, <2>2 DEF HubEdits, SameRun, SameStatus, ExKept, InForce, Refreshes
<1> QED
  BY <1>1, <1>2

\* A request that is as in one cluster leaves the status of the AppWrapper alone,
\* or makes one of the Dispatcher's transitions.
HubKind(a) == Only(D, a) /\ (HubEdits(a) \/ HubTransits(a))

\* A request that sends no status, for AppWrapper a.
LEMMA HubQuiet ==
    ASSUME MultiClusterTypeOK, NEW a \in Hubs, NEW new \in Object, NEW r,
           UNCHANGED <<view, ann, policy>>, Binding(a)' => Binding(a),
           store' = store \/ Update(a, DView(a), new, r),
           SameRun(new, DView(a)), new.ex = DView(a).ex, new.del = DView(a).del,
           NEW e \in {NoEntry, FreshEntry(D, a), cache[D][a]},
           cache' = [cache EXCEPT ![D][a] = e]
    PROVE  HubKind(a)
<1> USE SpokesType, ControllersType
<1>1. /\ Only(D, a)
      /\ Refreshes(D, a)
      /\ \/ store' = store
         \/ DView(a) = store[a] /\ store'[a] = Stored(new)
  <2>1. TypeOK /\ a \in AppWrappers /\ UNCHANGED view
    BY DEF MultiClusterTypeOK
  <2>2. e \in {NoEntry, FreshEntry(D, a), cache[D][a]}
    OBVIOUS
  <2>3. store' = store \/ Update(a, DView(a), new, r)
    OBVIOUS
  <2>4. cache' = [cache EXCEPT ![D][a] = e]
    OBVIOUS
  <2>5. ASSUME store' = store PROVE Only(D, a) /\ Refreshes(D, a)
    BY <2>1, <2>2, <2>4, <2>5, UpdateWrites, ZenonT(40)
  <2>6. ASSUME Update(a, DView(a), new, r) PROVE Only(D, a) /\ Refreshes(D, a)
    BY <2>1, <2>2, <2>4, <2>6, UpdateWrites, ZenonT(40)
  <2>7. store' = store \/ (DView(a) = store[a] /\ store'[a] = Stored(new))
    BY <2>1, <2>3 DEF Update, Accepted, TypeOK, ReconcilerTypeOK
  <2> QED
    BY <2>3, <2>5, <2>6, <2>7
<1>2. SameRun(store'[a], store[a]) /\ ExKept(a)
  <2>1. CASE store' = store
    BY <2>1 DEF SameRun, SameStatus, ExKept, InForce
  <2>2. CASE DView(a) = store[a] /\ store'[a] = Stored(new)
    BY <2>2, StoredKeeps DEF SameRun, SameStatus, ExKept, InForce
  <2> QED
    BY <1>1, <2>1, <2>2
<1> QED
  BY <1>1, <1>2 DEF HubKind, HubEdits

\* A request that sends a new status for AppWrapper a.
LEMMA HubTransit ==
    ASSUME MultiClusterTypeOK, NEW a \in Hubs, NEW read \in Object, NEW o \in Object,
           NEW state \in States, NEW step \in Steps, NEW r,
           UNCHANGED <<view, ann, policy>>, ~Binding(a)',
           UpdateStatus(D, a, read, o, state, step, r),
           DView(a).ex = "live",
           SameRun(read, DView(a)), SameStatus(o, read), o.ex = read.ex, o.del = read.del,
           HubTransition(read, Transition(o, state, step))
    PROVE  HubKind(a)
<1> DEFINE new == Transition(o, state, step)
<1> USE SpokesType, ControllersType
<1>1. /\ Only(D, a)
      /\ \/ store' = store /\ Refreshes(D, a)
         \/ /\ read = store[a]
            /\ store'[a] = Stored(new)
            /\ Records(D, a)
  BY StatusWrites DEF MultiClusterTypeOK
<1>2. CASE store' = store /\ Refreshes(D, a)
  BY <1>1, <1>2 DEF HubKind, HubEdits, SameRun, SameStatus, ExKept, InForce
<1>3. CASE read = store[a] /\ store'[a] = Stored(new) /\ Records(D, a)
  <2>1. new \in Object /\ new.ex = o.ex /\ new.del = o.del
    BY TransitionType, TransitionKeeps
  <2>2. ExKept(a) /\ SameRun(store'[a], new)
    BY <1>3, <2>1, StoredKeeps DEF ExKept, InForce
  <2>3. HubTransition(store[a], store'[a])
    BY <1>3, <2>2 DEF HubTransition, Is, SameRun, SameStatus
  <2>4. view[D][a].ex = "live" /\ SameRun(view[D][a], store[a])
    BY <1>3 DEF SameRun, SameStatus, DView
  <2> QED
    BY <1>1, <1>3, <2>2, <2>3, <2>4 DEF HubKind, HubTransits
<1> QED
  BY <1>1, <1>2, <1>3

\* All steps of the Dispatcher but the ones on annotations and BindingPolicies.
LEMMA DispatcherKinds ==
    ASSUME MInv, HubStep
    PROVE  \/ UNCHANGED <<store, view, cache, ann, policy>>
              /\ \A h \in Hubs : Binding(h)' => Binding(h)
           \/ /\ UNCHANGED <<ann, policy>>
              /\ \A h \in Hubs : Binding(h)' => Binding(h)
              /\ \E a \in Hubs : HubKind(a)
           \/ \E a \in Hubs, r \in Outcomes : HAnnotate(a, r) \/ HUnbind(a, r)
           \/ \E r \in Outcomes : HBind(r)
<1> DEFINE Quiet == /\ UNCHANGED <<ann, policy>>
                    /\ \A h \in Hubs : Binding(h)' => Binding(h)
           Calm  == UNCHANGED <<store, view, cache>>
           Goal  == Quiet /\ (Calm \/ \E a \in Hubs : HubKind(a))
<1> USE SpokesType, ControllersType DEF MInv
<1>0. \A a \in Hubs : DView(a) \in Object /\ view[D][a] = DView(a)
  BY DEF DView, MultiClusterTypeOK, TypeOK, ReconcilerTypeOK
<1>a. \A o \in Object : /\ SameRun(o, o)
                        /\ SameStatus(o, o)
                        /\ SameRun(WithFinalizers(o), o)
                        /\ WithFinalizers(o) \in Object
                        /\ WithFinalizers(o).ex = o.ex /\ WithFinalizers(o).del = o.del
                        /\ RequeuedObject(o) \in Object
                        /\ SameStatus(RequeuedObject(o), o)
                        /\ RequeuedObject(o).ex = o.ex /\ RequeuedObject(o).del = o.del
  BY ChangedObjectType DEF Object, SameRun, SameStatus, WithFinalizers, RequeuedObject
<1>b. UNCHANGED hub \/ hub' = HubIdle => \A h \in Hubs : Binding(h)' => Binding(h)
  BY DEF Binding, HubIdle
<1>d. /\ {"Queued", "Running", "Failed"} \subseteq States
      /\ {"Idle", "Dispatching", "Accepting"} \subseteq Steps
  BY DEF States, Steps
<1>c. hub.op = "idle" => \A h \in Hubs : ~Binding(h)
  BY DEF Binding
<1>1. ASSUME NEW a \in Hubs, NEW r \in Outcomes, HReconcile(a, r) PROVE Goal
  <2>1. Quiet /\ (Binding(a)' => Binding(a))
    BY <1>1, <1>b DEF HReconcile, bindingVars
  <2>2. CASE DMissing(a)
    BY <2>1, <2>2 DEF DMissing
  <2>3. CASE DStale(a)
    <3>1. Only(D, a) /\ Refreshes(D, a) /\ store' = store /\ view' = view
      BY <2>3, StaleWrites DEF DStale, AbortStale, MultiClusterTypeOK
    <3>2. HubKind(a)
      BY <2>1, <3>1 DEF HubKind, HubEdits, SameRun, SameStatus, ExKept, InForce
    <3> QED
      BY <2>1, <3>2
  <2>4. CASE DAddFinalizers(a, r)
    <3>1. HubKind(a)
      BY <1>0, <1>a, <2>1, <2>4, HubQuiet DEF DAddFinalizers
    <3> QED
      BY <2>1, <3>1
  <2>5. CASE DQueued(a, r)
    <3> DEFINE new == [DView(a) EXCEPT !.cond = decisions[a]]
    <3>1. decisions[a] \in Reasons
      BY DEF MultiClusterTypeOK, TypeOK, DispatcherTypeOK, QueuingDecision, Reasons
    <3>2. /\ new \in Object /\ SameRun(new, DView(a))
          /\ new.ex = DView(a).ex /\ new.del = DView(a).del
      BY <1>0, <3>1 DEF Object, SameRun, SameStatus
    <3>3. /\ store' = store \/ Update(a, DView(a), new, r)
          /\ cache' = [cache EXCEPT ![D][a] = FreshEntry(D, a)]
          /\ UNCHANGED view
      BY <2>5 DEF DQueued
    <3> HIDE DEF new
    <3>4. HubKind(a)
      BY <2>1, <3>2, <3>3, HubQuiet
    <3> QED
      BY <2>1, <3>4
  <2>6. CASE DNothing(a)
    <3>1. HubKind(a)
      BY <1>0, <1>a, <2>1, <2>6, HubQuiet DEF DNothing
    <3> QED
      BY <2>1, <3>1
  <2> QED
    BY <1>1, <2>2, <2>3, <2>4, <2>5, <2>6 DEF HReconcile
<1>2. ASSUME NEW r \in Outcomes, DQueueNew(r), UNCHANGED <<hub, bindingVars>> PROVE Goal
  <2>1. /\ adding \in Hubs /\ hub.op = "idle"
        /\ DView(adding).ex = "live" /\ DView(adding).state = "Empty"
    BY <1>2 DEF DQueueNew, HubWorker, DispatcherIdle
  <2> DEFINE read == WithFinalizers(DView(adding))
  <2>2. read \in Object /\ SameRun(read, DView(adding)) /\ SameStatus(read, read)
    BY <1>0, <1>a, <2>1
  <2>3. HubTransition(read, Transition(read, "Queued", "Idle"))
    BY <2>1, <2>2, TransitionKeeps DEF HubTransition, SameRun, SameStatus
  <2>4. \A h \in Hubs : ~Binding(h)'
    BY <1>2, <1>c, <2>1 DEF Binding
  <2>5. UpdateStatus(D, adding, read, read, "Queued", "Idle", r) /\ UNCHANGED <<view, ann, policy>>
    BY <1>2 DEF DQueueNew, bindingVars
  <2> HIDE DEF read
  <2>6. HubKind(adding)
    BY <1>d, <2>1, <2>2, <2>3, <2>4, <2>5, HubTransit
  <2> QED
    BY <1>2, <1>b, <2>1, <2>6 DEF bindingVars
<1>3. ASSUME NEW r \in Outcomes, DDispatch(r), UNCHANGED <<hub, bindingVars>> PROVE Goal
  <2>1. PICK a \in todo :
           /\ ~NotDispatchable(a)
           /\ UpdateStatus(D, a, DView(a), [DView(a) EXCEPT !.cond = "Dispatched"],
                           "Running", "Dispatching", r)
           /\ UNCHANGED view
    BY <1>3 DEF DDispatch
  <2>2. /\ a \in Hubs /\ hub.op = "idle"
        /\ DView(a).ex = "live" /\ DView(a).state = "Queued"
    BY <2>1 DEF HubWorker, DispatcherIdle, NotDispatchable
  <2> DEFINE new == [DView(a) EXCEPT !.cond = "Dispatched"]
  <2>3. /\ new \in Object /\ SameStatus(new, DView(a))
        /\ new.ex = DView(a).ex /\ new.del = DView(a).del
    BY <1>0, <2>2 DEF Object, Reasons, SameStatus
  <2>4. HubTransition(DView(a), Transition(new, "Running", "Dispatching"))
    <3> HIDE DEF new
    <3> QED
      BY <2>2, <2>3, TransitionKeeps DEF HubTransition, SameStatus
  <2>5. ~Binding(a)'
    BY <1>3, <1>c, <2>2 DEF Binding
  <2>6. UpdateStatus(D, a, DView(a), new, "Running", "Dispatching", r)
        /\ UNCHANGED <<view, ann, policy>>
    BY <1>3, <2>1 DEF bindingVars
  <2> HIDE DEF new
  <2>7. HubKind(a)
    BY <1>0, <1>a, <1>d, <2>2, <2>3, <2>4, <2>5, <2>6, HubTransit
  <2> QED
    BY <1>3, <1>b, <2>2, <2>7 DEF bindingVars
<1>4. ASSUME DAbort, UNCHANGED <<hub, bindingVars>> PROVE Goal
  <2>1. PICK a \in todo, timedOut \in {FALSE} \cup {"timeout" \in Faults} :
           cache' = [cache EXCEPT ![D][a] =
                        IF IsStale(D, a) THEN StaleEntry(D, a, timedOut)
                        ELSE FreshEntry(D, a)]
    BY <1>4 DEF DAbort
  <2>2. a \in Hubs /\ UNCHANGED <<store, view>>
    BY <1>4 DEF DAbort, HubWorker
  <2>3. Only(D, a) /\ Refreshes(D, a)
    <3>1. CASE IsStale(D, a)
      BY <2>1, <2>2, <3>1, StaleWrites DEF MultiClusterTypeOK
    <3>2. CASE ~IsStale(D, a)
      BY <2>1, <2>2, <3>2, UpdateWrites DEF MultiClusterTypeOK
    <3> QED
      BY <3>1, <3>2
  <2>4. Quiet
    BY <1>4, <1>b DEF bindingVars
  <2>5. HubKind(a)
    BY <2>2, <2>3, <2>4 DEF HubKind, HubEdits, SameRun, SameStatus, ExKept, InForce
  <2> QED
    BY <2>2, <2>4, <2>5
<1>5. ASSUME NEW paused, HSelect(paused) PROVE Goal
  BY <1>5, <1>b DEF HSelect, DSelect, reconcilerVars, bindingVars
<1>6. ASSUME NEW r \in Outcomes, HBound(r) PROVE Goal
  <2>1. hub.aw \in Hubs /\ hub' = HubIdle
    BY <1>6 DEF HBound, MultiClusterTypeOK
  <2>2. DView(hub.aw).ex = "live" /\ Is(DView(hub.aw), "Running", "Dispatching")
    BY <1>6 DEF HBound, DHandOver, DState, Is, DReconciling, Reconciling, DView
  <2>3. HubTransition(DView(hub.aw), Transition(DView(hub.aw), "Running", "Accepting"))
    BY <1>0, <2>1, <2>2, TransitionKeeps DEF HubTransition, Is
  <2>4. \A h \in Hubs : ~Binding(h)'
    BY <2>1 DEF Binding, HubIdle
  <2>5. HubKind(hub.aw)
    BY <1>0, <1>a, <1>d, <1>6, <2>1, <2>2, <2>3, <2>4, HubTransit
       DEF HBound, DHandOver, bindingVars
  <2> QED
    BY <1>6, <1>b, <2>1, <2>5 DEF HBound, bindingVars
<1>7. ASSUME NEW r \in Outcomes, HUnbound(r) PROVE Goal
  <2> DEFINE a == hub.aw
  <2>1. a \in Hubs /\ hub' = HubIdle /\ UNCHANGED <<ann, policy>>
    BY <1>7 DEF HUnbound, MultiClusterTypeOK, bindingVars
  <2>2. (\A h \in Hubs : ~Binding(h)') /\ DView(a) \in Object
    BY <1>0, <2>1 DEF Binding, HubIdle
  <2>4. ASSUME DFinalize(a, r) PROVE HubKind(a)
    <3> DEFINE new == [DView(a) EXCEPT !.fin = @ \ {"dispatcher"}]
    <3>1. /\ new \in Object /\ SameRun(new, DView(a))
          /\ new.ex = DView(a).ex /\ new.del = DView(a).del
      BY <2>2 DEF Object, SameRun, SameStatus
    <3>2. PICK e \in {NoEntry, FreshEntry(D, a)} :
             cache' = [cache EXCEPT ![D][a] = e]
      BY <2>4 DEF DFinalize
    <3>3. (store' = store \/ Update(a, DView(a), new, r)) /\ UNCHANGED view
      BY <2>4 DEF DFinalize
    <3> HIDE DEF new
    <3> QED
      BY <2>1, <2>2, <3>1, <3>2, <3>3, HubQuiet
  <2>5. ASSUME DRequeue(a, r) PROVE HubKind(a)
    <3>1. DView(a).ex = "live" /\ DView(a).step = "Deleted"
      BY <2>5 DEF DRequeue, DState, DReconciling, Reconciling, DView
    <3>2. HubTransition(DView(a), Transition(RequeuedObject(DView(a)), "Queued", "Idle"))
      BY <1>a, <2>2, <3>1, TransitionKeeps DEF HubTransition, SameStatus
    <3> QED
      BY <1>a, <2>1, <2>2, <2>5, <3>1, <3>2, <1>d, HubTransit DEF DRequeue
  <2>6. ASSUME DFailed(a, r) PROVE HubKind(a)
    <3>1. DView(a).ex = "live" /\ DView(a).step = "Deleted"
      BY <2>6 DEF DFailed, DState, DReconciling, Reconciling, DView
    <3>2. HubTransition(DView(a), Transition(DView(a), "Failed", "Idle"))
      BY <2>2, <3>1, TransitionKeeps DEF HubTransition
    <3> QED
      BY <1>a, <2>1, <2>2, <2>6, <3>1, <3>2, <1>d, HubTransit DEF DFailed
  <2>7. HubKind(a)
    BY <1>7, <2>4, <2>5, <2>6 DEF HUnbound
  <2> QED
    BY <2>1, <2>2, <2>7
<1> QED
  <2>1. \/ \E r \in Outcomes, a \in Hubs : HReconcile(a, r)
        \/ \E r \in Outcomes, a \in Hubs : HBinding(a, r)
        \/ \E r \in Outcomes : HDispatch(r)
        \/ \E r \in Outcomes : HFollowUp(r)
        \/ \E paused \in SUBSET Requeued : HSelect(paused)
    BY DEF HubStep
  <2>2. ASSUME NEW r \in Outcomes, HDispatch(r) PROVE Goal
    BY <2>2, <1>2, <1>3, <1>4 DEF HDispatch
  <2>3. ASSUME NEW r \in Outcomes, HFollowUp(r) PROVE Goal \/ HBind(r)
    BY <2>3, <1>6, <1>7 DEF HFollowUp
  <2>4. ASSUME NEW r \in Outcomes, NEW a \in Hubs, HBinding(a, r)
        PROVE  HAnnotate(a, r) \/ HUnbind(a, r)
    BY <2>4 DEF HBinding
  <2> HIDE DEF Quiet, Calm
  <2>5. \/ Goal
        \/ \E a \in Hubs, r \in Outcomes : HAnnotate(a, r) \/ HUnbind(a, r)
        \/ \E r \in Outcomes : HBind(r)
    BY <1>1, <1>5, <2>1, <2>2, <2>3, <2>4
  <2> QED
    BY <2>5 DEF Quiet, Calm

\* The entries a call that failed leaves in the Dispatcher's cache.
LEMMA HFailedWrites ==
    ASSUME MultiClusterTypeOK, NEW a \in Hubs, UNCHANGED <<store, view>>,
           cache' = cache \/ cache' = [cache EXCEPT ![D][a] = FreshEntry(D, a)]
    PROVE  /\ Only(D, a) /\ Refreshes(D, a)
           /\ ~IsStale(D, a) => (cache'[D][a].has => Follows(cache'[D][a], view[D][a]))
<1> USE SpokesType, ControllersType
<1>1. cache[D][a].tc \in Nat /\ view[D][a].tc \in Nat
  BY DEF MultiClusterTypeOK, TypeOK, ReconcilerTypeOK, CacheEntry, Object
<1>2. CASE cache' = cache
  <2>1. Only(D, a) /\ Refreshes(D, a)
    BY <1>2 DEF Only, Refreshes, SameStatus
  <2>2. ~IsStale(D, a) /\ cache[D][a].has => Follows(cache[D][a], view[D][a])
    BY <1>1 DEF IsStale, Behind, CacheConflict, Follows, SameStatus
  <2> QED
    BY <1>2, <2>1, <2>2
<1>3. CASE cache' = [cache EXCEPT ![D][a] = FreshEntry(D, a)]
  <2>1. Only(D, a) /\ Refreshes(D, a)
    BY <1>3, UpdateWrites DEF MultiClusterTypeOK
  <2>2. cache'[D][a] = FreshEntry(D, a)
    BY <1>3 DEF MultiClusterTypeOK, TypeOK, ReconcilerTypeOK
  <2>3. cache'[D][a].has => Follows(cache'[D][a], view[D][a])
    BY <1>1, <2>2 DEF FreshEntry, Entry, NoEntry, Follows, SameStatus
  <2> QED
    BY <2>1, <2>3
<1> QED
  BY <1>2, <1>3

\* Every step of the Dispatcher leaves the copies alone, and does to each AppWrapper
\* one of these.
LEMMA HubStepKinds ==
    ASSUME MInv, HubStep
    PROVE  /\ \A s \in Spokes : SpokeSame(s)
           /\ \A h \in Hubs : HubEdits(h) \/ HubTransits(h) \/ HubAnnotates(h) \/ HubBinds(h)
<1> DEFINE Goal == /\ \A s \in Spokes : SpokeSame(s)
                   /\ \A h \in Hubs : \/ HubEdits(h) \/ HubTransits(h)
                                      \/ HubAnnotates(h) \/ HubBinds(h)
<1> USE SpokesType, ControllersType DEF MInv
<1>0. DOMAIN ann = AppWrappers /\ DOMAIN policy = Hubs
  BY DEF MultiClusterTypeOK
<1>1. ASSUME UNCHANGED <<store, view, cache, ann, policy>>,
             \A h \in Hubs : Binding(h)' => Binding(h)
      PROVE  Goal
  BY <1>1 DEF SpokeSame, HubEdits, SameRun, SameStatus, ExKept, InForce, Refreshes
<1>2. ASSUME UNCHANGED <<ann, policy>>, \A h \in Hubs : Binding(h)' => Binding(h),
             NEW a \in Hubs, HubKind(a)
      PROVE  Goal
  <2>1. /\ \A s \in Spokes : SpokeSame(s)
        /\ \A h \in Hubs \ {a} : HubEdits(h)
    BY <1>2, HubFrame DEF HubKind
  <2> QED
    BY <1>2, <2>1 DEF HubKind
<1>3. ASSUME NEW a \in Hubs, NEW r \in Outcomes, HAnnotate(a, r) PROVE Goal
  <2>1. /\ UNCHANGED <<store, view, policy>> /\ ~IsStale(D, a)
        /\ view[D][a].ex = "live" /\ Is(view[D][a], "Running", "Dispatching")
        /\ cache' = cache \/ cache' = [cache EXCEPT ![D][a] = FreshEntry(D, a)]
    BY <1>3 DEF HAnnotate, HFailed, DReconciling, Reconciling, DState, DView, Is
  <2>2. hub' = [op |-> "bind", aw |-> a] \/ hub' = HubIdle
    BY <1>3 DEF HAnnotate, HFailed
  <2>3. /\ Only(D, a) /\ Refreshes(D, a)
        /\ cache'[D][a].has => Follows(cache'[D][a], view[D][a])
    BY <2>1, HFailedWrites
  <2>4. \A b \in AppWrappers \ {a} : ann'[b] = ann[b]
    BY <1>3 DEF HAnnotate, MultiClusterTypeOK
  <2>5. \A h \in Hubs \ {a} : ~Binding(h)'
    BY <2>2 DEF Binding, HubIdle
  <2>6. /\ \A s \in Spokes : SpokeSame(s)
        /\ \A h \in Hubs \ {a} : HubEdits(h)
    BY <2>1, <2>3, <2>4, <2>5, HubFrame
  <2>7. CASE Accepted(a, DView(a), r)
    <3>1. ann'[a] = Status(view[D][a]) /\ view[D][a] = store[a]
      BY <1>3, <2>7 DEF HAnnotate, Pickled, DView, Accepted, MultiClusterTypeOK
    <3>2. HubAnnotates(a)
      BY <2>1, <2>3, <3>1 DEF HubAnnotates
    <3> QED
      BY <2>6, <3>2
  <2>8. CASE ~Accepted(a, DView(a), r)
    <3>1. ann' = ann /\ hub' = HubIdle
      BY <1>3, <2>8 DEF HAnnotate, Accepted, Succeeds, HFailed
    <3>2. HubEdits(a)
      BY <2>1, <2>3, <3>1
         DEF HubEdits, SameRun, SameStatus, ExKept, InForce, Binding, HubIdle
    <3> QED
      BY <2>6, <3>2
  <2> QED
    BY <2>7, <2>8
<1>4. ASSUME NEW a \in Hubs, NEW r \in Outcomes, HUnbind(a, r) PROVE Goal
  <2>1. /\ UNCHANGED <<store, view, ann>>
        /\ cache' = cache \/ cache' = [cache EXCEPT ![D][a] = FreshEntry(D, a)]
    BY <1>4 DEF HUnbind, HFailed
  <2>2. \A h \in Hubs : ~Binding(h)'
    BY <1>4 DEF HUnbind, HFailed, Binding, HubIdle
  <2>3. Only(D, a) /\ Refreshes(D, a)
    BY <2>1, HFailedWrites
  <2>4. /\ \A h \in Hubs \ {a} : policy'[h] = policy[h]
        /\ \/ policy'[a] = policy[a]
           \/ policy[a] # "none" /\ policy'[a] = "terminating"
    BY <1>4 DEF HUnbind, PolicyDeleted, MultiClusterTypeOK
  <2>5. /\ \A s \in Spokes : SpokeSame(s)
        /\ \A h \in Hubs \ {a} : HubEdits(h)
    BY <2>1, <2>2, <2>3, <2>4, HubFrame
  <2>6. HubEdits(a) \/ HubBinds(a)
    BY <2>1, <2>2, <2>3, <2>4
       DEF HubEdits, HubBinds, SameRun, SameStatus, ExKept, InForce
  <2> QED
    BY <2>5, <2>6
<1>5. ASSUME NEW r \in Outcomes, HBind(r) PROVE Goal
  <2>0. PICK a \in Hubs : hub = [op |-> "bind", aw |-> a]
    BY <1>5 DEF HBind, MultiClusterTypeOK
  <2>1. /\ UNCHANGED <<store, view, ann>>
        /\ cache' = cache \/ cache' = [cache EXCEPT ![D][a] = FreshEntry(D, a)]
    BY <1>5, <2>0 DEF HBind, HFailed
  <2>2. \A h \in Hubs : ~Binding(h)'
    BY <1>5, <2>0 DEF HBind, HFailed, Binding, HubIdle
  <2>3. Only(D, a) /\ Refreshes(D, a)
    BY <2>1, HFailedWrites
  <2>4. /\ \A h \in Hubs \ {a} : policy'[h] = policy[h]
        /\ \/ policy'[a] = policy[a]
           \/ policy[a] # "live" /\ policy'[a] = "live"
    BY <1>5, <2>0 DEF HBind, MultiClusterTypeOK
  <2>5. /\ \A s \in Spokes : SpokeSame(s)
        /\ \A h \in Hubs \ {a} : HubEdits(h)
    BY <2>1, <2>2, <2>3, <2>4, HubFrame
  <2>6. HubEdits(a) \/ HubBinds(a)
    BY <2>0, <2>1, <2>2, <2>3, <2>4
       DEF HubEdits, HubBinds, SameRun, SameStatus, ExKept, InForce, Binding
  <2> QED
    BY <2>5, <2>6
<1> HIDE DEF Goal
<1> QED
  <2>1. Goal
    BY <1>1, <1>2, <1>3, <1>4, <1>5, DispatcherKinds
  <2> QED
    BY <2>1 DEF Goal

-----------------------------------------------------------------------------
(* What the steps of the spokes do to a copy.                              *)

\* The delete loop of the Runner has ended for s and found nothing.
Drained(s) ==
    /\ runner.op = "delete" /\ runner.aw = s
    /\ runner.next > NItems /\ runner.remaining = 0

\* The status of the copy stays as it is; its finalizer may change.
SpokeEdits(s) ==
    /\ SameRun(store'[s], store[s])
    /\ view'[R][s] = view[R][s]
    /\ Refreshes(R, s)
    /\ ann'[s] = ann[s]
    /\ \/ store'[s] = store[s]
       \/ store'[s] = Guarded(store[s])
       \/ /\ view[R][s] = store[s] /\ store[s].del /\ Drained(s)
          /\ store'[s] = Stored([store[s] EXCEPT !.fin = @ \ {"runner"}])

SpokeTransits(s) ==
    /\ view[R][s].ex = "live" /\ SameRun(view[R][s], store[s])
    /\ InForce(store[s]) /\ InForce(store'[s])
    /\ store'[s].fin = store[s].fin
    /\ view'[R][s] = view[R][s]
    /\ Records(R, s)
    /\ ann'[s] = ann[s]
    /\ \/ /\ SpokeTransition(store[s], store'[s])
          /\ store'[s].step = "Deleted" => Drained(s)
       \/ TakeOver(store[s], store'[s], ann[s])

SpokeKind(a) == Only(R, a) /\ (SpokeEdits(a) \/ SpokeTransits(a))

HubSame(h) ==
    /\ store'[h] = store[h] /\ view'[D][h] = view[D][h] /\ cache'[D][h] = cache[D][h]
    /\ ann'[h] = ann[h] /\ policy'[h] = policy[h]
    /\ Binding(h)' => Binding(h)

\* A request that sends no status, for the copy a.
LEMMA SpokeQuiet ==
    ASSUME MultiClusterTypeOK, NEW a \in Spokes, NEW read, NEW new, NEW r,
           UNCHANGED <<view, ann>>,
           store' = store \/ Update(a, read, new, r),
           read = store[a] => /\ SameRun(Stored(new), store[a])
                              /\ \/ Stored(new) = Guarded(store[a])
                                 \/ /\ view[R][a] = store[a] /\ store[a].del /\ Drained(a)
                                    /\ new = [store[a] EXCEPT !.fin = @ \ {"runner"}],
           NEW e \in {NoEntry, FreshEntry(R, a), cache[R][a]},
           cache' = [cache EXCEPT ![R][a] = e]
    PROVE  SpokeKind(a)
<1> USE SpokesType, ControllersType
<1>1. TypeOK /\ a \in AppWrappers /\ UNCHANGED view
  BY DEF MultiClusterTypeOK
<1>2. Only(R, a) /\ Refreshes(R, a)
  <2>1. e \in {NoEntry, FreshEntry(R, a), cache[R][a]}
    OBVIOUS
  <2>2. ASSUME store' = store PROVE Only(R, a) /\ Refreshes(R, a)
    BY <1>1, <2>1, <2>2, UpdateWrites
  <2>3. ASSUME Update(a, read, new, r) PROVE Only(R, a) /\ Refreshes(R, a)
    BY <1>1, <2>1, <2>3, UpdateWrites
  <2> QED
    BY <2>2, <2>3
<1>3. store' = store \/ (read = store[a] /\ store'[a] = Stored(new))
  BY <1>1 DEF Update, Accepted, TypeOK, ReconcilerTypeOK
<1>4. CASE store' = store
  BY <1>2, <1>4 DEF SpokeKind, SpokeEdits, SameRun, SameStatus
<1>5. CASE read = store[a] /\ store'[a] = Stored(new)
  BY <1>2, <1>5 DEF SpokeKind, SpokeEdits
<1> QED
  BY <1>3, <1>4, <1>5

\* A request that sends a new status for the copy a.
LEMMA SpokeTransit ==
    ASSUME MultiClusterTypeOK, NEW a \in Spokes, NEW read \in Object, NEW o \in Object,
           NEW state \in States, NEW step \in Steps, NEW r,
           UNCHANGED <<view, ann>>,
           UpdateStatus(R, a, read, o, state, step, r),
           SameRun(read, RView(a)), RView(a).ex = "live", InForce(read),
           o.ex = read.ex, o.del = read.del, o.fin = read.fin,
           read = store[a] =>
              \/ /\ SpokeTransition(read, Transition(o, state, step))
                 /\ step = "Deleted" => Drained(a)
              \/ TakeOver(read, Transition(o, state, step), ann[a])
    PROVE  SpokeKind(a)
<1> DEFINE new == Transition(o, state, step)
<1> USE SpokesType, ControllersType
<1>1. /\ Only(R, a)
      /\ \/ store' = store /\ Refreshes(R, a)
         \/ /\ read = store[a]
            /\ store'[a] = Stored(new)
            /\ Records(R, a)
  BY StatusWrites DEF MultiClusterTypeOK
<1>2. CASE store' = store /\ Refreshes(R, a)
  BY <1>1, <1>2 DEF SpokeKind, SpokeEdits, SameRun, SameStatus
<1>3. CASE read = store[a] /\ store'[a] = Stored(new) /\ Records(R, a)
  <2>1. /\ new.ex = read.ex /\ new.del = read.del /\ new.fin = read.fin
        /\ new.step = step
    BY TransitionKeeps
  <2>2. store'[a] = new
    BY <1>3, <2>1, StoredAsSent DEF InForce
  <2>3. SameRun(view[R][a], store[a])
    BY <1>3 DEF SameRun, SameStatus, RView
  <2>4. \/ /\ SpokeTransition(store[a], new)
           /\ new.step = "Deleted" => Drained(a)
        \/ TakeOver(store[a], new, ann[a])
    BY <1>3, <2>1
  <2>5. InForce(store[a]) /\ InForce(new) /\ new.fin = store[a].fin
    BY <1>3, <2>1 DEF InForce
  <2>6. view[R][a].ex = "live" /\ view' = view /\ ann' = ann
    BY DEF RView
  <2> HIDE DEF new
  <2> QED
    BY <1>1, <1>3, <2>2, <2>3, <2>4, <2>5, <2>6 DEF SpokeKind, SpokeTransits
<1> QED
  BY <1>1, <1>2, <1>3

\* A transition out of the informer copy of a.
LEMMA RunnerTransit ==
    ASSUME MultiClusterTypeOK, NEW a \in Spokes, NEW state \in States,
           NEW step \in Steps, NEW r, UNCHANGED <<view, ann>>,
           UpdateStatus(R, a, RView(a), RView(a), state, step, r),
           InForce(RView(a)),
           SpokeTransition(RView(a), Transition(RView(a), state, step)),
           step = "Deleted" => Drained(a)
    PROVE  SpokeKind(a)
<1> USE SpokesType, ControllersType
<1>1. PICK read \in Object : read = RView(a)
  BY DEF RView, MultiClusterTypeOK, TypeOK, ReconcilerTypeOK
<1>2. /\ UpdateStatus(R, a, read, read, state, step, r)
      /\ InForce(read) /\ RView(a).ex = "live"
      /\ SpokeTransition(read, Transition(read, state, step))
      /\ SameRun(read, RView(a))
  BY <1>1 DEF SameRun, SameStatus, InForce
<1>3. read = store[a] =>
         \/ /\ SpokeTransition(read, Transition(read, state, step))
            /\ step = "Deleted" => Drained(a)
         \/ TakeOver(read, Transition(read, state, step), ann[a])
  BY <1>2
<1> QED
  BY <1>2, <1>3, SpokeTransit

\* A copy of a live AppWrapper has the annotation it was dispatched with.
LEMMA CopyAnnotated ==
    ASSUME MInv, NEW s \in Spokes, store[s].ex = "live"
    PROVE  Is(ann[s], "Running", "Dispatching")
<1>1. PICK h \in Hubs : s = Copy[h]
  BY DEF Spokes
<1> QED
  BY <1>1 DEF MInv, HubInv, CopyRel

\* requeueOrFail makes one of the Runner's transitions.
LEMMA RequeueOrFailKind ==
    ASSUME MInv, NEW a \in Spokes, NEW fatal, NEW r, UNCHANGED <<view, ann>>,
           RequeueOrFail(a, fatal, r), InForce(RView(a)),
           RView(a).state = "Running", RView(a).step \in {"Creating", "Created"}
    PROVE  SpokeKind(a)
<1> USE SpokesType, ControllersType
<1>1. RView(a) \in Object /\ SameRun(RView(a), RView(a)) /\ MultiClusterTypeOK
  BY DEF RView, MInv, MultiClusterTypeOK, TypeOK, ReconcilerTypeOK, SameRun, SameStatus
<1>2. PICK state \in States, step \in Steps :
         /\ UpdateStatus(R, a, RView(a), RView(a), state, step, r)
         /\ \/ state = "Failed" /\ step = RView(a).step
            \/ state \in {"Failed", "Running"} /\ step = "Deleting"
  BY <1>1 DEF RequeueOrFail, RequeueOrFailStatus, TeardownStatus, States, Steps, Object
<1>3. SpokeTransition(RView(a), Transition(RView(a), state, step)) /\ step # "Deleted"
  BY <1>1, <1>2, TransitionKeeps DEF SpokeTransition, Is
<1> QED
  BY <1>1, <1>2, <1>3, RunnerTransit

\* Every step of the Runner concerns at most one copy.
LEMMA RunnerKinds ==
    ASSUME MInv, SpokeStep
    PROVE  UNCHANGED <<store, view, cache>> \/ \E a \in Spokes : SpokeKind(a)
<1> DEFINE Goal == UNCHANGED <<store, view, cache>> \/ \E a \in Spokes : SpokeKind(a)
<1> USE SpokesType, ControllersType DEF MInv
<1>0. \A a \in Spokes : RView(a) \in Object /\ view[R][a] = RView(a)
  BY DEF RView, MultiClusterTypeOK, TypeOK, ReconcilerTypeOK
<1>a. UNCHANGED ann
  BY DEF SpokeStep, OnlySpoke, bindingVars
<1>b. /\ {"Running", "Succeeded", "Failed"} \subseteq States
      /\ {"Idle", "Accepting", "Creating", "Created", "Deleted"} \subseteq Steps
  BY DEF States, Steps
<1>c. ASSUME NEW a \in Spokes, UNCHANGED <<store, view>>,
             NEW e \in {NoEntry, FreshEntry(R, a), cache[R][a]},
             cache' = [cache EXCEPT ![R][a] = e]
      PROVE  SpokeKind(a)
  <2>1. Only(R, a) /\ Refreshes(R, a)
    BY <1>c, UpdateWrites DEF MultiClusterTypeOK
  <2> QED
    BY <1>a, <1>c, <2>1 DEF SpokeKind, SpokeEdits, SameRun, SameStatus
<1>1. ASSUME NEW a \in Spokes, NEW r \in Outcomes, RReconciles(a, r) PROVE Goal
  <2>1. CASE RMissing(a)
    BY <2>1 DEF RMissing
  <2>2. CASE RStale(a)
    <3>1. Only(R, a) /\ Refreshes(R, a) /\ UNCHANGED <<store, view>>
      BY <2>2, StaleWrites DEF RStale, AbortStale, MultiClusterTypeOK
    <3>2. SpokeKind(a)
      BY <1>a, <3>1 DEF SpokeKind, SpokeEdits, SameRun, SameStatus
    <3> QED
      BY <3>2
  <2>3. CASE RForget(a) \/ RCreate(a) \/ RHealthy(a) \/ RDelete(a) \/ RNothing(a)
    <3>1. PICK e \in {NoEntry, FreshEntry(R, a)} :
             cache' = [cache EXCEPT ![R][a] = e] /\ UNCHANGED <<store, view>>
      BY <2>3 DEF RForget, RCreate, RHealthy, RDelete, RNothing
    <3> QED
      BY <1>c, <3>1
  <2>4. CASE RSucceed(a, r)
    <3>1. /\ Is(RView(a), "Running", "Created") /\ InForce(RView(a)) /\ UNCHANGED view
          /\ UpdateStatus(R, a, RView(a), RView(a), "Succeeded", "Idle", r)
      BY <1>0, <2>4 DEF RSucceed, RReconciling, Reconciling, RState, Is, InForce
    <3>2. SpokeTransition(RView(a), Transition(RView(a), "Succeeded", "Idle"))
      BY <1>0, <3>1, TransitionKeeps DEF SpokeTransition, Is
    <3>3. SpokeKind(a)
      BY <1>a, <1>b, <3>1, <3>2, RunnerTransit
    <3> QED
      BY <3>3
  <2>5. CASE RUnhealthy(a, r)
    <3>1. /\ Is(RView(a), "Running", "Created") /\ InForce(RView(a)) /\ UNCHANGED view
          /\ RequeueOrFail(a, FALSE, r)
      BY <1>0, <2>5 DEF RUnhealthy, RReconciling, Reconciling, RState, Is, InForce
    <3>2. SpokeKind(a)
      BY <1>a, <3>1, RequeueOrFailKind DEF Is
    <3> QED
      BY <3>2
  <2> QED
    BY <1>1, <2>1, <2>2, <2>3, <2>4, <2>5 DEF RReconciles
<1>2. ASSUME NEW a \in Spokes, NEW r \in Outcomes, RTakeOver(a, r) PROVE Goal
  <2>1. /\ RView(a).state = "Empty" /\ RView(a).step = "Idle" /\ InForce(RView(a))
        /\ UNCHANGED view
    BY <1>0, <1>2 DEF RTakeOver, RReconciling, Reconciling, RState, InForce
  <2>2. CASE store' = store /\ cache' = [cache EXCEPT ![R][a] = FreshEntry(R, a)]
    BY <1>c, <2>1, <2>2
  <2>3. CASE ~(store' = store /\ cache' = [cache EXCEPT ![R][a] = FreshEntry(R, a)])
    <3> DEFINE o == IF ann[a].state # "Empty" THEN WithStatus(RView(a), ann[a]) ELSE RView(a)
    <3>1. UpdateStatus(R, a, RView(a), o, "Running", "Accepting", r)
      BY <1>2, <2>3 DEF RTakeOver
    <3>2. o \in Object
      BY <1>0, StatusTypes DEF MultiClusterTypeOK
    <3>3. o.ex = RView(a).ex /\ o.del = RView(a).del /\ o.fin = RView(a).fin
      BY <1>0 DEF WithStatus, Object
    <3>4. RView(a) = store[a] => o.tc = ann[a].tc /\ o.restarts = ann[a].restarts
      <4> SUFFICES ASSUME RView(a) = store[a]
                   PROVE  o.tc = ann[a].tc /\ o.restarts = ann[a].restarts
        OBVIOUS
      <4>1. ann[a].state = "Running"
        BY <2>1, CopyAnnotated DEF InForce, Is
      <4> QED
        BY <1>0, <4>1 DEF WithStatus, Object
    <3> HIDE DEF o
    <3>5. PICK read \in Object : read = RView(a)
      BY <1>0
    <3>6. read = store[a] => TakeOver(read, Transition(o, "Running", "Accepting"), ann[a])
      BY <2>1, <3>2, <3>4, <3>5, TransitionKeeps DEF TakeOver, Is
    <3>7. /\ SameRun(read, RView(a)) /\ InForce(read) /\ RView(a).ex = "live"
          /\ o.ex = read.ex /\ o.del = read.del /\ o.fin = read.fin
          /\ UpdateStatus(R, a, read, o, "Running", "Accepting", r)
      BY <2>1, <3>1, <3>3, <3>5 DEF SameRun, SameStatus, InForce
    <3>8. SpokeKind(a)
      BY <1>a, <1>b, <2>1, <3>2, <3>6, <3>7, SpokeTransit
    <3> QED
      BY <3>8
  <2> QED
    BY <2>2, <2>3
<1>3. ASSUME NEW a \in Spokes, NEW r \in Outcomes, RGuard(a, r) PROVE Goal
  <2> DEFINE new == Guarded(RView(a))
  <2>1. /\ ~RView(a).del /\ UNCHANGED view
        /\ store' = store \/ Update(a, RView(a), new, r)
        /\ cache' = [cache EXCEPT ![R][a] = FreshEntry(R, a)]
    BY <1>3 DEF RGuard, RState
  <2>2. new \in Object /\ new.del = RView(a).del /\ SameRun(new, RView(a))
    BY <1>0, StatusTypes DEF Guarded, Object, SameRun, SameStatus
  <2>3. Stored(new) = new
    BY <2>1, <2>2, StoredAsSent
  <2>4. RView(a) = store[a] => SameRun(Stored(new), store[a]) /\ Stored(new) = Guarded(store[a])
    BY <2>2, <2>3
  <2> HIDE DEF new
  <2>5. SpokeKind(a)
    BY <1>a, <2>1, <2>4, SpokeQuiet
  <2> QED
    BY <2>5
<1>4. ASSUME NEW r \in Outcomes, RAccepted(r) PROVE Goal
  <2>1. PICK a \in Spokes : a = accepting
    BY <1>4 DEF RAccepted, SpokeWorker
  <2>2. InForce(RView(a)) /\ Is(RView(a), "Running", "Accepting") /\ accepting # NoAppWrapper
    BY <1>4, <2>1 DEF RAccepted, SpokeWorker
  <2>3. PICK read \in Object : read = Guarded(RView(a))
    BY <1>0, StatusTypes
  <2>4. /\ SameRun(read, RView(a)) /\ read.ex = RView(a).ex /\ read.del = RView(a).del
        /\ "runner" \in read.fin
    BY <1>0, <2>3 DEF Guarded, Object, SameRun, SameStatus
  <2>5. SpokeTransition(read, Transition(read, "Running", "Creating"))
    BY <2>2, <2>4, TransitionKeeps DEF SpokeTransition, Is, SameRun, SameStatus
  <2>6. UpdateStatus(R, a, read, read, "Running", "Creating", r) /\ UNCHANGED view
    BY <1>4, <2>1, <2>3 DEF RAccepted
  <2>7. InForce(read) /\ RView(a).ex = "live"
    BY <2>2, <2>4 DEF InForce
  <2>8. SpokeKind(a)
    BY <1>a, <1>b, <2>4, <2>5, <2>6, <2>7, SpokeTransit
  <2> QED
    BY <2>8
<1>5. ASSUME NEW r \in Outcomes, RCreated(r) PROVE Goal
  <2>1. PICK a \in Spokes : a = runner.aw
    BY <1>5 DEF RCreated, SpokeWorker
  <2>2. InForce(RView(a)) /\ Is(RView(a), "Running", "Creating")
    BY <1>5, <2>1 DEF RCreated, SpokeWorker, InForce
  <2>3. UpdateStatus(R, a, RView(a), RView(a), "Running", "Created", r) /\ UNCHANGED view
    BY <1>5, <2>1 DEF RCreated
  <2>4. SpokeTransition(RView(a), Transition(RView(a), "Running", "Created"))
    BY <1>0, <2>2, TransitionKeeps DEF SpokeTransition, Is
  <2>5. SpokeKind(a)
    BY <1>a, <1>b, <2>2, <2>3, <2>4, RunnerTransit
  <2> QED
    BY <2>5
<1>6. ASSUME NEW r \in Outcomes, RCreateFailed(r) PROVE Goal
  <2>1. PICK a \in Spokes : a = runner.aw
    BY <1>6 DEF RCreateFailed, SpokeWorker
  <2>2. InForce(RView(a)) /\ Is(RView(a), "Running", "Creating")
    BY <1>6, <2>1 DEF RCreateFailed, SpokeWorker, InForce
  <2>3. RequeueOrFail(a, runner.fatal, r) /\ UNCHANGED view
    BY <1>6, <2>1 DEF RCreateFailed
  <2>4. SpokeKind(a)
    BY <1>a, <2>2, <2>3, RequeueOrFailKind DEF Is
  <2> QED
    BY <2>4
<1>7. ASSUME NEW r \in Outcomes, RDeleted(r) PROVE Goal
  <2>1. PICK a \in Spokes : a = runner.aw
    BY <1>7 DEF RDeleted, SpokeWorker
  <2>2. RView(a).ex = "live" /\ UNCHANGED view /\ Drained(a)
    BY <1>7, <2>1 DEF RDeleted, SpokeWorker, Drained, DeletionComplete
  <2>3. CASE RView(a).del
    <3> DEFINE new == [RView(a) EXCEPT !.fin = @ \ {"runner"}]
    <3>1. new \in Object /\ SameRun(new, RView(a))
      BY <1>0 DEF Object, SameRun, SameStatus
    <3>2. SameRun(Stored(new), RView(a))
      BY <3>1, StoredKeeps DEF SameRun, SameStatus
    <3>3. Update(a, RView(a), new, r)
      BY <1>7, <2>1, <2>3 DEF RDeleted
    <3>4. PICK e \in {NoEntry, FreshEntry(R, a)} : cache' = [cache EXCEPT ![R][a] = e]
      BY <1>7, <2>1, <2>3 DEF RDeleted
    <3>5. RView(a) = store[a] =>
             /\ SameRun(Stored(new), store[a])
             /\ view[R][a] = store[a] /\ store[a].del /\ Drained(a)
             /\ new = [store[a] EXCEPT !.fin = @ \ {"runner"}]
      BY <1>0, <2>2, <2>3, <3>2
    <3> HIDE DEF new
    <3>6. SpokeKind(a)
      BY <1>a, <2>2, <3>3, <3>4, <3>5, SpokeQuiet
    <3> QED
      BY <3>6
  <2>4. CASE ~RView(a).del
    <3>1. RView(a).step = "Deleting" /\ InForce(RView(a))
      BY <1>7, <2>1, <2>2, <2>4 DEF RDeleted, SpokeWorker, InForce
    <3>2. RView(a).state \in {"Running", "Failed"}
      BY <3>1 DEF SpokeInv, CopyOK, CopyValid, CopyStatuses
    <3>3. UpdateStatus(R, a, RView(a), RView(a), RView(a).state, "Deleted", r)
      BY <1>7, <2>1, <2>4 DEF RDeleted
    <3>4. SpokeTransition(RView(a), Transition(RView(a), RView(a).state, "Deleted"))
      BY <1>0, <3>1, <3>2, TransitionKeeps DEF SpokeTransition, Is
    <3>5. SpokeKind(a)
      BY <1>a, <1>b, <2>2, <3>1, <3>2, <3>3, <3>4, RunnerTransit
    <3> QED
      BY <3>5
  <2> QED
    BY <2>3, <2>4
<1>8. ASSUME RItem \/ \E force \in BOOLEAN : RAgain(force) PROVE Goal
  BY <1>8 DEF RItem, RAgain, RCreateItem, RDeleteItem, RDeleteAgain, reconcilerVars
<1>9. \/ \E r \in Outcomes, a \in Spokes : RReconciles(a, r) \/ RAccepting(a, r)
      \/ \E r \in Outcomes : RFollowUp(r)
      \/ RItem
      \/ \E force \in BOOLEAN : RAgain(force)
  BY DEF SpokeStep
<1>10. ASSUME NEW a \in Spokes, NEW r \in Outcomes, RAccepting(a, r) PROVE Goal
  BY <1>2, <1>3, <1>10 DEF RAccepting
<1>11. ASSUME NEW r \in Outcomes, RFollowUp(r) PROVE Goal
  BY <1>4, <1>5, <1>6, <1>7, <1>11 DEF RFollowUp
<1> HIDE DEF Goal
<1> QED
  <2>1. Goal
    BY <1>1, <1>8, <1>9, <1>10, <1>11
  <2> QED
    BY <2>1 DEF Goal

\* Every step of the Runner leaves the AppWrappers of the hub alone, and changes a
\* copy in one of these ways.
LEMMA SpokeStepKinds ==
    ASSUME MInv, SpokeStep
    PROVE  /\ \A h \in Hubs : HubSame(h)
           /\ \A s \in Spokes : SpokeEdits(s) \/ SpokeTransits(s)
<1> USE SpokesType, ControllersType
<1>0. UNCHANGED <<hub, ann, policy>>
  BY DEF SpokeStep, OnlySpoke, bindingVars
<1>1. CASE UNCHANGED <<store, view, cache>>
  BY <1>0, <1>1
     DEF HubSame, Binding, SpokeEdits, SameRun, SameStatus, Refreshes
<1>2. ASSUME NEW a \in Spokes, SpokeKind(a)
      PROVE  /\ \A h \in Hubs : HubSame(h)
             /\ \A s \in Spokes : SpokeEdits(s) \/ SpokeTransits(s)
  <2>1. \A h \in Hubs : HubSame(h)
    BY <1>0, <1>2 DEF SpokeKind, Only, HubSame, Binding, D, R
  <2>2. ASSUME NEW s \in Spokes \ {a} PROVE SpokeEdits(s)
    <3>1. store'[s] = store[s] /\ view' = view /\ cache'[R][s] = cache[R][s]
      BY <1>2 DEF SpokeKind, Only
    <3> QED
      BY <1>0, <3>1 DEF SpokeEdits, SameRun, SameStatus, Refreshes
  <2> QED
    BY <1>2, <2>1, <2>2 DEF SpokeKind
<1> QED
  BY <1>1, <1>2, RunnerKinds

-----------------------------------------------------------------------------
(* Every kind of step preserves the invariant of the hub.                  *)

\* The types of what HubInv(h) is about.
LEMMA HubTypes ==
    ASSUME MultiClusterTypeOK, NEW h \in Hubs
    PROVE  /\ store[h] \in Object /\ view[D][h] \in Object /\ DView(h) = view[D][h]
           /\ cache[D][h] \in CacheEntry
           /\ store[Copy[h]] \in Object
           /\ ann[h] \in StatusType /\ ann[Copy[h]] \in StatusType
           /\ policy[h] \in {"none", "live", "terminating"}
           /\ store[h].tc \in Nat /\ view[D][h].tc \in Nat /\ cache[D][h].tc \in Nat
           /\ store[Copy[h]].tc \in Nat /\ ann[h].tc \in Nat /\ ann[Copy[h]].tc \in Nat
<1> USE SpokesType, ControllersType
<1>1. /\ store[h] \in Object /\ view[D][h] \in Object
      /\ cache[D][h] \in CacheEntry
      /\ store[Copy[h]] \in Object
  BY DEF MultiClusterTypeOK, TypeOK, ReconcilerTypeOK
<1>2. /\ ann[h] \in StatusType /\ ann[Copy[h]] \in StatusType
      /\ policy[h] \in {"none", "live", "terminating"}
  BY DEF MultiClusterTypeOK
<1> QED
  BY <1>1, <1>2 DEF DView, Object, CacheEntry, StatusType

\* The cache entry of a request that changes no status, against the AppWrapper.
LEMMA RefreshedOrder ==
    ASSUME MultiClusterTypeOK, NEW h \in Hubs, HubOrder(h), Refreshes(D, h)
    PROVE  cache'[D][h].has =>
              /\ Agree(cache'[D][h], store[h])
              /\ Agree(cache'[D][h], view[D][h])
              /\ cache'[D][h].tc > store[h].tc => store[h].step = "Deleted"
<1>1. DView(h) = view[D][h]
  BY DEF DView
<1> QED
  BY <1>1 DEF HubOrder, Refreshes, Agree, SameStatus

\* The status of the AppWrapper stays as it is.
LEMMA HubEditsKeep ==
    ASSUME MultiClusterTypeOK, NEW h \in Hubs, HubInv(h), SpokeSame(Copy[h]), HubEdits(h)
    PROVE  HubInv(h)'
<1> DEFINE H  == store[h]
           H1 == store'[h]
           V  == view[D][h]
           E  == cache[D][h]
           E1 == cache'[D][h]
           o  == store[Copy[h]]
           n  == ann[Copy[h]].tc
<1>0. /\ SameRun(H1, H) /\ SameStatus(H1, H) /\ view'[D][h] = V
      /\ DView(h) = V /\ DView(h)' = V
      /\ store'[Copy[h]] = o /\ ann'[Copy[h]] = ann[Copy[h]]
      /\ ann'[h] = ann[h] /\ policy'[h] = policy[h] /\ ExKept(h)
  BY DEF HubEdits, SpokeSame, DView, SameRun
<1>1. E1.has => /\ E.has
                /\ \/ SameStatus(E1, V)
                   \/ SameStatus(E1, E)
  BY DEF HubEdits, Refreshes
<1>2. HubOrder(h)'
  <2>1. E1.has => /\ Agree(E1, H)
                  /\ Agree(E1, V)
                  /\ E1.tc > H.tc => H.step = "Deleted"
    BY RefreshedOrder DEF HubInv, HubEdits
  <2> QED
    BY <1>0, <2>1 DEF HubInv, HubOrder, Agree, SameStatus, ExKept
<1>3. CopyRel(h)'
  <2>0. SameStatus(o, o)
    BY DEF SameStatus
  <2>1. /\ Copied(H1, n, o) <=> Copied(H, n, o)
        /\ InRun(H1, n, o) <=> InRun(H, n, o)
    BY <1>0, <2>0, SameCopied
  <2>2. /\ SameStatus(E1, V) => (Copied(E1, n, o) <=> Copied(V, n, o))
        /\ SameStatus(E1, E) => (Copied(E1, n, o) <=> Copied(E, n, o)) /\ E1.tc = E.tc
    BY <2>0, SameCopied DEF SameStatus
  <2>3. H1.restarts = H.restarts
    BY <1>0 DEF SameRun
  <2> QED
    BY <1>0, <1>1, <2>1, <2>2, <2>3 DEF HubInv, CopyRel
<1>4. BindOK(h)'
  <2>1. SameRun(H, ann[h]) => SameRun(H1, ann[h])
    BY <1>0 DEF SameRun, SameStatus
  <2>2. E1.has => E.has /\ (E1.tc = V.tc \/ E1.tc = E.tc)
    BY <1>1 DEF SameStatus
  <2>3. SameRun(V, ann[h]) => V.tc = ann[h].tc
    BY DEF SameRun, SameStatus
  <2>4. V.tc \in Nat /\ ann[h].tc \in Nat
    BY HubTypes
  <2>5. (H.ex # "new" => H1.ex # "new") /\ (Binding(h)' => Binding(h))
    BY <1>0 DEF ExKept, HubEdits
  <2> QED
    BY <1>0, <2>1, <2>2, <2>3, <2>4, <2>5 DEF HubInv, BindOK
<1>5. Bound(h)'
  <2>0. SameStatus(o, o)
    BY DEF SameStatus
  <2>1. JustDispatched(H1, ann[h].tc) <=> JustDispatched(H, ann[h].tc)
    BY <1>0, <2>0, SameCopied
  <2>2. /\ SameStatus(E1, V) =>
              (JustDispatched(E1, ann[h].tc) <=> JustDispatched(V, ann[h].tc))
        /\ SameStatus(E1, E) =>
              /\ JustDispatched(E1, ann[h].tc) <=> JustDispatched(E, ann[h].tc)
              /\ E1.tc = E.tc
    BY <2>0, SameCopied DEF SameStatus
  <2>3. H1.restarts = H.restarts /\ (InForce(H1) => InForce(H))
    BY <1>0 DEF SameRun, ExKept
  <2> QED
    BY <1>0, <1>1, <2>1, <2>2, <2>3 DEF HubInv, Bound
<1>6. PolicyOK(h)'
  BY <1>0 DEF HubInv, PolicyOK, ExKept
<1> QED
  BY <1>2, <1>3, <1>4, <1>5, <1>6 DEF HubInv

\* The Dispatcher makes a transition.
LEMMA HubTransitsKeep ==
    ASSUME MultiClusterTypeOK, NEW h \in Hubs, HubInv(h), CopyOK(Copy[h]),
           SpokeSame(Copy[h]), HubTransits(h)
    PROVE  HubInv(h)'
<1> DEFINE H  == store[h]
           H1 == store'[h]
           V  == view[D][h]
           E1 == cache'[D][h]
           o  == store[Copy[h]]
           n  == ann[Copy[h]].tc
<1>0. /\ SameRun(V, H) /\ SameStatus(V, H) /\ V.ex = "live" /\ view'[D][h] = V
      /\ DView(h) = V /\ DView(h)' = V
      /\ store'[Copy[h]] = o /\ ann'[Copy[h]] = ann[Copy[h]]
      /\ ann'[h] = ann[h] /\ policy'[h] = policy[h] /\ ExKept(h) /\ ~Binding(h)'
      /\ HubTransition(H, H1)
  BY DEF HubTransits, SpokeSame, DView, SameRun
<1>1. E1.has => SameStatus(E1, H1) \/ SameStatus(E1, V)
  BY DEF HubTransits, Records
<1>2. H.tc \in Nat /\ H1.tc = H.tc + 1 /\ V.tc = H.tc /\ n \in Nat /\ o.tc \in Nat
  BY <1>0, HubTypes DEF SameStatus, HubTransition
<1>3. HubOrder(h)'
  <2>1. Agree(V, H1) /\ ~(V.tc > H1.tc)
    BY <1>2 DEF Agree
  <2>2. E1.has => Agree(E1, H1) /\ Agree(E1, V) /\ ~(E1.tc > H1.tc)
    BY <1>1, <1>2 DEF Agree, SameStatus
  <2>3. H.ex # "new" /\ H1.ex # "new"
    BY <1>0 DEF HubInv, HubOrder, ExKept
  <2> QED
    BY <1>0, <2>1, <2>2, <2>3 DEF HubInv, HubOrder, ExKept
<1>4. CopyRel(h)'
  <2>1. ASSUME o.ex = "live"
        PROVE  /\ Copied(H1, n, o)
               /\ InRun(H1, n, o) => InRun(H, n, o) /\ H1.restarts = H.restarts
    <3>1. Copied(H, n, o) /\ Carries(o, ann[Copy[h]]) /\ CopyValid(o)
      BY <2>1 DEF HubInv, CopyRel, Carries, CopyOK
    <3> QED
      BY <1>0, <1>2, <3>1, HubTransitionCopied
  <2>2. /\ SameStatus(E1, H1) => (Copied(E1, n, o) <=> Copied(H1, n, o))
        /\ SameStatus(E1, V) => (Copied(E1, n, o) <=> Copied(V, n, o))
    <3>1. SameStatus(o, o)
      BY DEF SameStatus
    <3> QED
      BY <3>1, SameCopied
  <2> QED
    BY <1>0, <1>1, <2>1, <2>2 DEF HubInv, CopyRel
<1>5. BindOK(h)'
  BY <1>0 DEF BindOK
<1>6. Bound(h)'
  <2>1. ASSUME JustDispatched(H, ann[h].tc)
        PROVE  JustDispatched(H1, ann[h].tc) /\ H1.restarts = H.restarts
    BY <1>0, <2>1 DEF JustDispatched, HubTransition, Is
  <2>2. /\ SameStatus(E1, H1) =>
              (JustDispatched(E1, ann[h].tc) <=> JustDispatched(H1, ann[h].tc))
        /\ SameStatus(E1, V) =>
              (JustDispatched(E1, ann[h].tc) <=> JustDispatched(V, ann[h].tc))
    BY DEF JustDispatched, SameStatus, Is
  <2>3. InForce(H1) => InForce(H)
    BY <1>0 DEF ExKept
  <2> QED
    BY <1>0, <1>1, <2>1, <2>2, <2>3 DEF HubInv, Bound
<1>7. PolicyOK(h)'
  BY <1>0 DEF HubInv, PolicyOK, ExKept
<1> QED
  BY <1>3, <1>4, <1>5, <1>6, <1>7 DEF HubInv

\* The Dispatcher stores the status in the annotation.
LEMMA HubAnnotatesKeep ==
    ASSUME MultiClusterTypeOK, NEW h \in Hubs, HubInv(h), SpokeSame(Copy[h]),
           HubAnnotates(h)
    PROVE  HubInv(h)'
<1> DEFINE H  == store[h]
           V  == view[D][h]
           E  == cache[D][h]
           E1 == cache'[D][h]
           o  == store[Copy[h]]
           n  == ann[Copy[h]].tc
<1>0. /\ V = H /\ store'[h] = H /\ view'[D][h] = V
      /\ DView(h) = V /\ DView(h)' = V
      /\ store'[Copy[h]] = o /\ ann'[Copy[h]] = ann[Copy[h]]
      /\ policy'[h] = policy[h] /\ H.ex = "live" /\ Is(H, "Running", "Dispatching")
  BY DEF HubAnnotates, SpokeSame, DView
<1>1. E1.has => /\ E.has
                /\ \/ SameStatus(E1, V)
                   \/ SameStatus(E1, E)
  BY DEF HubAnnotates, Refreshes
<1>2. /\ ann'[h].tc = V.tc /\ ann'[h].restarts = V.restarts
      /\ SameRun(V, ann'[h]) /\ Is(ann'[h], "Running", "Dispatching")
  BY <1>0 DEF HubAnnotates, Status, SameRun, SameStatus, Is
<1>3. E1.has => E1.tc <= V.tc /\ (E1.tc = V.tc => SameStatus(E1, V))
  BY DEF HubAnnotates, Follows
<1>4. HubOrder(h)'
  <2>1. E1.has => /\ Agree(E1, H)
                  /\ Agree(E1, V)
                  /\ E1.tc > H.tc => H.step = "Deleted"
    BY RefreshedOrder DEF HubInv, HubAnnotates
  <2> QED
    BY <1>0, <2>1 DEF HubInv, HubOrder
<1>5. CopyRel(h)'
  <2>1. /\ SameStatus(E1, V) => (Copied(E1, n, o) <=> Copied(V, n, o))
        /\ SameStatus(E1, E) => (Copied(E1, n, o) <=> Copied(E, n, o)) /\ E1.tc = E.tc
    <3>1. SameStatus(o, o)
      BY DEF SameStatus
    <3> QED
      BY <3>1, SameCopied DEF SameStatus
  <2> QED
    BY <1>0, <1>1, <2>1 DEF HubInv, CopyRel
<1>6. BindOK(h)'
  BY <1>0, <1>2, <1>3 DEF BindOK
<1>7. Bound(h)'
  <2>1. JustDispatched(V, ann'[h].tc)
    BY <1>0, <1>2 DEF JustDispatched
  <2>2. E1.has => E1.tc < ann'[h].tc \/ JustDispatched(E1, ann'[h].tc)
    <3>1. V.tc \in Nat /\ E1.has => E1.tc < V.tc \/ SameStatus(E1, V)
      BY <1>1, <1>3, HubTypes DEF SameStatus
    <3> QED
      BY <1>2, <2>1, <3>1, HubTypes DEF JustDispatched, SameStatus, Is
  <2> QED
    BY <1>0, <1>2, <2>1, <2>2 DEF Bound
<1>8. PolicyOK(h)'
  BY <1>0 DEF HubInv, PolicyOK
<1> QED
  BY <1>4, <1>5, <1>6, <1>7, <1>8 DEF HubInv

\* The Dispatcher creates or deletes the BindingPolicy.
LEMMA HubBindsKeep ==
    ASSUME MultiClusterTypeOK, NEW h \in Hubs, HubInv(h), SpokeSame(Copy[h]), HubBinds(h)
    PROVE  HubInv(h)'
<1> DEFINE H  == store[h]
           V  == view[D][h]
           E  == cache[D][h]
           E1 == cache'[D][h]
           o  == store[Copy[h]]
           n  == ann[Copy[h]].tc
<1>0. /\ store'[h] = H /\ view'[D][h] = V
      /\ DView(h) = V /\ DView(h)' = V
      /\ store'[Copy[h]] = o /\ ann'[Copy[h]] = ann[Copy[h]]
      /\ ann'[h] = ann[h] /\ ~Binding(h)'
  BY DEF HubBinds, SpokeSame, DView
<1>1. E1.has => /\ E.has
                /\ \/ SameStatus(E1, V)
                   \/ SameStatus(E1, E)
  BY DEF HubBinds, Refreshes
<1>2. \/ Binding(h) /\ policy[h] # "live" /\ policy'[h] = "live"
      \/ policy[h] # "none" /\ policy'[h] = "terminating"
  BY DEF HubBinds
<1>3. HubOrder(h)'
  <2>1. E1.has => /\ Agree(E1, H)
                  /\ Agree(E1, V)
                  /\ E1.tc > H.tc => H.step = "Deleted"
    BY RefreshedOrder DEF HubInv, HubBinds
  <2> QED
    BY <1>0, <2>1 DEF HubInv, HubOrder
<1>4. CopyRel(h)'
  <2>1. /\ SameStatus(E1, V) => (Copied(E1, n, o) <=> Copied(V, n, o))
        /\ SameStatus(E1, E) => (Copied(E1, n, o) <=> Copied(E, n, o)) /\ E1.tc = E.tc
    <3>1. SameStatus(o, o)
      BY DEF SameStatus
    <3> QED
      BY <3>1, SameCopied DEF SameStatus
  <2> QED
    BY <1>0, <1>1, <2>1 DEF HubInv, CopyRel
<1>5. BindOK(h)'
  BY <1>0 DEF BindOK
<1>6. Bound(h)'
  <2>1. CASE policy'[h] = "terminating"
    BY <2>1 DEF Bound
  <2>2. CASE Binding(h) /\ policy[h] # "live"
    <3>1. /\ SameRun(H, ann[h]) /\ SameRun(V, ann[h])
          /\ Is(ann[h], "Running", "Dispatching")
          /\ E.has => E.tc <= ann[h].tc
      BY <1>0, <2>2 DEF HubInv, BindOK
    <3>2. \A x \in {H, V} : JustDispatched(x, ann[h].tc) /\ x.restarts = ann[h].restarts
      BY <3>1 DEF JustDispatched, SameRun, SameStatus, Is
    <3>3. E.has => E.tc < ann[h].tc \/ SameStatus(E, V)
      <4>1. E.has /\ E.tc = V.tc => SameStatus(E, V)
        BY <1>0 DEF HubInv, HubOrder, Agree
      <4> QED
        BY <3>1, <4>1, HubTypes DEF SameRun, SameStatus
    <3>4. E1.has => E1.tc < ann[h].tc \/ SameStatus(E1, V)
      BY <1>1, <3>3 DEF SameStatus
    <3>5. SameStatus(E1, V) => JustDispatched(E1, ann[h].tc)
      BY <3>2 DEF JustDispatched, SameStatus, Is
    <3> QED
      BY <1>0, <3>1, <3>2, <3>4, <3>5 DEF Bound
  <2> QED
    BY <1>2, <2>1, <2>2
<1>7. PolicyOK(h)'
  BY <1>0, <1>2 DEF HubInv, PolicyOK, BindOK
<1> QED
  BY <1>3, <1>4, <1>5, <1>6, <1>7 DEF HubInv

\* The Dispatcher preserves the invariant of the hub.
LEMMA HubStepKeeps ==
    ASSUME MInv, HubStep, NEW h \in Hubs
    PROVE  HubInv(h)'
<1>1. /\ MultiClusterTypeOK /\ HubInv(h) /\ Copy[h] \in Spokes
      /\ CopyOK(Copy[h]) /\ SpokeSame(Copy[h])
  BY SpokesType, HubStepKinds DEF MInv, SpokeInv
<1> QED
  BY <1>1, HubStepKinds, HubEditsKeep, HubTransitsKeep, HubAnnotatesKeep, HubBindsKeep

\* The copy keeps its status, and stays unless KubeStellar withdraws it.
LEMMA CopyEditsKeep ==
    ASSUME MultiClusterTypeOK, NEW h \in Hubs, HubInv(h), HubSame(h),
           ann'[Copy[h]] = ann[Copy[h]],
           SameRun(store'[Copy[h]], store[Copy[h]]),
           store'[Copy[h]].ex = "live" => store[Copy[h]].ex = "live",
           InForce(store'[Copy[h]]) => InForce(store[Copy[h]]),
           InForce(store[Copy[h]]) => \/ InForce(store'[Copy[h]])
                                      \/ policy[h] # "live"
                                      \/ ~InForce(store[h])
    PROVE  HubInv(h)'
<1> DEFINE H  == store[h]
           V  == view[D][h]
           E  == cache[D][h]
           o  == store[Copy[h]]
           o1 == store'[Copy[h]]
           n  == ann[Copy[h]].tc
<1>0. /\ store'[h] = H /\ view'[D][h] = V /\ cache'[D][h] = E
      /\ DView(h) = V /\ DView(h)' = V
      /\ ann'[h] = ann[h] /\ policy'[h] = policy[h] /\ (Binding(h)' => Binding(h))
  BY DEF HubSame, DView
<1>1. HubOrder(h)'
  BY <1>0 DEF HubInv, HubOrder
<1>2. CopyRel(h)'
  <2>1. SameStatus(o, o1) /\ o1.tc = o.tc /\ o1.state = o.state /\ o1.step = o.step
                          /\ o1.restarts = o.restarts
    BY DEF SameRun, SameStatus
  <2>2. SameStatus(H, H) /\ SameStatus(V, V) /\ SameStatus(E, E)
    BY DEF SameStatus
  <2>3. /\ Copied(H, n, o1) <=> Copied(H, n, o)
        /\ InRun(H, n, o1) <=> InRun(H, n, o)
        /\ Copied(V, n, o1) <=> Copied(V, n, o)
        /\ InRun(V, n, o1) <=> InRun(V, n, o)
        /\ Copied(E, n, o1) <=> Copied(E, n, o)
    BY <2>1, <2>2, SameCopied
  <2> QED
    BY <1>0, <2>1, <2>3 DEF HubInv, CopyRel
<1>3. BindOK(h)'
  BY <1>0 DEF HubInv, BindOK
<1>4. Bound(h)'
  BY <1>0 DEF HubInv, Bound
<1>5. PolicyOK(h)'
  BY <1>0 DEF HubInv, PolicyOK
<1> QED
  BY <1>1, <1>2, <1>3, <1>4, <1>5 DEF HubInv

\* The Runner makes a transition.
LEMMA CopyTransitsKeep ==
    ASSUME MultiClusterTypeOK, NEW h \in Hubs, HubInv(h), CopyOK(Copy[h]), HubSame(h),
           SpokeTransits(Copy[h])
    PROVE  HubInv(h)'
<1> DEFINE H  == store[h]
           V  == view[D][h]
           E  == cache[D][h]
           o  == store[Copy[h]]
           o1 == store'[Copy[h]]
           status == ann[Copy[h]]
<1>0. /\ store'[h] = H /\ view'[D][h] = V /\ cache'[D][h] = E
      /\ DView(h) = V /\ DView(h)' = V
      /\ ann'[h] = ann[h] /\ policy'[h] = policy[h] /\ (Binding(h)' => Binding(h))
      /\ ann'[Copy[h]] = status
      /\ InForce(o) /\ InForce(o1) /\ o.ex = "live"
  BY DEF HubSame, DView, SpokeTransits, InForce
<1>1. HubOrder(h)'
  BY <1>0 DEF HubInv, HubOrder
<1>2. CopyRel(h)'
  <2>0. /\ H.tc \in Nat /\ V.tc \in Nat /\ E.tc \in Nat /\ o.tc \in Nat /\ status.tc \in Nat
        /\ CopyValid(o)
    BY HubTypes DEF CopyOK
  <2>1. /\ Is(status, "Running", "Dispatching")
        /\ Carries(o, status)
        /\ \A x \in {H, V} : /\ Copied(x, status.tc, o)
                             /\ InRun(x, status.tc, o) => x.restarts = status.restarts
        /\ E.has => E.tc < status.tc \/ Copied(E, status.tc, o)
    BY <1>0 DEF HubInv, CopyRel, Carries
  <2>2. ASSUME NEW x \in {H, V, E}, Copied(x, status.tc, o)
        PROVE  /\ Copied(x, status.tc, o1)
               /\ InRun(x, status.tc, o1) => InRun(x, status.tc, o)
    <3>1. x.tc \in Nat
      BY <2>0
    <3>2. CASE SpokeTransition(o, o1)
      BY <2>0, <2>2, <3>1, <3>2, SpokeTransitionCopied
    <3>3. CASE TakeOver(o, o1, status)
      BY <2>0, <2>2, <3>1, <3>3, TakeOverCopied
    <3> QED
      BY <3>2, <3>3 DEF SpokeTransits
  <2>3. Carries(o1, status)
    <3>1. CASE SpokeTransition(o, o1)
      <4>1. o.state # "Empty" /\ o1.tc = o.tc + 1 /\ o1.restarts = o.restarts
        BY <3>1 DEF SpokeTransition, Is
      <4> QED
        BY <2>0, <2>1, <4>1 DEF Carries
    <3>2. CASE TakeOver(o, o1, status)
      BY <2>0, <3>2 DEF TakeOver, Carries, Is
    <3> QED
      BY <3>1, <3>2 DEF SpokeTransits
  <2> QED
    BY <1>0, <2>1, <2>2, <2>3 DEF CopyRel, Carries
<1>3. BindOK(h)'
  BY <1>0 DEF HubInv, BindOK
<1>4. Bound(h)'
  BY <1>0 DEF Bound
<1>5. PolicyOK(h)'
  BY <1>0 DEF HubInv, PolicyOK
<1> QED
  BY <1>1, <1>2, <1>3, <1>4, <1>5 DEF HubInv

\* What the Runner does to a copy without a transition.
LEMMA SpokeEdited ==
    ASSUME MultiClusterTypeOK, NEW s \in Spokes, CopyOK(s), SpokeEdits(s)
    PROVE  /\ store'[s].ex = "live" => /\ store[s].ex = "live"
                                       /\ store'[s].fin \in {store[s].fin, {"runner"}}
           /\ store[s].ex = "live" /\ store'[s].ex # "live" =>
                 store[s].del /\ view[R][s] = store[s] /\ Drained(s)
           /\ InForce(store'[s]) <=> InForce(store[s])
           /\ CopyValid(store'[s])
           /\ "runner" \in store[s].fin /\ store'[s].ex = "live" => "runner" \in store'[s].fin
<1> DEFINE o == store[s]
           p == [o EXCEPT !.fin = @ \ {"runner"}]
<1>0. o \in Object /\ CopyValid(o)
  BY SpokesType DEF MultiClusterTypeOK, TypeOK, ReconcilerTypeOK, CopyOK
<1>1. CASE store'[s] = o
  BY <1>0, <1>1
<1>2. CASE store'[s] = Guarded(o)
  <2>1. /\ Guarded(o).ex = o.ex /\ Guarded(o).del = o.del
        /\ Guarded(o).fin = o.fin \cup {"runner"}
        /\ Guarded(o).state = o.state /\ Guarded(o).step = o.step /\ Guarded(o).tc = o.tc
    BY <1>0 DEF Guarded, Object
  <2>2. Guarded(o).fin = {"runner"}
    BY <1>0, <2>1 DEF CopyValid
  <2>3. CopyValid(Guarded(o))
    BY <1>0, <2>1, <2>2 DEF CopyValid, Committed
  <2> QED
    BY <1>2, <2>1, <2>2, <2>3 DEF InForce
<1>3. CASE /\ view[R][s] = o /\ o.del /\ Drained(s)
           /\ store'[s] = Stored(p)
  <2>1. p.fin = {} /\ p.del
    BY <1>0, <1>3 DEF CopyValid, Object
  <2>2. Stored(p) = [p EXCEPT !.ex = "gone"]
    BY <2>1 DEF Stored
  <2>3. /\ Stored(p).ex = "gone" /\ Stored(p).fin = {}
        /\ Stored(p).state = o.state /\ Stored(p).step = o.step /\ Stored(p).tc = o.tc
    BY <1>0, <2>1, <2>2 DEF Object
  <2>4. CopyValid(Stored(p))
    BY <1>0, <2>3 DEF CopyValid
  <2> QED
    BY <1>3, <2>3, <2>4 DEF InForce
<1> QED
  BY <1>1, <1>2, <1>3 DEF SpokeEdits

\* The Runner preserves the invariant of the hub.
LEMMA SpokeStepKeepsHub ==
    ASSUME MInv, SpokeStep, NEW h \in Hubs
    PROVE  HubInv(h)'
<1>1. /\ MultiClusterTypeOK /\ HubInv(h) /\ Copy[h] \in Spokes
      /\ CopyOK(Copy[h]) /\ HubSame(h)
  BY SpokesType, SpokeStepKinds DEF MInv, SpokeInv
<1>2. CASE SpokeEdits(Copy[h])
  <2>1. SameRun(store'[Copy[h]], store[Copy[h]]) /\ ann'[Copy[h]] = ann[Copy[h]]
    BY <1>2 DEF SpokeEdits
  <2> QED
    BY <1>1, <1>2, <2>1, SpokeEdited, CopyEditsKeep
<1>3. CASE SpokeTransits(Copy[h])
  BY <1>1, <1>3, CopyTransitsKeep
<1> QED
  BY <1>1, <1>2, <1>3, SpokeStepKinds

-----------------------------------------------------------------------------
(* Every kind of step preserves the invariant of the spokes.               *)

\* The types of what SpokeInv(s) is about.
LEMMA SpokeTypes ==
    ASSUME MultiClusterTypeOK, NEW s \in Spokes
    PROVE  /\ store[s] \in Object /\ view[R][s] \in Object /\ RView(s) = view[R][s]
           /\ cache[R][s] \in CacheEntry /\ ann[s] \in StatusType
           /\ store[s].tc \in Nat /\ view[R][s].tc \in Nat /\ cache[R][s].tc \in Nat
           /\ ann[s].tc \in Nat
<1>1. /\ store[s] \in Object /\ view[R][s] \in Object
      /\ cache[R][s] \in CacheEntry /\ ann[s] \in StatusType
  BY SpokesType, ControllersType DEF MultiClusterTypeOK, TypeOK, ReconcilerTypeOK
<1> QED
  BY <1>1 DEF RView, Object, CacheEntry, StatusType

\* The copy keeps its status, and its finalizer as long as the Runner counts on it.
LEMMA SpokeEditsKeep ==
    ASSUME MultiClusterTypeOK, NEW s \in Spokes, SpokeInv(s),
           view'[R][s] = view[R][s], Refreshes(R, s),
           SameRun(store'[s], store[s]), CopyValid(store'[s]),
           store'[s].ex = "live" => store[s].ex = "live",
           InForce(view[R][s]) /\ store[s].ex = "live" /\ "runner" \in store[s].fin =>
              store'[s].ex = "live" /\ "runner" \in store'[s].fin
    PROVE  SpokeInv(s)'
<1> DEFINE W  == view[R][s]
           F  == cache[R][s]
           F1 == cache'[R][s]
           o  == store[s]
           o1 == store'[s]
<1>0. RView(s) = W /\ RView(s)' = W
  BY DEF RView
<1>1. F1.has => /\ F.has
                /\ \/ SameStatus(F1, W)
                   \/ SameStatus(F1, F)
  BY DEF Refreshes
<1>2. CopyOK(s)'
  BY <1>0 DEF SpokeInv, CopyOK
<1>3. GuardKept(s)'
  BY <1>0 DEF SpokeInv, GuardKept
<1>4. SpokeOrder(s)'
  <2>1. o1.tc = o.tc /\ SameStatus(o1, o)
    BY DEF SameRun, SameStatus
  <2>2. \A x : Follows(x, o) => Follows(x, o1)
    BY <2>1 DEF Follows, SameStatus
  <2>3. F1.has => Follows(F1, o) /\ Agree(F1, W)
    <3>1. F.has => Follows(W, o) /\ Follows(F, o) /\ Agree(F, W)
      BY <1>0 DEF SpokeInv, SpokeOrder
    <3>2. SameStatus(F1, W) /\ Follows(W, o) => Follows(F1, o) /\ Agree(F1, W)
      BY DEF SameStatus, Follows, Agree
    <3>3. SameStatus(F1, F) /\ Follows(F, o) /\ Agree(F, W) =>
             Follows(F1, o) /\ Agree(F1, W)
      BY DEF SameStatus, Follows, Agree
    <3> QED
      BY <1>1, <3>1, <3>2, <3>3
  <2> QED
    BY <1>0, <1>1, <2>2, <2>3 DEF SpokeInv, SpokeOrder
<1>5. CreatingSeen(s)'
  BY <1>0 DEF SpokeInv, CreatingSeen, SameRun, SameStatus
<1> QED
  BY <1>2, <1>3, <1>4, <1>5 DEF SpokeInv

\* The Runner makes a transition.
LEMMA SpokeTransitsKeep ==
    ASSUME MultiClusterTypeOK, NEW s \in Spokes, SpokeInv(s), SpokeTransits(s)
    PROVE  SpokeInv(s)'
<1> DEFINE W  == view[R][s]
           F1 == cache'[R][s]
           o  == store[s]
           o1 == store'[s]
<1>0. /\ RView(s) = W /\ RView(s)' = W /\ W.ex = "live" /\ SameStatus(W, o)
      /\ o.ex = "live" /\ o1.ex = "live" /\ o1.fin = o.fin /\ CopyValid(o) /\ CopyValid(W)
      /\ SpokeTransition(o, o1) \/ TakeOver(o, o1, ann[s])
  BY DEF RView, SpokeTransits, SameRun, InForce, SpokeInv, CopyOK
<1>1. F1.has => SameStatus(F1, o1) \/ SameStatus(F1, W)
  BY DEF SpokeTransits, Records
<1>2. o.tc \in Nat /\ W.tc = o.tc /\ o.tc < o1.tc /\ o1.tc \in Nat
  <2>1. W.tc = o.tc /\ o.tc \in Nat /\ ann[s].tc \in Nat
    BY <1>0, SpokeTypes DEF SameStatus
  <2>2. TakeOver(o, o1, ann[s]) => o.tc = 0 /\ o1.tc = ann[s].tc + 1
    BY <1>0 DEF TakeOver, CopyValid, Is
  <2>3. SpokeTransition(o, o1) => o1.tc = o.tc + 1
    BY DEF SpokeTransition
  <2> QED
    BY <1>0, <2>1, <2>2, <2>3
<1>3. CopyValid(o1)
  <2>1. CASE TakeOver(o, o1, ann[s])
    BY <1>0, <2>1 DEF TakeOver, CopyValid, CopyStatuses, Committed, Is
  <2>2. CASE SpokeTransition(o, o1)
    <3>1. "runner" \in o1.fin
      BY <1>0, <2>2 DEF SpokeTransition, CopyValid, Committed, Is
    <3>2. <<o1.state, o1.step>> \in CopyStatuses /\ o1.state # "Empty"
      BY <2>2 DEF SpokeTransition, CopyStatuses, Is
    <3> QED
      BY <1>0, <3>1, <3>2 DEF CopyValid
  <2> QED
    BY <1>0, <2>1, <2>2
<1>4. CopyOK(s)'
  BY <1>0, <1>3 DEF CopyOK
<1>5. GuardKept(s)'
  BY <1>0 DEF SpokeInv, GuardKept
<1>6. SpokeOrder(s)'
  <2>1. Follows(W, o1)
    BY <1>2 DEF Follows
  <2>2. F1.has => Follows(F1, o1) /\ Agree(F1, W)
    <3>1. SameStatus(F1, o1) => Follows(F1, o1) /\ Agree(F1, W)
      BY <1>2 DEF SameStatus, Follows, Agree
    <3>2. SameStatus(F1, W) => Follows(F1, o1) /\ Agree(F1, W)
      BY <1>2 DEF SameStatus, Follows, Agree
    <3> QED
      BY <1>1, <3>1, <3>2
  <2> QED
    BY <1>0, <2>1, <2>2 DEF SpokeOrder
<1>7. CreatingSeen(s)'
  BY <1>0 DEF CreatingSeen, SpokeTransition, TakeOver, SameStatus, Is
<1> QED
  BY <1>4, <1>5, <1>6, <1>7 DEF SpokeInv

\* The Dispatcher and the Runner preserve the invariant of the spokes.
LEMMA ControllersKeepSpokes ==
    ASSUME MInv, HubStep \/ SpokeStep, NEW s \in Spokes
    PROVE  SpokeInv(s)'
<1>0. MultiClusterTypeOK /\ SpokeInv(s)
  BY DEF MInv
<1>1. CASE HubStep
  <2>1. SpokeSame(s)
    BY <1>1, HubStepKinds
  <2>2. RView(s)' = RView(s) /\ store'[s] = store[s] /\ cache'[R][s] = cache[R][s]
    BY <2>1 DEF SpokeSame, RView
  <2> QED
    BY <1>0, <2>2 DEF SpokeInv, CopyOK, GuardKept, SpokeOrder, CreatingSeen
<1>2. CASE SpokeStep
  <2>1. CASE SpokeEdits(s)
    <3>1. /\ view'[R][s] = view[R][s] /\ Refreshes(R, s) /\ SameRun(store'[s], store[s])
          /\ CopyOK(s)
      BY <1>0, <2>1 DEF SpokeEdits, SpokeInv
    <3>2. /\ CopyValid(store'[s])
          /\ store'[s].ex = "live" => store[s].ex = "live"
          /\ InForce(view[R][s]) /\ store[s].ex = "live" /\ "runner" \in store[s].fin =>
                store'[s].ex = "live" /\ "runner" \in store'[s].fin
      BY <1>0, <2>1, <3>1, SpokeEdited DEF InForce
    <3> QED
      BY <1>0, <3>1, <3>2, SpokeEditsKeep
  <2>2. CASE SpokeTransits(s)
    BY <1>0, <2>2, SpokeTransitsKeep
  <2> QED
    BY <1>2, <2>1, <2>2, SpokeStepKinds
<1> QED
  BY <1>1, <1>2

-----------------------------------------------------------------------------
(* KubeStellar, the users, the informers, restarts.                        *)

\* Nobody touches the AppWrapper and its copy.
LEMMA HubSameKeeps ==
    ASSUME MultiClusterTypeOK, NEW h \in Hubs, HubInv(h), HubSame(h), SpokeSame(Copy[h])
    PROVE  HubInv(h)'
<1>1. SameRun(store'[Copy[h]], store[Copy[h]]) /\ store'[Copy[h]] = store[Copy[h]]
      /\ ann'[Copy[h]] = ann[Copy[h]]
  BY DEF SpokeSame, SameRun, SameStatus
<1> QED
  BY <1>1, CopyEditsKeep

\* Nobody touches the copy.
LEMMA SpokeSameKeeps ==
    ASSUME MultiClusterTypeOK, NEW s \in Spokes, SpokeInv(s), SpokeSame(s)
    PROVE  SpokeInv(s)'
<1>1. RView(s)' = RView(s) /\ store'[s] = store[s] /\ cache'[R][s] = cache[R][s]
  BY DEF SpokeSame, RView
<1> QED
  BY <1>1 DEF SpokeInv, CopyOK, GuardKept, SpokeOrder, CreatingSeen

\* KubeStellar creates a copy of h.
LEMMA DownsyncKeeps ==
    ASSUME MInv, NEW h \in Hubs, Downsync(h), UNCHANGED hub
    PROVE  HubInv(h)' /\ SpokeInv(Copy[h])'
<1> DEFINE s == Copy[h]
           H == store[h]
           V == view[D][h]
           E == cache[D][h]
           o1 == store'[s]
           n == ann[h].tc
<1> USE SpokesType, ControllersType
<1>0. /\ MultiClusterTypeOK /\ HubInv(h) /\ SpokeInv(s) /\ s \in Spokes /\ s # h
      /\ s \in AppWrappers /\ h \in AppWrappers
  BY DEF MInv
<1>1. /\ o1 = [NewObject EXCEPT !.ex = "live"] /\ store'[h] = H
      /\ ann'[s] = ann[h] /\ ann'[h] = ann[h] /\ policy' = policy
      /\ DView(h) = V /\ DView(h)' = V /\ RView(s) = view[R][s] /\ RView(s)' = view[R][s]
      /\ (Binding(h)' => Binding(h))
  BY <1>0 DEF Downsync, MultiClusterTypeOK, TypeOK, ReconcilerTypeOK, DView, RView, Binding
<1>2. cache'[R][s] = NoEntry /\ cache'[D][h] = E
  BY <1>0 DEF Downsync, MultiClusterTypeOK, TypeOK, ReconcilerTypeOK, D, R
<1>3. /\ o1.ex = "live" /\ ~o1.del /\ o1.fin = {} /\ o1.state = "Empty" /\ o1.step = "Idle"
      /\ o1.tc = 0
  BY <1>1 DEF NewObject
<1>4. /\ policy[h] = "live" /\ InForce(H) /\ store[s].ex # "live"
      /\ view[R][s].ex # "live" /\ ~InForce(store[s])
  BY DEF Downsync, InForce
<1>5. /\ Is(ann[h], "Running", "Dispatching")
      /\ \A x \in {H, V} : JustDispatched(x, n) /\ x.restarts = ann[h].restarts
      /\ E.has => E.tc < n \/ JustDispatched(E, n)
  BY <1>0, <1>1, <1>4 DEF HubInv, Bound
<1>6. HubInv(h)'
  <2>1. HubOrder(h)'
    BY <1>0, <1>1, <1>2 DEF HubInv, HubOrder
  <2>2. CopyRel(h)'
    BY <1>1, <1>2, <1>3, <1>5 DEF CopyRel, Copied, InRun
  <2>3. BindOK(h)'
    BY <1>0, <1>1, <1>2 DEF HubInv, BindOK
  <2>4. Bound(h)'
    BY <1>3 DEF Bound, InForce
  <2>5. PolicyOK(h)'
    BY <1>0, <1>1, <1>4 DEF HubInv, PolicyOK
  <2> QED
    BY <2>1, <2>2, <2>3, <2>4, <2>5 DEF HubInv
<1>7. SpokeInv(s)'
  <2>1. CopyValid(o1)
    BY <1>3 DEF CopyValid, CopyStatuses, Committed
  <2>2. CopyOK(s)'
    BY <1>0, <1>1, <2>1 DEF SpokeInv, CopyOK
  <2>3. GuardKept(s)' /\ CreatingSeen(s)'
    BY <1>1, <1>4 DEF GuardKept, CreatingSeen, InForce
  <2>4. SpokeOrder(s)'
    BY <1>1, <1>2, <1>4 DEF SpokeOrder, NoEntry
  <2> QED
    BY <2>2, <2>3, <2>4 DEF SpokeInv
<1> QED
  BY <1>6, <1>7

\* KubeStellar reports the status of the copy of h.
LEMMA ReportKeeps ==
    ASSUME MInv, NEW h \in Hubs, Report(h), UNCHANGED hub
    PROVE  HubInv(h)' /\ SpokeSame(Copy[h])
<1> DEFINE s == Copy[h]
           H == store[h]
           H1 == store'[h]
           V == view[D][h]
           E == cache[D][h]
           o == store[s]
           status == ann[s]
<1> USE SpokesType, ControllersType
<1>0. /\ MultiClusterTypeOK /\ HubInv(h) /\ SpokeInv(s) /\ s \in Spokes /\ s # h
      /\ s \in AppWrappers /\ h \in AppWrappers /\ CopyValid(o)
  BY DEF MInv, SpokeInv, CopyOK
<1>1. /\ H1 = WithStatus(H, Status(o)) /\ store'[s] = o
      /\ ann' = ann /\ policy' = policy /\ cache' = cache /\ view' = view
      /\ DView(h) = V /\ DView(h)' = V
      /\ (Binding(h)' => Binding(h))
      /\ policy[h] = "live" /\ InForce(o) /\ o.state # "Empty" /\ H.ex = "live"
      /\ o.ex = "live"
  BY <1>0 DEF Report, MultiClusterTypeOK, TypeOK, ReconcilerTypeOK, DView, Binding,
     bindingVars, InForce
<1>2. SameRun(H1, o) /\ H1.ex = H.ex /\ H1.del = H.del
  <2>1. H \in Object /\ o \in Object
    BY <1>0, HubTypes
  <2> QED
    BY <1>1, <2>1 DEF WithStatus, Status, SameRun, SameStatus, Object
<1>3. /\ H.tc \in Nat /\ V.tc \in Nat /\ E.tc \in Nat /\ o.tc \in Nat /\ status.tc \in Nat
  BY <1>0, HubTypes
<1>4. /\ Carries(o, status) /\ Is(status, "Running", "Dispatching")
      /\ Copied(V, status.tc, o)
      /\ InRun(V, status.tc, o) => V.restarts = status.restarts
      /\ E.has => E.tc < status.tc \/ Copied(E, status.tc, o)
  BY <1>0, <1>1 DEF HubInv, CopyRel, Carries
<1>5. HubOrder(h)'
  <2>1. Agree(V, o) /\ (V.tc > o.tc => o.step = "Deleted")
    BY <1>0, <1>1, <1>3, <1>4, ReportedAgrees
  <2>2. E.has => Agree(E, o) /\ (E.tc > o.tc => o.step = "Deleted")
    BY <1>0, <1>1, <1>3, <1>4, ReportedAgrees
  <2>3. H1.tc = o.tc /\ H1.step = o.step /\ \A x : Agree(x, o) => Agree(x, H1)
    BY <1>2 DEF SameRun, SameStatus, Agree
  <2>4. V.ex # "gone"
    BY <1>0, <1>1 DEF HubInv, HubOrder
  <2> QED
    BY <1>0, <1>1, <1>2, <2>1, <2>2, <2>3, <2>4 DEF HubInv, HubOrder
<1>6. CopyRel(h)'
  <2>1. InRun(H1, status.tc, o) /\ H1.restarts = status.restarts
    BY <1>0, <1>1, <1>2, <1>3, <1>4, ReportedCopied
  <2> QED
    BY <1>0, <1>1, <1>4, <2>1 DEF HubInv, CopyRel, Copied
<1>7. BindOK(h)'
  BY <1>0, <1>1, <1>2 DEF HubInv, BindOK
<1>8. Bound(h)'
  BY <1>1 DEF Bound
<1>9. PolicyOK(h)'
  BY <1>0, <1>1, <1>2 DEF HubInv, PolicyOK
<1> QED
  BY <1>1, <1>5, <1>6, <1>7, <1>8, <1>9 DEF HubInv, SpokeSame

\* KubeStellar deletes the copy of h.
LEMMA WithdrawKeeps ==
    ASSUME MInv, NEW h \in Hubs, Withdraw(h), UNCHANGED hub
    PROVE  HubInv(h)' /\ SpokeInv(Copy[h])'
<1> DEFINE s == Copy[h]
           o == store[s]
           p == [o EXCEPT !.del = TRUE]
<1> USE SpokesType, ControllersType
<1>0. /\ MultiClusterTypeOK /\ HubInv(h) /\ SpokeInv(s) /\ s \in Spokes /\ s # h
      /\ s \in AppWrappers /\ h \in AppWrappers /\ CopyValid(o) /\ o \in Object
  BY HubTypes DEF MInv, SpokeInv, CopyOK
<1>1. /\ store'[s] = Stored(p) /\ store'[h] = store[h]
      /\ o.ex = "live" /\ ~o.del
      /\ ann' = ann /\ policy' = policy /\ cache' = cache /\ view' = view
      /\ policy[h] # "live" \/ ~InForce(store[h])
  BY <1>0 DEF Withdraw, Delete, MultiClusterTypeOK, TypeOK, ReconcilerTypeOK, bindingVars,
     InForce
<1>2. p \in Object /\ SameRun(p, o) /\ p.del /\ p.fin = o.fin /\ p.ex = o.ex
  BY <1>0 DEF Object, SameRun, SameStatus
<1>3. /\ SameRun(Stored(p), o) /\ Stored(p).del /\ Stored(p).fin = o.fin
      /\ o.fin # {} => Stored(p) = p
  BY <1>2, StoredKeeps DEF Stored, SameRun, SameStatus
<1>4. HubInv(h)'
  <2>1. HubSame(h)
    BY <1>0, <1>1 DEF HubSame, Binding
  <2>2. /\ store'[s].ex = "live" => o.ex = "live"
        /\ InForce(store'[s]) => InForce(o)
        /\ InForce(o) => InForce(store'[s]) \/ policy[h] # "live" \/ ~InForce(store[h])
    BY <1>1, <1>3 DEF InForce
  <2> QED
    BY <1>0, <1>1, <1>3, <2>1, <2>2, CopyEditsKeep
<1>5. SpokeInv(s)'
  <2>1. CopyValid(store'[s])
    BY <1>0, <1>1, <1>3 DEF CopyValid, Committed, SameRun, SameStatus
  <2>2. /\ store'[s].ex = "live" => o.ex = "live"
        /\ InForce(view[R][s]) /\ o.ex = "live" /\ "runner" \in o.fin =>
              store'[s].ex = "live" /\ "runner" \in store'[s].fin
    BY <1>1, <1>2, <1>3
  <2>3. Refreshes(R, s)
    BY <1>1 DEF Refreshes, SameStatus
  <2> QED
    BY <1>0, <1>1, <1>3, <2>1, <2>2, <2>3, SpokeEditsKeep
<1> QED
  BY <1>4, <1>5

\* The BindingPolicy of h is gone.
LEMMA PolicyGoneKeeps ==
    ASSUME MInv, NEW h \in Hubs, PolicyGone(h), UNCHANGED hub
    PROVE  HubInv(h)'
<1> USE SpokesType
<1>1. /\ UNCHANGED <<store, view, cache, ann>> /\ policy'[h] = "none"
      /\ policy[h] = "terminating" /\ ~InForce(store[Copy[h]])
      /\ DView(h)' = DView(h) /\ (Binding(h)' => Binding(h)) /\ HubInv(h)
  BY DEF PolicyGone, MInv, MultiClusterTypeOK, InForce, DView, Binding, reconcilerVars
<1>2. HubOrder(h)'
  BY <1>1 DEF HubInv, HubOrder
<1>3. CopyRel(h)'
  BY <1>1 DEF HubInv, CopyRel
<1>4. BindOK(h)'
  BY <1>1 DEF HubInv, BindOK
<1>5. Bound(h)' /\ PolicyOK(h)'
  BY <1>1 DEF Bound, PolicyOK
<1> QED
  BY <1>2, <1>3, <1>4, <1>5 DEF HubInv

\* KubeStellar preserves the invariants.
LEMMA KubeStellarKeeps ==
    ASSUME MInv, NEW g \in Hubs, KubeStellar(g)
    PROVE  (\A h \in Hubs : HubInv(h)') /\ (\A s \in Spokes : SpokeInv(s)')
<1> USE SpokesType, ControllersType
<1>0. /\ MultiClusterTypeOK /\ UNCHANGED <<hub, view>>
      /\ \A h \in Hubs : HubInv(h)
      /\ \A s \in Spokes : SpokeInv(s)
  <2>1. UNCHANGED view
    BY DEF KubeStellar, Downsync, Report, Withdraw, Delete, PolicyGone, PolicySync,
       reconcilerVars
  <2> QED
    BY <2>1 DEF MInv, KubeStellar
<1>1. /\ \A h \in Hubs \ {g} : HubSame(h) /\ SpokeSame(Copy[h])
      /\ \A s \in Spokes \ {Copy[g]} : SpokeSame(s)
  <2>1. \A a \in AppWrappers \ {g, Copy[g]} : store'[a] = store[a] /\ ann'[a] = ann[a]
    BY <1>0 DEF KubeStellar, Downsync, Report, Withdraw, Delete, PolicyGone, PolicySync,
       MultiClusterTypeOK, TypeOK, ReconcilerTypeOK, reconcilerVars, bindingVars
  <2>2. \A a \in AppWrappers \ {Copy[g]}, c \in Controllers : cache'[c][a] = cache[c][a]
    <3>1. cache' = cache \/ cache' = [cache EXCEPT ![R][Copy[g]] = NoEntry]
      BY DEF KubeStellar, Downsync, Report, Withdraw, Delete, PolicyGone, PolicySync,
         reconcilerVars
    <3>2. cache \in [Controllers -> [AppWrappers -> CacheEntry]]
      BY <1>0 DEF MultiClusterTypeOK, TypeOK, ReconcilerTypeOK
    <3> QED
      BY <3>1, <3>2
  <2>3. \A h \in Hubs \ {g} : policy'[h] = policy[h]
    BY <1>0 DEF KubeStellar, Downsync, Report, Withdraw, Delete, PolicyGone, PolicySync,
       MultiClusterTypeOK, bindingVars
  <2>4. \A h \in Hubs \ {g} : HubSame(h)
    BY <1>0, <2>1, <2>2, <2>3 DEF HubSame, Binding
  <2>5. \A s \in Spokes \ {Copy[g]} : SpokeSame(s)
    BY <1>0, <2>1, <2>2 DEF SpokeSame
  <2> QED
    BY <2>4, <2>5
<1>2. /\ \A h \in Hubs \ {g} : HubInv(h)'
      /\ \A s \in Spokes \ {Copy[g]} : SpokeInv(s)'
  BY <1>0, <1>1, HubSameKeeps, SpokeSameKeeps
<1>3. HubInv(g)' /\ SpokeInv(Copy[g])'
  <2>1. CASE Downsync(g)
    BY <1>0, <2>1, DownsyncKeeps
  <2>2. CASE Report(g)
    <3>1. HubInv(g)' /\ SpokeSame(Copy[g])
      BY <1>0, <2>2, ReportKeeps
    <3> QED
      BY <1>0, <3>1, SpokeSameKeeps
  <2>3. CASE Withdraw(g)
    BY <1>0, <2>3, WithdrawKeeps
  <2>4. CASE PolicyGone(g)
    <3>1. SpokeSame(Copy[g])
      BY <2>4 DEF PolicyGone, SpokeSame, reconcilerVars
    <3> QED
      BY <1>0, <2>4, <3>1, PolicyGoneKeeps, SpokeSameKeeps
  <2>5. CASE PolicySync(g)
    <3>1. SpokeSame(Copy[g]) /\ HubSame(g)
      BY <1>0, <2>5 DEF PolicySync, SpokeSame, HubSame, Binding, reconcilerVars
    <3> QED
      BY <1>0, <3>1, HubSameKeeps, SpokeSameKeeps
  <2> QED
    BY <2>1, <2>2, <2>3, <2>4, <2>5 DEF KubeStellar
<1> QED
  BY <1>2, <1>3

\* The users preserve the invariants.
LEMMA UserKeeps ==
    ASSUME MInv, UserStep
    PROVE  (\A h \in Hubs : HubInv(h)') /\ (\A s \in Spokes : SpokeInv(s)')
<1> USE SpokesType, ControllersType
<1>0. /\ MultiClusterTypeOK /\ UNCHANGED <<view, cache, hub, ann, policy>>
      /\ \A h \in Hubs : HubInv(h)
      /\ \A s \in Spokes : SpokeInv(s)
  BY DEF MInv, UserStep, Create, Delete, bindingVars
<1>1. PICK g \in Hubs : Create(g) \/ Delete(g)
  BY MultiClusterAssumption DEF UserStep
<1>2. \A a \in AppWrappers \ {g} : store'[a] = store[a]
  BY <1>0, <1>1 DEF Create, Delete, MultiClusterTypeOK, TypeOK, ReconcilerTypeOK
<1>3. \A s \in Spokes : SpokeSame(s) /\ SpokeInv(s)'
  <2>1. \A s \in Spokes : SpokeSame(s)
    BY <1>0, <1>2 DEF SpokeSame
  <2> QED
    BY <1>0, <2>1, SpokeSameKeeps
<1>4. \A h \in Hubs \ {g} : HubInv(h)'
  <2>1. \A h \in Hubs \ {g} : HubSame(h)
    BY <1>0, <1>2 DEF HubSame, Binding
  <2> QED
    BY <1>0, <1>3, <2>1, HubSameKeeps
<1>5. HubInv(g)'
  <2>0. store[g] \in Object /\ DView(g)' = DView(g) /\ (Binding(g)' => Binding(g))
    BY <1>0, HubTypes DEF DView, Binding
  <2>1. CASE Delete(g)
    <3> DEFINE p == [store[g] EXCEPT !.del = TRUE]
    <3>1. store'[g] = Stored(p) /\ p.del /\ p.ex = store[g].ex /\ store[g].ex = "live"
      BY <1>0, <2>0, <2>1 DEF Delete, Object, MultiClusterTypeOK, TypeOK, ReconcilerTypeOK
    <3>2. p \in Object /\ SameRun(p, store[g])
      BY <2>0 DEF Object, SameRun, SameStatus
    <3>3. SameRun(Stored(p), store[g]) /\ Stored(p).del /\ Stored(p).ex \in {"live", "gone"}
      BY <3>1, <3>2, StoredKeeps, ZenonT(40) DEF SameRun, SameStatus
    <3>4. ExKept(g)
      BY <3>1, <3>3 DEF ExKept, InForce
    <3>5. Refreshes(D, g)
      BY <1>0 DEF Refreshes, SameStatus
    <3>6. HubEdits(g)
      BY <1>0, <2>0, <3>1, <3>3, <3>4, <3>5 DEF HubEdits
    <3> QED
      BY <1>0, <1>3, <3>6, HubEditsKeep
  <2>2. CASE Create(g)
    <3>1. store'[g] = [store[g] EXCEPT !.ex = "live"] /\ store[g].ex = "new"
      BY <1>0, <2>2 DEF Create, MultiClusterTypeOK, TypeOK, ReconcilerTypeOK
    <3>2. SameRun(store'[g], store[g]) /\ store'[g].ex = "live"
      BY <2>0, <3>1 DEF SameRun, SameStatus, Object
    <3>3. /\ policy[g] = "none" /\ ~Binding(g) /\ DView(g).ex = "new" /\ HubInv(g)
          /\ store'[Copy[g]] = store[Copy[g]]
      BY <1>0, <1>2, <3>1 DEF HubInv, PolicyOK, BindOK, HubOrder
    <3>4. HubOrder(g)'
      <4>1. \A x : Agree(x, store[g]) <=> Agree(x, store'[g])
        BY <3>2 DEF SameRun, SameStatus, Agree
      <4>2. store'[g].tc = store[g].tc /\ store'[g].step = store[g].step
        BY <3>2 DEF SameRun, SameStatus
      <4> QED
        BY <1>0, <2>0, <3>2, <3>3, <4>1, <4>2 DEF HubInv, HubOrder
    <3>5. CopyRel(g)'
      <4> DEFINE o == store[Copy[g]]
                 n == ann[Copy[g]].tc
      <4>1. /\ Copied(store'[g], n, o) <=> Copied(store[g], n, o)
            /\ InRun(store'[g], n, o) <=> InRun(store[g], n, o)
        <5>1. SameStatus(store'[g], store[g]) /\ SameStatus(o, o)
          BY <3>2 DEF SameRun, SameStatus
        <5> QED
          BY <5>1, SameCopied
      <4>2. store'[g].restarts = store[g].restarts
        BY <3>2 DEF SameRun
      <4> QED
        BY <1>0, <2>0, <3>3, <4>1, <4>2 DEF HubInv, CopyRel
    <3>6. BindOK(g)' /\ Bound(g)' /\ PolicyOK(g)'
      BY <1>0, <2>0, <3>3 DEF HubInv, BindOK, Bound, PolicyOK
    <3> QED
      BY <3>4, <3>5, <3>6 DEF HubInv
  <2> QED
    BY <1>1, <2>1, <2>2
<1> QED
  BY <1>3, <1>4, <1>5

\* The informer of the Dispatcher has the AppWrapper as it is.
LEMMA HubSyncKeeps ==
    ASSUME MultiClusterTypeOK, NEW h \in Hubs, HubInv(h),
           store'[h] = store[h], view'[D][h] = store[h],
           cache'[D][h] = cache[D][h] \/ ~cache'[D][h].has,
           ann'[h] = ann[h], policy'[h] = policy[h], ~Binding(h)',
           store'[Copy[h]] = store[Copy[h]], ann'[Copy[h]] = ann[Copy[h]]
    PROVE  HubInv(h)'
<1>0. DView(h)' = store[h] /\ (cache'[D][h].has => cache'[D][h] = cache[D][h])
  BY DEF DView
<1>1. HubOrder(h)'
  <2>1. Agree(store[h], store[h])
    BY DEF Agree, SameStatus
  <2>2. ~(store[h].tc > store[h].tc)
    BY HubTypes
  <2> QED
    BY <1>0, <2>1, <2>2 DEF HubInv, HubOrder
<1>2. CopyRel(h)'
  BY <1>0 DEF HubInv, CopyRel
<1>3. BindOK(h)'
  BY DEF BindOK
<1>4. Bound(h)'
  BY <1>0 DEF HubInv, Bound
<1>5. PolicyOK(h)'
  BY DEF HubInv, PolicyOK
<1> QED
  BY <1>1, <1>2, <1>3, <1>4, <1>5 DEF HubInv

\* The informer of the Runner has the copy as it is.
LEMMA SpokeSyncKeeps ==
    ASSUME MultiClusterTypeOK, NEW s \in Spokes, SpokeInv(s),
           store'[s] = store[s], view'[R][s] = store[s],
           cache'[R][s] = cache[R][s] \/ ~cache'[R][s].has
    PROVE  SpokeInv(s)'
<1>0. RView(s)' = store[s] /\ (cache'[R][s].has => cache'[R][s] = cache[R][s])
  BY DEF RView
<1>1. CopyOK(s)'
  BY <1>0 DEF SpokeInv, CopyOK
<1>2. GuardKept(s)'
  BY <1>0 DEF GuardKept, InForce
<1>3. SpokeOrder(s)'
  <2>1. Follows(store[s], store[s])
    BY SpokeTypes DEF Follows, SameStatus
  <2>2. \A x : Follows(x, store[s]) => Agree(x, store[s])
    BY DEF Follows, Agree
  <2> QED
    BY <1>0, <2>1, <2>2 DEF SpokeInv, SpokeOrder
<1>4. CreatingSeen(s)'
  BY <1>0 DEF CreatingSeen, Is
<1> QED
  BY <1>1, <1>2, <1>3, <1>4 DEF SpokeInv

\* The informers and restarts preserve the invariants.
LEMMA InformersKeep ==
    ASSUME MInv, \/ \E c \in Controllers, a \in AppWrappers : Informer(c, a)
                 \/ HubRestart
                 \/ SpokeRestart
    PROVE  (\A h \in Hubs : HubInv(h)') /\ (\A s \in Spokes : SpokeInv(s)')
<1> USE SpokesType, ControllersType
<1>0. /\ MultiClusterTypeOK
      /\ \A h \in Hubs : HubInv(h)
      /\ \A s \in Spokes : SpokeInv(s)
  BY DEF MInv
<1>1. UNCHANGED <<store, ann, policy>>
  BY DEF Informer, Sync, HubRestart, SpokeRestart, RestartIn, bindingVars
<1>2. /\ DOMAIN view = Controllers /\ \A c \in Controllers : DOMAIN view[c] = AppWrappers
      /\ DOMAIN cache = Controllers /\ \A c \in Controllers : DOMAIN cache[c] = AppWrappers
  BY <1>0 DEF MultiClusterTypeOK, TypeOK, ReconcilerTypeOK
<1>3. D # R /\ ~NoEntry.has /\ \A h \in Hubs : hub' = HubIdle => ~Binding(h)'
  BY DEF D, R, NoEntry, HubIdle, Binding
<1>4. ASSUME NEW h \in Hubs, UNCHANGED hub,
             view'[D][h] = view[D][h], cache'[D][h] = cache[D][h]
      PROVE  HubInv(h)'
  <2>1. HubSame(h)
    BY <1>1, <1>4 DEF HubSame, Binding
  <2>2. SameRun(store[Copy[h]], store[Copy[h]])
    BY DEF SameRun, SameStatus
  <2> QED
    BY <1>0, <1>1, <2>1, <2>2, CopyEditsKeep
<1>5. ASSUME NEW s \in Spokes, view'[R][s] = view[R][s], cache'[R][s] = cache[R][s]
      PROVE  SpokeInv(s)'
  BY <1>0, <1>1, <1>5, SpokeSameKeeps DEF SpokeSame
<1>6. ASSUME NEW a \in AppWrappers, Informer(D, a)
      PROVE  (\A h \in Hubs : HubInv(h)') /\ (\A s \in Spokes : SpokeInv(s)')
  <2>1. /\ a \in Hubs /\ hub = HubIdle /\ UNCHANGED <<hub, cache>>
        /\ view' = [view EXCEPT ![D][a] = store[a]]
    BY <1>6 DEF Informer, Sync
  <2>2. /\ view'[D][a] = store[a]
        /\ \A h \in Hubs \ {a} : view'[D][h] = view[D][h]
        /\ \A s \in Spokes : view'[R][s] = view[R][s]
    BY <1>2, <1>3, <2>1
  <2>3. HubInv(a)'
    BY <1>0, <1>1, <1>3, <2>1, <2>2, HubSyncKeeps
  <2> QED
    BY <1>4, <1>5, <2>1, <2>2, <2>3
<1>7. ASSUME NEW a \in AppWrappers, Informer(R, a)
      PROVE  (\A h \in Hubs : HubInv(h)') /\ (\A s \in Spokes : SpokeInv(s)')
  <2>1. /\ a \in Spokes /\ UNCHANGED <<hub, cache>>
        /\ view' = [view EXCEPT ![R][a] = store[a]]
    BY <1>3, <1>7 DEF Informer, Sync
  <2>2. /\ view'[R][a] = store[a]
        /\ \A h \in Hubs : view'[D][h] = view[D][h]
        /\ \A s \in Spokes \ {a} : view'[R][s] = view[R][s]
    BY <1>2, <1>3, <2>1
  <2>3. SpokeInv(a)'
    BY <1>0, <1>1, <2>1, <2>2, SpokeSyncKeeps
  <2> QED
    BY <1>4, <1>5, <2>1, <2>2, <2>3
<1>8. CASE HubRestart
  <2>1. /\ hub' = HubIdle
        /\ \A h \in Hubs : view'[D][h] = store[h] /\ cache'[D][h] = NoEntry
        /\ \A s \in Spokes : view'[R][s] = view[R][s] /\ cache'[R][s] = cache[R][s]
    BY <1>2, <1>3, <1>8 DEF HubRestart, RestartIn
  <2>2. ASSUME NEW h \in Hubs PROVE HubInv(h)'
    BY <1>0, <1>1, <1>3, <2>1, HubSyncKeeps
  <2> QED
    BY <1>5, <2>1, <2>2
<1>9. CASE SpokeRestart
  <2>1. /\ UNCHANGED hub
        /\ \A s \in Spokes : view'[R][s] = store[s] /\ cache'[R][s] = NoEntry
        /\ \A h \in Hubs : view'[D][h] = view[D][h] /\ cache'[D][h] = cache[D][h]
    BY <1>2, <1>3, <1>9 DEF SpokeRestart, RestartIn
  <2>2. ASSUME NEW s \in Spokes PROVE SpokeInv(s)'
    BY <1>0, <1>1, <1>3, <2>1, SpokeSyncKeeps
  <2> QED
    BY <1>4, <2>1, <2>2
<1>10. \A c \in Controllers : c = D \/ c = R
  BY DEF Controllers, D, R
<1> QED
  BY <1>6, <1>7, <1>8, <1>9, <1>10

\* Every step preserves what the invariant says of the AppWrappers.
LEMMA ObjectsKeep ==
    ASSUME MInv, [Next]_vars
    PROVE  (\A h \in Hubs : HubInv(h)') /\ (\A s \in Spokes : SpokeInv(s)')
<1> USE SpokesType, ControllersType
<1>1. CASE UserStep
  BY <1>1, UserKeeps
<1>2. CASE HubStep
  BY <1>2, HubStepKeeps, ControllersKeepSpokes
<1>3. CASE SpokeStep
  BY <1>3, SpokeStepKeepsHub, ControllersKeepSpokes
<1>4. CASE \E h \in Hubs : KubeStellar(h)
  BY <1>4, KubeStellarKeeps
<1>5. CASE \E c \in Controllers, a \in AppWrappers : Informer(c, a)
  BY <1>5, InformersKeep
<1>6. CASE HubRestart \/ SpokeRestart
  BY <1>6, InformersKeep
<1>7. CASE UNCHANGED <<store, view, cache, ann, policy, hub>>
  <2>1. /\ \A h \in Hubs : HubSame(h)
        /\ \A s \in Spokes : SpokeSame(s)
    BY <1>7 DEF HubSame, SpokeSame, Binding
  <2> QED
    BY <2>1, HubSameKeeps, SpokeSameKeeps DEF MInv
<1>8. ASSUME (\E s \in Spokes : SpokeCluster(s)) \/ vars' = vars
      PROVE  UNCHANGED <<store, view, cache, ann, policy, hub>>
  BY <1>8 DEF SpokeCluster, Cluster, ItemGone, ItemComplete, PodCreated, PodPhase,
     PodEvicted, PodGone, PodSync, bindingVars, vars, reconcilerVars
<1> QED
  BY <1>1, <1>2, <1>3, <1>4, <1>5, <1>6, <1>7, <1>8 DEF Next

-----------------------------------------------------------------------------
(* What the workers found at the start of a request still holds.           *)

\* A step of the Dispatcher's worker.
LEMMA HubStepWorker ==
    ASSUME MInv, HubStep
    PROVE  HubWorker'
<1> USE SpokesType, ControllersType DEF MInv
<1>0. /\ HubWorker /\ MultiClusterTypeOK
      /\ \A a \in AppWrappers : DView(a)' = DView(a)
  <2>1. UNCHANGED view
    BY DispatcherKinds DEF HubKind, Only, HAnnotate, HUnbind, HBind, HFailed
  <2> QED
    BY <2>1 DEF DView
<1>a. hub = HubIdle => hub.op = "idle"
  BY DEF HubIdle
<1>1. ASSUME NEW a \in Hubs, NEW r \in Outcomes, HReconcile(a, r) PROVE HubWorker'
  <2>1. hub' = HubIdle /\ UNCHANGED todo
    BY <1>1 DEF HReconcile, DMissing, DStale, DAddFinalizers, DQueued, DNothing,
       dispatcherVars
  <2>2. adding' = adding \/ adding' = NoAppWrapper
           \/ (adding' = a /\ DView(a).ex = "live" /\ DView(a).state = "Empty")
    BY <1>1 DEF HReconcile, DMissing, DStale, DAddFinalizers, DQueued, DNothing,
       dispatcherVars, DReconciling, Reconciling, DState, DView
  <2> QED
    BY <1>0, <2>1, <2>2 DEF HubWorker, HubIdle
<1>2. ASSUME NEW a \in Hubs, NEW r \in Outcomes, HBinding(a, r) PROVE HubWorker'
  <2>1. UNCHANGED dispatcherVars /\ DispatcherIdle
    BY <1>2 DEF HBinding, HAnnotate, HUnbind, DReconciling
  <2> QED
    BY <1>0, <2>1 DEF HubWorker, DispatcherIdle, dispatcherVars
<1>3. ASSUME NEW r \in Outcomes, HDispatch(r) PROVE HubWorker'
  <2>1. /\ UNCHANGED hub /\ todo' \subseteq todo
        /\ adding' = adding \/ adding' = NoAppWrapper
        /\ ~DispatcherIdle
    <3>1. CASE DQueueNew(r)
      BY <1>3, <3>1 DEF HDispatch, DQueueNew, DispatcherIdle
    <3>2. CASE DDispatch(r)
      BY <1>3, <3>2 DEF HDispatch, DDispatch, DispatcherIdle
    <3>3. CASE DAbort
      BY <1>3, <3>3 DEF HDispatch, DAbort, DispatcherIdle
    <3> QED
      BY <1>3, <3>1, <3>2, <3>3 DEF HDispatch
  <2> QED
    BY <1>0, <2>1 DEF HubWorker
<1>4. ASSUME NEW r \in Outcomes, HFollowUp(r) PROVE HubWorker'
  <2>1. UNCHANGED <<todo, adding>> /\ hub.op # "idle"
    BY <1>4 DEF HFollowUp, HBind, HBound, HUnbound, DHandOver, DFinalize, DRequeue, DFailed,
       dispatcherVars
  <2> QED
    BY <1>0, <2>1 DEF HubWorker, DispatcherIdle
<1>5. ASSUME NEW paused, HSelect(paused) PROVE HubWorker'
  <2>1. /\ hub' = HubIdle /\ adding' = NoAppWrapper
        /\ todo' \subseteq Candidates(paused)
    BY <1>5 DEF HSelect, DSelect, DispatcherIdle
  <2>2. Candidates(paused) \subseteq Listed
    BY DEF Candidates, IdleCandidates
  <2>3. \A a \in todo' : a \in Hubs /\ DView(a).ex = "live"
    BY <1>0, <2>1, <2>2 DEF HubWorker, Listed
  <2> QED
    BY <1>0, <2>1, <2>3 DEF HubWorker, HubIdle
<1> QED
  BY <1>1, <1>2, <1>3, <1>4, <1>5 DEF HubStep

\* Other steps, which wait until the worker has ended its request if they change
\* what it reads.
LEMMA HubWorkerKept ==
    ASSUME MInv, [Next]_vars
    PROVE  HubWorker'
<1> USE SpokesType, ControllersType DEF MInv
<1>0. HubWorker /\ MultiClusterTypeOK /\ D # R
  BY DEF D, R
<1>1. CASE HubStep
  BY <1>1, HubStepWorker
<1>2. CASE UNCHANGED <<todo, adding, hub>> /\ \A a \in AppWrappers : view'[D][a] = view[D][a]
  <2>1. adding # NoAppWrapper => adding \in AppWrappers
    BY DEF HubWorker
  <2> QED
    BY <1>0, <1>2, <2>1 DEF HubWorker, DView, DispatcherIdle
<1>3. CASE UserStep \/ SpokeStep \/ (\E h \in Hubs : KubeStellar(h))
  <2>1. UNCHANGED <<todo, adding, hub>>
    BY <1>3 DEF UserStep, SpokeStep, OnlySpoke, KubeStellar, dispatcherVars
  <2>2. view' = view
    <3>1. CASE UserStep
      BY <3>1 DEF UserStep, Create, Delete
    <3>2. CASE \E h \in Hubs : KubeStellar(h)
      BY <3>2 DEF KubeStellar, Downsync, Report, Withdraw, Delete, PolicyGone, PolicySync,
         reconcilerVars
    <3>3. CASE SpokeStep
      BY <3>3, RunnerKinds DEF SpokeKind, Only
    <3> QED
      BY <1>3, <3>1, <3>2, <3>3
  <2> QED
    BY <1>2, <2>1, <2>2
<1>4. ASSUME NEW c \in Controllers, NEW a \in AppWrappers, Informer(c, a) PROVE HubWorker'
  <2>1. view' = [view EXCEPT ![c][a] = store[a]] /\ UNCHANGED <<todo, adding, hub>>
    BY <1>4 DEF Informer, Sync, dispatcherVars
  <2>2. CASE c = D
    <3>1. todo = {} /\ adding = NoAppWrapper /\ hub = HubIdle /\ a \in Hubs
      BY <1>4, <2>2 DEF Informer, DispatcherIdle
    <3>2. \A b \in AppWrappers \ Hubs : view'[D][b] = view[D][b]
      BY <2>1, <2>2, <3>1 DEF MultiClusterTypeOK, TypeOK, ReconcilerTypeOK
    <3> QED
      BY <1>0, <2>1, <3>1, <3>2 DEF HubWorker, DView, HubIdle
  <2>3. CASE c # D
    <3>1. \A b \in AppWrappers : view'[D][b] = view[D][b]
      BY <2>1, <2>3 DEF MultiClusterTypeOK, TypeOK, ReconcilerTypeOK
    <3> QED
      BY <1>2, <2>1, <3>1
  <2> QED
    BY <2>2, <2>3
<1>5. CASE HubRestart
  <2>1. todo' = {} /\ adding' = NoAppWrapper /\ hub' = HubIdle
    BY <1>5 DEF HubRestart
  <2>2. \A b \in AppWrappers \ Hubs : view'[D][b] = view[D][b]
    BY <1>5 DEF HubRestart, RestartIn, MultiClusterTypeOK, TypeOK, ReconcilerTypeOK
  <2> QED
    BY <1>0, <2>1, <2>2 DEF HubWorker, DView, HubIdle
<1>6. CASE SpokeRestart
  <2>1. UNCHANGED <<todo, adding, hub>>
    BY <1>6 DEF SpokeRestart, dispatcherVars
  <2>2. \A b \in AppWrappers : view'[D][b] = view[D][b]
    BY <1>0, <1>6 DEF SpokeRestart, RestartIn, MultiClusterTypeOK, TypeOK, ReconcilerTypeOK
  <2> QED
    BY <1>2, <2>1, <2>2
<1>7. CASE (\E s \in Spokes : SpokeCluster(s)) \/ vars' = vars
  <2>1. UNCHANGED <<todo, adding, hub, view>>
    BY <1>7 DEF SpokeCluster, Cluster, ItemGone, ItemComplete, PodCreated, PodPhase,
       PodEvicted, PodGone, PodSync, vars, reconcilerVars, dispatcherVars
  <2> QED
    BY <1>2, <2>1
<1> QED
  BY <1>1, <1>3, <1>4, <1>5, <1>6, <1>7 DEF Next

\* A step of the Runner's worker.
LEMMA SpokeStepWorker ==
    ASSUME MInv, SpokeStep
    PROVE  SpokeWorker'
<1> USE SpokesType, ControllersType DEF MInv
<1>0. SpokeWorker /\ \A a \in AppWrappers : RView(a)' = RView(a)
  <2>1. UNCHANGED view
    BY RunnerKinds DEF SpokeKind, Only
  <2> QED
    BY <2>1 DEF RView
<1>a. Idle.op = "idle" /\ Idle.aw = NoAppWrapper
  BY DEF Idle
<1>b. runner \in RunnerState
  BY DEF MultiClusterTypeOK, TypeOK, RunnerTypeOK
<1>c. accepting # NoAppWrapper => accepting \in AppWrappers
  BY DEF SpokeWorker
<1>d. runner.op # "idle" => runner.aw \in AppWrappers
  BY DEF SpokeWorker
<1>1. ASSUME NEW a \in Spokes, NEW r \in Outcomes, RReconciles(a, r) PROVE SpokeWorker'
  <2>0. accepting' = NoAppWrapper
    BY <1>1 DEF RReconciles
  <2>1. CASE RCreate(a)
    <3>1. /\ runner'.op \in {"create", "fail"} /\ runner'.aw = a
          /\ RView(a).ex = "live" /\ ~RView(a).del /\ Is(RView(a), "Running", "Creating")
      BY <2>1 DEF RCreate, RReconciling, Reconciling, RState, Idle, RView, Is
    <3> QED
      BY <1>0, <2>0, <3>1 DEF SpokeWorker
  <2>2. CASE RDelete(a)
    <3>1. /\ runner'.op = "delete" /\ runner'.aw = a
          /\ RView(a).ex = "live" /\ (RView(a).del \/ RView(a).step = "Deleting")
      BY <2>2 DEF RDelete, RReconciling, Reconciling, RState, Idle, RView
    <3> QED
      BY <1>0, <2>0, <3>1 DEF SpokeWorker
  <2>3. CASE runner' = Idle
    BY <1>a, <2>0, <2>3 DEF SpokeWorker
  <2>4. RCreate(a) \/ RDelete(a) \/ runner' = Idle
    BY <1>1 DEF RReconciles, RMissing, RStale, RForget, RSucceed, RUnhealthy, RHealthy,
       RNothing, RReconciling
  <2> QED
    BY <2>1, <2>2, <2>3, <2>4
<1>2. ASSUME NEW a \in Spokes, NEW r \in Outcomes, RAccepting(a, r) PROVE SpokeWorker'
  <2>1. runner' = Idle
    BY <1>2 DEF RAccepting, RTakeOver, RGuard, RReconciling
  <2>2. \/ accepting' = NoAppWrapper
        \/ accepting' = a /\ InForce(RView(a)) /\ Is(RView(a), "Running", "Accepting")
    BY <1>2 DEF RAccepting, RTakeOver, RGuard, RReconciling, Reconciling, RState, RView, Is,
       InForce
  <2> QED
    BY <1>0, <1>a, <2>1, <2>2 DEF SpokeWorker
<1>3. ASSUME NEW r \in Outcomes, RFollowUp(r) PROVE SpokeWorker'
  <2>1. \/ runner' = Idle /\ accepting' = accepting
        \/ runner' = runner /\ accepting' = NoAppWrapper
    BY <1>3 DEF RFollowUp, RAccepted, RCreated, RCreateFailed, RDeleted, Finished
  <2> QED
    BY <1>0, <1>a, <1>c, <1>d, <2>1 DEF SpokeWorker
<1>4. CASE RItem
  <2>1. /\ UNCHANGED accepting /\ runner'.aw = runner.aw
        /\ \/ runner.op = "create" /\ runner'.op \in {"create", "fail"}
           \/ runner.op = "delete" /\ runner'.op = "delete"
    BY <1>4, <1>b, ZenonT(40) DEF RItem, RCreateItem, RDeleteItem, RunnerState, Idle
  <2> QED
    BY <1>0, <1>c, <1>d, <2>1 DEF SpokeWorker
<1>5. ASSUME NEW force \in BOOLEAN, RAgain(force) PROVE SpokeWorker'
  <2>1. runner' = Idle /\ UNCHANGED accepting
    BY <1>5 DEF RAgain, RDeleteAgain, Finished
  <2> QED
    BY <1>0, <1>a, <1>c, <2>1 DEF SpokeWorker
<1> QED
  BY <1>1, <1>2, <1>3, <1>4, <1>5 DEF SpokeStep

\* Other steps.
LEMMA SpokeWorkerKept ==
    ASSUME MInv, [Next]_vars
    PROVE  SpokeWorker'
<1> USE SpokesType, ControllersType DEF MInv
<1>0. SpokeWorker /\ MultiClusterTypeOK /\ D # R /\ Idle.op = "idle"
  BY DEF D, R, Idle
<1>1. CASE SpokeStep
  BY <1>1, SpokeStepWorker
<1>2. CASE UNCHANGED <<runner, accepting>>
           /\ \A a \in AppWrappers : view'[R][a] = view[R][a]
  <2>1. /\ accepting # NoAppWrapper => accepting \in AppWrappers
        /\ runner.op # "idle" => runner.aw \in AppWrappers
    BY DEF SpokeWorker
  <2> QED
    BY <1>0, <1>2, <2>1 DEF SpokeWorker, RView
<1>3. CASE UserStep \/ HubStep \/ (\E h \in Hubs : KubeStellar(h))
  <2>1. UNCHANGED <<runner, accepting>>
    BY <1>3 DEF UserStep, HubStep, OnlyHub, KubeStellar, spokeVars
  <2>2. view' = view
    <3>1. CASE UserStep
      BY <3>1 DEF UserStep, Create, Delete
    <3>2. CASE \E h \in Hubs : KubeStellar(h)
      BY <3>2 DEF KubeStellar, Downsync, Report, Withdraw, Delete, PolicyGone, PolicySync,
         reconcilerVars
    <3>3. CASE HubStep
      BY <3>3, DispatcherKinds DEF HubKind, Only, HAnnotate, HUnbind, HBind, HFailed
    <3> QED
      BY <1>3, <3>1, <3>2, <3>3
  <2> QED
    BY <1>2, <2>1, <2>2
<1>4. ASSUME NEW c \in Controllers, NEW a \in AppWrappers, Informer(c, a) PROVE SpokeWorker'
  <2>1. view' = [view EXCEPT ![c][a] = store[a]] /\ UNCHANGED <<runner, accepting>>
    BY <1>4 DEF Informer, Sync, spokeVars
  <2>2. CASE c = D
    <3>1. \A b \in AppWrappers : view'[R][b] = view[R][b]
      BY <1>0, <2>1, <2>2 DEF MultiClusterTypeOK, TypeOK, ReconcilerTypeOK
    <3> QED
      BY <1>2, <2>1, <3>1
  <2>3. CASE c # D
    <3>1. runner = Idle /\ accepting = NoAppWrapper
      BY <1>4, <2>3 DEF Informer
    <3> QED
      BY <1>0, <2>1, <3>1 DEF SpokeWorker
  <2> QED
    BY <2>2, <2>3
<1>5. CASE HubRestart
  <2>1. UNCHANGED <<runner, accepting>>
    BY <1>5 DEF HubRestart, spokeVars
  <2>2. \A b \in AppWrappers : view'[R][b] = view[R][b]
    BY <1>0, <1>5 DEF HubRestart, RestartIn, MultiClusterTypeOK, TypeOK, ReconcilerTypeOK
  <2> QED
    BY <1>2, <2>1, <2>2
<1>6. CASE SpokeRestart
  BY <1>0, <1>6 DEF SpokeRestart, SpokeWorker
<1>7. CASE (\E s \in Spokes : SpokeCluster(s)) \/ vars' = vars
  <2>1. UNCHANGED <<runner, accepting, view>>
    BY <1>7 DEF SpokeCluster, Cluster, ItemGone, ItemComplete, PodCreated, PodPhase,
       PodEvicted, PodGone, PodSync, vars, reconcilerVars
  <2> QED
    BY <1>2, <2>1
<1> QED
  BY <1>1, <1>3, <1>4, <1>5, <1>6, <1>7 DEF Next

-----------------------------------------------------------------------------
(* The invariant, and that the transition counts agree.                    *)

\* It holds initially.
LEMMA MInvInit == Init => MInv
<1> SUFFICES ASSUME Init PROVE MInv
  OBVIOUS
<1> USE SpokesType, ControllersType
<1>0. MultiClusterTypeOK
  BY MultiClusterInitType
<1>1. /\ \A s \in Spokes : store[s] = NewObject /\ RView(s) = NewObject /\ cache[R][s] = NoEntry
      /\ \A h \in Hubs : /\ store[h] \in {NewObject, LegacyObject}
                         /\ DView(h) = store[h] /\ cache[D][h] = NoEntry
                         /\ policy[h] = "none" /\ hub = HubIdle
                         /\ store[Copy[h]] = NewObject
      /\ \A a \in AppWrappers \ Hubs : DView(a) = NewObject
  BY MultiClusterAssumption DEF Init, ReconcilerInit, DView, RView
<1>2. /\ NewObject.ex = "new" /\ NewObject.state = "Empty" /\ NewObject.step = "Idle"
      /\ NewObject.tc = 0 /\ NewObject.fin = {} /\ ~NoEntry.has
      /\ LegacyObject.ex = "live"
  BY DEF NewObject, LegacyObject, NoEntry
<1>3. ASSUME NEW s \in Spokes PROVE SpokeInv(s)
  BY <1>1, <1>2 DEF SpokeInv, CopyOK, CopyValid, CopyStatuses, GuardKept, SpokeOrder,
     CreatingSeen, InForce
<1>4. ASSUME NEW h \in Hubs PROVE HubInv(h)
  <2>1. HubOrder(h)
    <3>1. store[h].tc \in Nat
      BY <1>0, HubTypes
    <3> QED
      BY <1>1, <1>2, <3>1 DEF HubOrder, Agree, SameStatus
  <2>2. CopyRel(h)
    BY <1>1, <1>2 DEF CopyRel
  <2>3. BindOK(h) /\ Bound(h) /\ PolicyOK(h)
    BY <1>1, <1>2 DEF BindOK, Bound, PolicyOK, Binding, HubIdle, InForce
  <2> QED
    BY <2>1, <2>2, <2>3 DEF HubInv
<1>5. HubWorker
  BY <1>1, <1>2 DEF HubWorker, Init, DispatcherInit, HubIdle
<1>6. SpokeWorker
  BY DEF SpokeWorker, Init, RunnerInit, Idle
<1> QED
  BY <1>0, <1>3, <1>4, <1>5, <1>6 DEF MInv

\* Every step preserves it.
LEMMA MInvNext ==
    ASSUME MInv, [Next]_vars
    PROVE  MInv'
<1>1. MultiClusterTypeOK'
  BY MultiClusterNextType DEF MInv
<1>2. /\ \A h \in Hubs : HubInv(h)'
      /\ \A s \in Spokes : SpokeInv(s)'
  BY ObjectsKeep
<1> QED
  BY <1>1, <1>2, HubWorkerKept, SpokeWorkerKept DEF MInv

\* The invariant relates AppWrappers, copies, annotations and BindingPolicies in
\* every state the deployment reaches, whatever fails and whoever is restarted.
THEOREM MultiClusterInvariant == Spec => []MInv
<1>1. MInv /\ [Next]_vars => MInv'
  BY MInvNext
<1> QED
  BY <1>1, MInvInit, PTL DEF Spec

\* Neither controller ever finds, in its cache, an AppWrapper with as many
\* transitions as its informer's and another status (cache.go:97): the counts that
\* two controllers keep for one AppWrapper, in two clusters, do not contradict.
THEOREM CountsAlwaysAgree == Spec => []CountsAgree
<1>1. MInv => CountsAgree
  <2> SUFFICES ASSUME MInv PROVE CountsAgree
    OBVIOUS
  <2>1. ASSUME NEW h \in Hubs PROVE ~CacheConflict(D, h)
    BY DEF MInv, HubInv, HubOrder, Agree, SameStatus, CacheConflict, DView
  <2>2. ASSUME NEW s \in Spokes PROVE ~CacheConflict(R, s)
    BY DEF MInv, SpokeInv, SpokeOrder, Agree, SameStatus, CacheConflict, RView
  <2> QED
    BY <2>1, <2>2 DEF CountsAgree
<1> QED
  BY <1>1, MultiClusterInvariant, PTL

-----------------------------------------------------------------------------
(* The resources in the spokes.  As in one cluster, they are bounded by the *)
(* AppWrappers only if deleting a resource does not fail: deleteResources   *)
(* ignores the error.                                                       *)

\* Only createResources adds resources to a spoke.
LEMMA ResourcesShrink ==
    ASSUME MInv, [Next]_vars, ~RCreateItem, NEW s \in Spokes, NEW i \in Items, Exists(s, i)'
    PROVE  Exists(s, i)
<1> USE SpokesType, ControllersType DEF Exists
<1>0. res \in [AppWrappers -> [Items -> ResourceStates]] /\ runner \in RunnerState
  BY DEF MInv, MultiClusterTypeOK, TypeOK, ResourceTypeOK, RunnerTypeOK
<1>1. CASE UNCHANGED res
  BY <1>1
<1>2. CASE RDeleteItem
  <2>1. \/ ~Exists(runner.aw, runner.next) /\ res' = res
        \/ Exists(runner.aw, runner.next)
           /\ res' \in {res, [res EXCEPT ![runner.aw][runner.next] = "terminating"]}
    BY <1>2 DEF RDeleteItem, DeleteItem, DeleteOutcomes
  <2> QED
    BY <1>0, <2>1
<1>3. ASSUME NEW force \in BOOLEAN, RDeleteAgain(force) PROVE Exists(s, i)
  <2>1. \/ res' = res
        \/ \E kept : res' = [res EXCEPT ![runner.aw] =
                          [j \in Items |-> IF Exists(runner.aw, j) /\ j \notin kept
                                           THEN "terminating" ELSE res[runner.aw][j]]]
    BY <1>3 DEF RDeleteAgain, ForceDelete, ForceDeleteItems, resourceVars
  <2>2. CASE res' = res
    BY <2>2
  <2>3. ASSUME NEW kept, res' = [res EXCEPT ![runner.aw] =
                            [j \in Items |-> IF Exists(runner.aw, j) /\ j \notin kept
                                             THEN "terminating" ELSE res[runner.aw][j]]]
        PROVE  Exists(s, i)
    BY <1>0, <2>3
  <2> QED
    BY <2>1, <2>2, <2>3
<1>4. ASSUME NEW a \in Spokes, SpokeCluster(a) PROVE Exists(s, i)
  <2>1. \/ UNCHANGED res
        \/ \E j \in Items : /\ res[a][j] # "none"
                            /\ res' \in {[res EXCEPT ![a][j] = "none"],
                                         [res EXCEPT ![a][j] = "complete"]}
    BY <1>4 DEF SpokeCluster, Cluster, ItemGone, ItemComplete, PodCreated, PodPhase,
       PodEvicted, PodGone, PodSync
  <2> QED
    BY <1>0, <2>1
<1>5. CASE SpokeStep
  <2>1. \/ UNCHANGED res
        \/ RDeleteItem
        \/ \E force \in BOOLEAN : RDeleteAgain(force)
    <3>1. ASSUME NEW a \in Spokes, NEW r \in Outcomes, RReconciles(a, r) PROVE UNCHANGED res
      BY <3>1 DEF RReconciles, RMissing, RStale, RForget, RCreate, RSucceed, RUnhealthy,
         RHealthy, RDelete, RNothing, resourceVars
    <3>2. ASSUME NEW a \in Spokes, NEW r \in Outcomes, RAccepting(a, r) PROVE UNCHANGED res
      BY <3>2 DEF RAccepting, RTakeOver, RGuard, resourceVars
    <3>3. ASSUME NEW r \in Outcomes, RFollowUp(r) PROVE UNCHANGED res
      BY <3>3 DEF RFollowUp, RAccepted, RCreated, RCreateFailed, RDeleted, resourceVars
    <3> QED
      BY <1>5, <3>1, <3>2, <3>3 DEF SpokeStep, RItem, RAgain
  <2> QED
    BY <1>1, <1>2, <1>3, <2>1
<1>6. CASE \/ UserStep \/ HubStep \/ (\E h \in Hubs : KubeStellar(h))
           \/ (\E c \in Controllers, a \in AppWrappers : Informer(c, a))
           \/ HubRestart \/ SpokeRestart \/ vars' = vars
  <2>1. UNCHANGED res
    BY <1>6 DEF UserStep, HubStep, OnlyHub, KubeStellar, Informer, HubRestart, SpokeRestart,
       PodRelist, vars, spokeVars, resourceVars
  <2> QED
    BY <1>1, <2>1
<1> QED
  BY <1>4, <1>5, <1>6 DEF Next

\* The delete loop of the Runner.
LEMMA LoopPassedKept ==
    ASSUME "delete" \notin Faults, MResInv, [Next]_vars
    PROVE  LoopPassed'
<1> USE SpokesType, ControllersType DEF MResInv
<1>0. /\ runner \in RunnerState /\ Idle.op = "idle" /\ MInv
      /\ runner.op # "idle" => runner.aw \in Spokes
  BY DEF MInv, MultiClusterTypeOK, TypeOK, RunnerTypeOK, Idle, SpokeWorker
<1>1. CASE runner' = runner /\ ~RCreateItem
  <2>1. \A j \in Items : runner.op = "delete" /\ Exists(runner.aw, j)' => Exists(runner.aw, j)
    <3> SUFFICES ASSUME NEW j \in Items, runner.op = "delete", Exists(runner.aw, j)'
                 PROVE  Exists(runner.aw, j)
      OBVIOUS
    <3>1. PICK a \in Spokes : a = runner.aw
      BY <1>0
    <3>2. Exists(a, j)'
      BY <1>1, <3>1 DEF Exists
    <3>3. Exists(a, j)
      BY <1>0, <1>1, <3>2, ResourcesShrink
    <3> QED
      BY <3>1, <3>3
  <2> QED
    BY <1>1, <2>1 DEF LoopPassed, Exists
<1>2. CASE RDeleteItem
  <2> DEFINE a == runner.aw
             i == runner.next
  <2>1. PICK r \in DeleteOutcomes(a, i) :
           /\ DeleteItem(a, i, r)
           /\ runner' = [runner EXCEPT !.next = i + 1,
                                       !.remaining = IF r = "ok" THEN @ + 1 ELSE @]
    BY <1>2 DEF RDeleteItem
  <2>2. /\ runner'.next = i + 1 /\ runner'.aw = a
        /\ runner'.remaining = IF r = "ok" THEN runner.remaining + 1 ELSE runner.remaining
        /\ runner.remaining \in Nat
    BY <1>0, <2>1 DEF RunnerState
  <2>5. i \in Nat /\ runner.op = "delete"
    <3>1. i \in 1 .. NItems + 1
      BY <1>0 DEF RunnerState
    <3> QED
      BY <1>2, <3>1, ResourceAssumption DEF RDeleteItem
  <2>3. CASE r = "ok"
    BY <2>2, <2>3, <2>5 DEF LoopPassed
  <2>4. CASE r # "ok"
    <3>1. ~Exists(a, i) /\ res' = res
      BY <2>1, <2>4 DEF DeleteOutcomes, DeleteItem
    <3>2. \A j \in Items : j < i + 1 => j < i \/ j = i
      BY <2>5, ResourceAssumption DEF Items
    <3> QED
      BY <2>2, <2>4, <2>5, <3>1, <3>2 DEF LoopPassed, Exists
  <2> QED
    BY <2>3, <2>4
<1>3. ASSUME NEW a \in Spokes, RDelete(a) PROVE LoopPassed'
  <2>1. runner'.next = 1
    BY <1>3 DEF RDelete, Idle
  <2> QED
    BY <2>1, ResourceAssumption DEF LoopPassed, Items
<1>4. CASE runner'.op # "delete"
  BY <1>4 DEF LoopPassed
<1>5. ASSUME RCreateItem PROVE runner'.op # "delete"
  BY <1>0, <1>5 DEF RCreateItem, Idle, RunnerState
<1>6. ASSUME SpokeStep
      PROVE  \/ runner' = runner
             \/ RDeleteItem
             \/ \E a \in Spokes : RDelete(a)
             \/ runner'.op # "delete"
  <2>1. ASSUME NEW a \in Spokes, NEW r \in Outcomes, RReconciles(a, r)
        PROVE  runner' = runner \/ RDelete(a) \/ runner'.op # "delete"
    BY <2>1 DEF RReconciles, RMissing, RStale, RForget, RCreate, RSucceed, RUnhealthy,
       RHealthy, RNothing, Idle
  <2>2. ASSUME NEW a \in Spokes, NEW r \in Outcomes, RAccepting(a, r)
        PROVE  runner' = runner
    BY <2>2 DEF RAccepting, RTakeOver, RGuard
  <2>3. ASSUME NEW r \in Outcomes, RFollowUp(r)
        PROVE  runner' = runner \/ runner'.op # "delete"
    BY <2>3 DEF RFollowUp, RAccepted, RCreated, RCreateFailed, RDeleted, Finished, Idle
  <2>4. ASSUME NEW force \in BOOLEAN, RAgain(force) PROVE runner'.op # "delete"
    BY <2>4 DEF RAgain, RDeleteAgain, Finished, Idle
  <2> QED
    BY <1>5, <1>6, <2>1, <2>2, <2>3, <2>4 DEF SpokeStep, RItem
<1>7. ASSUME \/ UserStep \/ HubStep \/ (\E h \in Hubs : KubeStellar(h))
             \/ (\E c \in Controllers, a \in AppWrappers : Informer(c, a))
             \/ (\E s \in Spokes : SpokeCluster(s))
             \/ HubRestart \/ SpokeRestart \/ vars' = vars
      PROVE  runner' = runner \/ runner'.op # "delete"
  BY <1>7 DEF UserStep, HubStep, OnlyHub, KubeStellar, Informer, SpokeCluster, HubRestart,
     SpokeRestart, vars, spokeVars, Idle
<1> QED
  BY <1>1, <1>2, <1>3, <1>4, <1>5, <1>6, <1>7 DEF Next

\* A loop that has ended and found nothing leaves no resources.
LEMMA DrainedEmpty ==
    ASSUME MResInv, NEW s \in Spokes, Drained(s), NEW i \in Items
    PROVE  ~Exists(s, i)
<1>1. runner.op = "delete" /\ runner.aw = s /\ runner.remaining = 0 /\ runner.next > NItems
  BY DEF Drained
<1>2. runner.next \in 1 .. NItems + 1
  BY DEF MResInv, MInv, MultiClusterTypeOK, TypeOK, RunnerTypeOK, RunnerState
<1>3. i < runner.next
  BY <1>1, <1>2, ResourceAssumption DEF Items
<1> QED
  BY <1>1, <1>3 DEF MResInv, LoopPassed

\* The Runner keeps a copy with resources.
LEMMA SpokeStepResources ==
    ASSUME MResInv, SpokeStep, NEW s \in Spokes, NEW i \in Items, Exists(s, i)
    PROVE  /\ store'[s].ex = "live"
           /\ Committed(store'[s])
           /\ store'[s].step # "Deleted"
<1>0. /\ MInv /\ MultiClusterTypeOK /\ SpokeInv(s) /\ CopyOK(s)
      /\ store[s].ex = "live" /\ Committed(store[s]) /\ store[s].step # "Deleted"
  BY DEF MResInv, MInv, ResourcesOK, SpokeInv
<1>1. ~Drained(s)
  BY DrainedEmpty
<1>2. CASE SpokeEdits(s)
  <2>1. store'[s].ex = "live"
    BY <1>0, <1>1, <1>2, SpokeEdited
  <2> QED
    BY <1>0, <1>2, <2>1 DEF SpokeEdits, SameRun, SameStatus, Committed
<1>3. CASE SpokeTransits(s)
  <2>1. SpokeTransition(store[s], store'[s]) /\ store'[s].step # "Deleted"
        /\ store'[s].ex = "live"
    BY <1>0, <1>1, <1>3 DEF SpokeTransits, TakeOver, Committed, Is, InForce
  <2> QED
    BY <2>1 DEF SpokeTransition, Committed, Is
<1> QED
  BY <1>0, <1>2, <1>3, SpokeStepKinds

\* The Runner creates resources for a copy it guards.
LEMMA CreatedResources ==
    ASSUME MResInv, RCreateItem, NEW s \in Spokes, NEW i \in Items, Exists(s, i)'
    PROVE  Exists(s, i) \/ /\ store[s].ex = "live"
                           /\ Committed(store[s])
                           /\ store[s].step # "Deleted"
<1> USE SpokesType, ControllersType
<1>1. CASE runner.aw # s
  <2>1. res \in [AppWrappers -> [Items -> ResourceStates]]
    BY DEF MResInv, MInv, MultiClusterTypeOK, TypeOK, ResourceTypeOK
  <2>2. res' = res \/ res' = [res EXCEPT ![runner.aw][runner.next] = "live"]
    BY DEF RCreateItem, CreateItem
  <2> QED
    BY <1>1, <2>1, <2>2 DEF Exists
<1>2. CASE runner.aw = s
  <2>1. /\ RView(s).ex = "live" /\ ~RView(s).del /\ Is(RView(s), "Running", "Creating")
        /\ SpokeInv(s)
    BY <1>2 DEF RCreateItem, MResInv, MInv, SpokeWorker
  <2>2. "runner" \in RView(s).fin
    BY <2>1 DEF SpokeInv, CopyOK, CopyValid, Committed, Is
  <2>3. store[s].ex = "live"
    BY <2>1, <2>2 DEF SpokeInv, GuardKept, InForce
  <2>4. store[s].step \in {"Creating", "Created", "Deleting"}
    BY <2>1 DEF SpokeInv, CreatingSeen
  <2>5. store[s].state # "Empty"
    BY <2>1, <2>4 DEF SpokeInv, CopyOK, CopyValid, CopyStatuses
  <2> QED
    BY <2>3, <2>4, <2>5 DEF Committed
<1> QED
  BY <1>1, <1>2

\* KubeStellar deletes a copy, and does not copy over one.
LEMMA KubeStellarResources ==
    ASSUME MResInv, NEW h \in Hubs, KubeStellar(h),
           NEW s \in Spokes, NEW i \in Items, Exists(s, i)
    PROVE  /\ store'[s].ex = "live"
           /\ Committed(store'[s])
           /\ store'[s].step # "Deleted"
<1> USE SpokesType, ControllersType
<1>0. /\ MInv /\ MultiClusterTypeOK /\ SpokeInv(s) /\ store[s] \in Object
      /\ store \in [AppWrappers -> Object]
      /\ store[s].ex = "live" /\ Committed(store[s]) /\ store[s].step # "Deleted"
  BY SpokeTypes DEF MResInv, MInv, ResourcesOK, MultiClusterTypeOK, TypeOK, ReconcilerTypeOK
<1>1. CASE store'[s] = store[s]
  BY <1>0, <1>1
<1>2. CASE store' # store /\ s = Copy[h] /\ Delete(s)
  <2> DEFINE p == [store[s] EXCEPT !.del = TRUE]
  <2>1. store'[s] = Stored(p)
    BY <1>0, <1>2 DEF Delete
  <2>2. "runner" \in store[s].fin
    BY <1>0 DEF SpokeInv, CopyOK, CopyValid
  <2>3. p.fin # {} /\ p.ex = "live" /\ p.state = store[s].state /\ p.step = store[s].step
    BY <1>0, <2>2 DEF Object
  <2>4. Stored(p) = p
    BY <2>3, StoredAsSent
  <2> QED
    BY <1>0, <2>1, <2>3, <2>4 DEF Committed
<1>3. store'[s] = store[s] \/ (store' # store /\ s = Copy[h] /\ Delete(s))
  <2>1. CASE Downsync(h)
    BY <1>0, <2>1 DEF Downsync
  <2>2. CASE Report(h)
    BY <1>0, <2>2 DEF Report
  <2>3. CASE Withdraw(h)
    BY <1>0, <2>3 DEF Withdraw, Delete
  <2>4. CASE PolicyGone(h) \/ PolicySync(h)
    BY <2>4 DEF PolicyGone, PolicySync, reconcilerVars
  <2> QED
    BY <2>1, <2>2, <2>3, <2>4 DEF KubeStellar
<1> QED
  BY <1>1, <1>2, <1>3

\* Every step preserves what is said of the resources.
LEMMA MResInvNext ==
    ASSUME "delete" \notin Faults, MResInv, [Next]_vars
    PROVE  MResInv'
<1> USE SpokesType, ControllersType
<1>0. MInv /\ \A s \in Spokes : ResourcesOK(s)
  BY DEF MResInv
<1>1. MInv' /\ LoopPassed'
  BY <1>0, MInvNext, LoopPassedKept
<1>2. ASSUME NEW s \in Spokes, NEW i \in Items, Exists(s, i)'
      PROVE  /\ store'[s].ex = "live"
             /\ Committed(store'[s])
             /\ store'[s].step # "Deleted"
  <2>1. CASE RCreateItem
    <3>1. store' = store
      BY <2>1 DEF RCreateItem, reconcilerVars
    <3> QED
      BY <1>0, <1>2, <2>1, <3>1, CreatedResources DEF ResourcesOK
  <2>2. CASE ~RCreateItem
    <3>1. Exists(s, i)
      BY <1>0, <1>2, <2>2, ResourcesShrink
    <3>2. CASE SpokeStep
      BY <3>1, <3>2, SpokeStepResources
    <3>3. CASE \E h \in Hubs : KubeStellar(h)
      BY <3>1, <3>3, KubeStellarResources
    <3>4. CASE store'[s] = store[s]
      BY <1>0, <3>1, <3>4 DEF ResourcesOK
    <3>5. CASE HubStep
      BY <1>0, <3>4, <3>5, HubStepKinds DEF SpokeSame
    <3>6. CASE UserStep
      <4>1. PICK g \in Hubs : Create(g) \/ Delete(g)
        BY <3>6, MultiClusterAssumption DEF UserStep
      <4>2. store'[s] = store[s]
        BY <1>0, <4>1 DEF Create, Delete, MInv, MultiClusterTypeOK, TypeOK, ReconcilerTypeOK
      <4> QED
        BY <3>4, <4>2
    <3>7. CASE \/ \E c \in Controllers, a \in AppWrappers : Informer(c, a)
               \/ HubRestart \/ SpokeRestart
      BY <3>4, <3>7 DEF Informer, Sync, HubRestart, SpokeRestart, RestartIn
    <3>8. CASE (\E a \in Spokes : SpokeCluster(a)) \/ vars' = vars
      BY <3>4, <3>8 DEF SpokeCluster, Cluster, ItemGone, ItemComplete, PodCreated, PodPhase,
         PodEvicted, PodGone, PodSync, vars, reconcilerVars
    <3> QED
      BY <3>2, <3>3, <3>5, <3>6, <3>7, <3>8 DEF Next
  <2> QED
    BY <2>1, <2>2
<1>3. ASSUME NEW s \in Spokes PROVE ResourcesOK(s)'
  BY <1>2 DEF ResourcesOK
<1> QED
  BY <1>1, <1>3 DEF MResInv

\* There are no resources at first.
LEMMA MResInvInit == Init => MResInv
<1> SUFFICES ASSUME Init PROVE MResInv
  OBVIOUS
<1>1. MInv
  BY MInvInit
<1>2. LoopPassed
  BY DEF Init, RunnerInit, Idle, LoopPassed
<1>3. ASSUME NEW s \in Spokes PROVE ResourcesOK(s)
  BY SpokesType DEF Init, ResourceInit, ResourcesOK, Exists
<1> QED
  BY <1>1, <1>2, <1>3 DEF MResInv

LEMMA MResInvAlways ==
    ASSUME "delete" \notin Faults
    PROVE  Spec => []MResInv
<1>1. MResInv /\ [Next]_vars => MResInv'
  BY MResInvNext
<1> QED
  BY <1>1, MResInvInit, PTL DEF Spec

\* A copy with resources is in its cluster and has the runner finalizer, so that it
\* stays until the Runner has deleted them, whenever the hub deletes it and whatever
\* is restarted or fails in between (runner.go:63 and 128).
THEOREM SpokesGuarded ==
    ASSUME "delete" \notin Faults
    PROVE  Spec => []SpokeGuarded
<1>1. MResInv => SpokeGuarded
  BY DEF MResInv, MInv, ResourcesOK, SpokeInv, CopyOK, CopyValid, SpokeGuarded
<1> QED
  BY <1>1, MResInvAlways, PTL

\* A status in this run that is idle is the last one of a copy that succeeded.
LEMMA InRunIdle ==
    ASSUME NEW x, NEW n \in Nat, NEW o, x.tc \in Nat, o.tc \in Nat,
           InRun(x, n, o), x.step = "Idle", CopyValid(o), o.state # "Empty"
    PROVE  n + 1 < x.tc /\ x.tc = o.tc /\ o.state = "Succeeded"
<1> USE DEF Is
<1>1. n + 1 < x.tc /\ Reported(x, o)
  BY DEF InRun, JustDispatched
<1>2. x.tc = o.tc
  BY <1>1 DEF Reported, Follows
<1>3. o.step = "Idle"
  BY <1>1, <1>2 DEF Reported, Follows, SameStatus
<1> QED
  BY <1>1, <1>2, <1>3 DEF CopyValid, CopyStatuses

\* What the Dispatcher has is not ahead of the AppWrapper while the run goes on.
LEMMA InRunNotBehind ==
    ASSUME NEW x, NEW n \in Nat, NEW o, x.tc \in Nat, o.tc \in Nat,
           InRun(x, n, o), o.step # "Deleted"
    PROVE  /\ x.step # "Deleted"
           /\ n + 1 < x.tc => x.tc <= o.tc
           /\ n + 1 < x.tc /\ x.tc = o.tc => x.state = o.state
           /\ x.state # "Empty" \/ o.state = "Empty"
BY DEF InRun, JustDispatched, Reported, Follows, SameStatus, Is

\* While an AppWrapper has resources in its spoke the hub counts this run, and books
\* its request unless it has succeeded: neither a late report nor a restart makes
\* the Dispatcher queue it again before (dispatcher.go:88, runner.go:122).
THEOREM SpokesBooked ==
    ASSUME "delete" \notin Faults
    PROVE  Spec => []SpokeBooked
<1>1. MResInv => SpokeBooked
  <2> SUFFICES ASSUME MResInv, NEW h \in Hubs, NEW i \in Items,
                      Exists(Copy[h], i), store[h].ex = "live"
               PROVE  /\ store[h].restarts = store[Copy[h]].restarts
                      /\ h \in InFlight \/ store[h].state = "Succeeded"
    BY DEF SpokeBooked
  <2> DEFINE H == store[h]
             V == view[D][h]
             E == cache[D][h]
             o == store[Copy[h]]
             n == ann[Copy[h]].tc
  <2>0. /\ Copy[h] \in Spokes /\ h \in AppWrappers /\ DView(h) = V
        /\ HubInv(h) /\ CopyValid(o) /\ MultiClusterTypeOK
    BY SpokesType DEF MResInv, MInv, SpokeInv, CopyOK, DView
  <2>1. o.ex = "live" /\ o.state # "Empty" /\ o.step # "Deleted"
    BY <2>0 DEF MResInv, ResourcesOK, Committed
  <2>2. /\ H.tc \in Nat /\ V.tc \in Nat /\ E.tc \in Nat /\ o.tc \in Nat /\ n \in Nat
        /\ V \in Object
    BY <2>0, HubTypes
  <2>3. /\ InRun(H, n, o) /\ InRun(V, n, o)
        /\ H.restarts = o.restarts
        /\ E.has => E.tc < n \/ InRun(E, n, o)
    BY <2>0, <2>1 DEF HubInv, CopyRel, Copied, PastRun
  <2>4. h \in Listed
    <3>1. V.state # "Empty"
      BY <2>1, <2>2, <2>3, InRunNotBehind
    <3>2. V.ex # "gone" /\ V.ex # "new"
      BY <2>0, <3>1 DEF HubInv, HubOrder
    <3> QED
      BY <2>0, <2>2, <3>2 DEF Listed, Object
  <2>5. ASSUME CachedStep(D, h) = "Idle" PROVE H.state = "Succeeded"
    <3>0. /\ V.tc > H.tc => H.step = "Deleted"
          /\ E.has /\ E.tc > H.tc => H.step = "Deleted"
          /\ H.step # "Deleted"
      BY <2>0, <2>1, <2>2, <2>3, InRunNotBehind DEF HubInv, HubOrder
    <3>1. CASE Behind(D, h)
      <4>1. E.has /\ E.tc > V.tc /\ E.step = "Idle"
        BY <2>5, <3>1 DEF Behind, CachedStep
      <4>2. V.tc >= n
        BY <2>2, <2>3 DEF InRun, JustDispatched
      <4>3. InRun(E, n, o)
        BY <2>2, <2>3, <4>1, <4>2
      <4>4. n + 1 < E.tc /\ E.tc = o.tc /\ o.state = "Succeeded"
        BY <2>0, <2>1, <2>2, <4>1, <4>3, InRunIdle
      <4>5. ~(E.tc > H.tc)
        BY <3>0, <4>1
      <4>6. n + 1 < H.tc /\ o.tc <= H.tc
        BY <2>2, <4>4, <4>5
      <4>7. H.tc <= o.tc /\ (H.tc = o.tc => H.state = o.state)
        BY <2>1, <2>2, <2>3, <4>6, InRunNotBehind
      <4> QED
        BY <2>2, <4>4, <4>6, <4>7
    <3>2. CASE ~Behind(D, h)
      <4>1. V.step = "Idle"
        BY <2>5, <3>2 DEF CachedStep
      <4>4. n + 1 < V.tc /\ V.tc = o.tc /\ o.state = "Succeeded"
        BY <2>0, <2>1, <2>2, <2>3, <4>1, InRunIdle
      <4>5. ~(V.tc > H.tc)
        BY <3>0
      <4>6. n + 1 < H.tc /\ o.tc <= H.tc
        BY <2>2, <4>4, <4>5
      <4>7. H.tc <= o.tc /\ (H.tc = o.tc => H.state = o.state)
        BY <2>1, <2>2, <2>3, <4>6, InRunNotBehind
      <4> QED
        BY <2>2, <4>4, <4>6, <4>7
    <3> QED
      BY <3>1, <3>2
  <2> QED
    BY <2>3, <2>4, <2>5 DEF InFlight
<1> QED
  BY <1>1, MResInvAlways, PTL
=============================================================================
