----------------------------- MODULE McadProofs -----------------------------
(***************************************************************************)
(* What TLAPS proves of Mcad, for any AppWrappers, wrapped resources,      *)
(* capacities, priorities and faults: types; the copies of an AppWrapper   *)
(* and the hand-off between the controllers; statuses; resources; and two  *)
(* results about the system as a whole: the AppWrappers of the highest     *)
(* priority never hold more than the capacity, and MCAD, two controllers   *)
(* that each act on an informer copy of its own, implements the lifecycle  *)
(* of docs/state-diagram.md, which knows of neither.                       *)
(*                                                                         *)
(* Argument for the capacity.  selectForDispatch reserves room for what it *)
(* decides on, and its decisions are carried out one by one, later.  In    *)
(* between, what counts against an AppWrapper only shrinks: nobody else    *)
(* dispatches, and what is dispatched before it was reserved (Planned).    *)
(* Every AppWrapper that holds resources is booked at the decision         *)
(* (InFlightAccounted).  For the refinement, every change of an object is  *)
(* a transition of the diagram (Evolves), and resources appear and         *)
(* disappear when the status, as stored, says so (RInv, RunnerIsCurrent,   *)
(* TerminatingSeen).                                                       *)
(***************************************************************************)
EXTENDS Mcad, ControllerProofs, WeightsProofs

\* A step of the Dispatcher, whatever the quotas are.
DStep == \E quota : DispatcherStep(Capacity, quota)

\* selectForDispatch, whatever the quotas are.
Selects == \E paused \in SUBSET Requeued : \E quota : DSelect(paused, Capacity, quota)

\* The steps of Mcad, and those that it would take with quotas.
AnyNext ==
    \/ UserStep
    \/ \E c \in Controllers, a \in AppWrappers : Informer(c, a)
    \/ DStep /\ UNCHANGED runner
    \/ RunnerStep /\ UNCHANGED dispatcherVars
    \/ \E a \in AppWrappers : Cluster(a) /\ UNCHANGED <<dispatcherVars, runner>>
    \/ \E c \in Restartable : Restart(c)

\* The model without quotas is an instance.
LEMMA NextIsAny == [Next]_vars => [AnyNext]_vars
BY DEF Next, AnyNext, DStep


-----------------------------------------------------------------------------
(* Type correctness.                                                       *)

\* The initial states are well typed.
LEMMA InitType == Init => TypeOK
BY ControllersInitType DEF Init

\* Every step of the system preserves the types.
LEMMA NextType == TypeOK /\ [AnyNext]_vars => TypeOK'
<1> SUFFICES ASSUME TypeOK, [AnyNext]_vars PROVE TypeOK'
  OBVIOUS
<1>1. CASE UserStep
  <2>1. ASSUME NEW a \in AppWrappers, Create(a) PROVE ReconcilerTypeOK'
    BY <2>1, ZenonT(40)
       DEF Create, TypeOK, ReconcilerTypeOK, Object
  <2>2. ASSUME NEW a \in AppWrappers, Delete(a) PROVE ReconcilerTypeOK'
    <3>1. [store[a] EXCEPT !.del = TRUE] \in Object
      BY ZenonT(40)
         DEF TypeOK, ReconcilerTypeOK, Object
    <3> QED
      BY <2>2, <3>1, StoredType DEF Delete, TypeOK, ReconcilerTypeOK
  <2> QED
    BY <1>1, <2>1, <2>2, DeploymentAssumption
       DEF UserStep, TypeOK, ResourceTypeOK, DispatcherTypeOK, RunnerTypeOK,
           resourceVars, dispatcherVars
<1>2. ASSUME NEW c \in Controllers, NEW a \in AppWrappers, Informer(c, a)
      PROVE TypeOK'
  BY <1>2 DEF Informer, Sync, TypeOK, ReconcilerTypeOK, ResourceTypeOK,
              DispatcherTypeOK, RunnerTypeOK, resourceVars, dispatcherVars
<1>3. CASE DStep /\ UNCHANGED runner
  <2>1. UNCHANGED resourceVars
    BY <1>3 DEF DStep, DispatcherStep
  <2> QED
    BY <1>3, <2>1, DispatcherStepType
       DEF DStep, TypeOK, ResourceTypeOK, RunnerTypeOK, resourceVars
<1>4. CASE RunnerStep /\ UNCHANGED dispatcherVars
  BY <1>4, RunnerStepType DEF TypeOK, DispatcherTypeOK, dispatcherVars
<1>5. ASSUME NEW a \in AppWrappers, Cluster(a),
             UNCHANGED <<dispatcherVars, runner>>
      PROVE TypeOK'
  BY <1>5, ClusterStepType
     DEF TypeOK, DispatcherTypeOK, RunnerTypeOK, dispatcherVars
<1>6. ASSUME NEW c \in Restartable, Restart(c) PROVE TypeOK'
  <2>1. CASE DispatcherRestart /\ UNCHANGED runner
    <3>1. ReconcilerTypeOK' /\ ResourceTypeOK'
      BY <2>1, ControllersType, RestartType, PodRelistType DEF DispatcherRestart, TypeOK
    <3> QED
      BY <2>1, <3>1
         DEF DispatcherRestart, TypeOK, DispatcherTypeOK, QueuingDecision, RunnerTypeOK
  <2>2. CASE RunnerRestart /\ UNCHANGED dispatcherVars
    <3>1. ReconcilerTypeOK' /\ ResourceTypeOK'
      BY <2>2, ControllersType, RestartType, PodRelistType DEF RunnerRestart, TypeOK
    <3>2. RunnerTypeOK'
      <4>1. 1 \in 1 .. NItems + 1
        BY ResourceAssumption
      <4> QED
        BY <2>2, <4>1 DEF RunnerRestart, RunnerTypeOK, RunnerState, Idle
    <3> QED
      BY <2>2, <3>1, <3>2 DEF RunnerRestart, TypeOK, DispatcherTypeOK, dispatcherVars
  <2> QED
    BY <1>6, <2>1, <2>2 DEF Restart
<1>7. CASE UNCHANGED vars
  BY <1>7 DEF vars, TypeOK, ReconcilerTypeOK, ResourceTypeOK, DispatcherTypeOK,
              RunnerTypeOK, reconcilerVars, resourceVars, dispatcherVars
<1> QED
  BY <1>1, <1>2, <1>3, <1>4, <1>5, <1>6, <1>7 DEF AnyNext

\* Every variable keeps its type, whatever the controllers, the users, the
\* cluster and the faults do.
THEOREM TypeCorrect == Spec => []TypeOK
BY InitType, NextType, NextIsAny, PTL DEF Spec

-----------------------------------------------------------------------------
(***************************************************************************)
(* The cache of own writes (cache.go) does its job: the copies of an       *)
(* AppWrapper that a controller holds never contradict each other, and, if *)
(* replies are not lost and informers keep up, the controller whose turn   *)
(* it is knows the latest status.  So the Dispatcher books every           *)
(* AppWrapper that is in flight.                                           *)
(*                                                                         *)
(* Argument.  Whatever a controller does with an AppWrapper falls under    *)
(* Writes: it leaves the status alone, or it makes one transition out of   *)
(* the status it read, from a step that is its own.  The invariants are    *)
(* then shown to be preserved by Writes, by the informer and by restarts.  *)
(***************************************************************************)

(* The inductive invariant.                                                *)

\* Informer copies and cache entries are versions of the object, and agree.
CopiesFollow ==
    \A c \in Controllers, a \in AppWrappers :
        /\ Follows(view[c][a], store[a])
        /\ cache[c][a].has =>
              /\ Follows(cache[c][a], store[a])
              /\ cache[c][a].tc = view[c][a].tc
                    => SameStatus(cache[c][a], view[c][a])

QueuedIsIdle(o) == o.state = "Queued" => o.step = "Idle"

StatusesValid ==
    \A a \in AppWrappers :
        /\ QueuedIsIdle(store[a])
        /\ \A c \in Controllers : QueuedIsIdle(view[c][a])

\* What a worker in the middle of a request found at its start still holds.
DispatcherBusy ==
    /\ todo = {} \/ adding = NoAppWrapper
    /\ \A a \in todo : DView(a).ex = "live"
    /\ SelectedAreQueued
    /\ adding # NoAppWrapper =>
          /\ DView(adding).ex = "live"
          /\ DView(adding).step = "Idle"
          /\ ~IsStale(D, adding)

RunnerBusy ==
    runner.op # "idle" =>
        /\ RView(runner.aw).ex = "live"
        /\ ~IsStale(R, runner.aw)
        /\ runner.op \in {"create", "fail"}
              => RView(runner.aw).step = "Creating"
        /\ runner.op = "delete" /\ ~RView(runner.aw).del =>
              /\ RView(runner.aw).state # "Queued"
              /\ RView(runner.aw).step = "Deleting"

\* The Dispatcher has seen every AppWrapper that left Idle, and an AppWrapper
\* that is gone does not come back.
DispatcherSees ==
    \A a \in AppWrappers :
        /\ store[a].ex = "new" => store[a].step = "Idle"
        /\ DView(a).ex = "new" => store[a].step = "Idle"
        /\ DView(a).ex = "gone" => store[a].ex = "gone"

IInv ==
    /\ TypeOK
    /\ CopiesFollow
    /\ StatusesValid
    /\ DispatcherBusy
    /\ RunnerBusy
    /\ DispatcherSees

\* No reply is lost and no informer lags beyond cacheConflictTimeout.
Reliable == "lost" \notin Faults /\ "timeout" \notin Faults

-----------------------------------------------------------------------------
(* What a controller may do with the object and its copies.                *)

OwnSteps(c) == IF c = D THEN DispatcherSteps ELSE RunnerSteps

\* The cache entry isStale leaves.
Refreshed(c, a) ==
    \/ /\ ~IsStale(c, a)
       /\ cache'[c][a].has => SameStatus(cache'[c][a], view[c][a])
    \/ /\ IsStale(c, a)
       /\ cache[c][a].has
       /\ cache'[c][a].has => SameStatus(cache'[c][a], cache[c][a])
       /\ "timeout" \notin Faults /\ ~CacheConflict(c, a) => cache'[c][a].has

Transits(c, a) ==
    /\ view[c][a].ex = "live"
    /\ store[a].ex = "live"
    /\ SameStatus(view[c][a], store[a])
    /\ view[c][a].step \in OwnSteps(c)
    /\ ~IsStale(c, a)
    /\ store'[a].tc = store[a].tc + 1
    /\ QueuedIsIdle(store'[a])
    /\ \/ cache'[c][a].has /\ SameStatus(cache'[c][a], store'[a])
       \/ "lost" \in Faults /\ Refreshed(c, a)

Writes(c, a) ==
    /\ UNCHANGED view
    /\ \A b \in AppWrappers \ {a} : store'[b] = store[b]
    /\ \A d \in Controllers, b \in AppWrappers :
          d # c \/ b # a => cache'[d][b] = cache[d][b]
    /\ \/ store'[a].ex = store[a].ex
       \/ store[a].ex = "live" /\ store'[a].ex = "gone"
    /\ \/ SameStatus(store'[a], store[a]) /\ Refreshed(c, a)
       \/ Transits(c, a)

Calm == UNCHANGED <<store, view, cache>>

\* isStale answering false (cache.go) refreshes one entry and no other.
LEMMA FreshMove ==
    ASSUME TypeOK, NEW c \in Controllers, NEW a \in AppWrappers, ~IsStale(c, a),
           NEW e \in {NoEntry, FreshEntry(c, a)},
           cache' = [cache EXCEPT ![c][a] = e]
    PROVE  /\ Refreshed(c, a)
           /\ \A d \in Controllers, b \in AppWrappers :
                 d # c \/ b # a => cache'[d][b] = cache[d][b]
<1>1. cache'[c][a] = e
  BY DEF TypeOK, ReconcilerTypeOK
<1>2. e.has => SameStatus(e, view[c][a])
  BY DEF NoEntry, FreshEntry, Entry, SameStatus
<1>3. \A d \in Controllers, b \in AppWrappers :
         d # c \/ b # a => cache'[d][b] = cache[d][b]
  BY DEF TypeOK, ReconcilerTypeOK
<1> QED
  BY <1>1, <1>2, <1>3 DEF Refreshed

\* isStale answering true (cache.go) drops or keeps one entry and no other.
LEMMA StaleMove ==
    ASSUME TypeOK, NEW c \in Controllers, NEW a \in AppWrappers, IsStale(c, a),
           NEW timedOut \in {FALSE} \cup {"timeout" \in Faults},
           cache' = [cache EXCEPT ![c][a] = StaleEntry(c, a, timedOut)]
    PROVE  /\ Refreshed(c, a)
           /\ \A d \in Controllers, b \in AppWrappers :
                 d # c \/ b # a => cache'[d][b] = cache[d][b]
<1>1. cache'[c][a] = StaleEntry(c, a, timedOut)
  BY DEF TypeOK, ReconcilerTypeOK
<1>2. cache[c][a].has
  BY DEF IsStale, Behind, CacheConflict
<1>3. cache[c][a] \in CacheEntry
  BY DEF TypeOK, ReconcilerTypeOK
<1>4. cache'[c][a].has => SameStatus(cache'[c][a], cache[c][a])
  BY <1>1, <1>3 DEF StaleEntry, NoEntry, SameStatus, CacheEntry
<1>5. "timeout" \notin Faults /\ ~CacheConflict(c, a) => cache'[c][a].has
  <2> SUFFICES ASSUME "timeout" \notin Faults, ~CacheConflict(c, a)
               PROVE  cache'[c][a].has
    OBVIOUS
  <2>1. ~timedOut
    OBVIOUS
  <2>2. StaleEntry(c, a, timedOut) = [cache[c][a] EXCEPT !.conflict = TRUE]
    BY <2>1 DEF StaleEntry
  <2> QED
    BY <1>1, <1>2, <1>3, <2>2 DEF CacheEntry
<1>6. \A d \in Controllers, b \in AppWrappers :
         d # c \/ b # a => cache'[d][b] = cache[d][b]
  BY DEF TypeOK, ReconcilerTypeOK
<1> QED
  BY <1>2, <1>4, <1>5, <1>6 DEF Refreshed

\* An update that leaves the status alone.
LEMMA UpdateMove ==
    ASSUME TypeOK, NEW a \in AppWrappers, NEW read \in Object,
           NEW new \in Object, NEW r, Update(a, read, new, r),
           SameStatus(new, read), read.ex = "live", new.ex = "live"
    PROVE  /\ \A b \in AppWrappers \ {a} : store'[b] = store[b]
           /\ \/ store'[a].ex = store[a].ex
              \/ store[a].ex = "live" /\ store'[a].ex = "gone"
           /\ SameStatus(store'[a], store[a])
<1>1. SameStatus(Stored(new), new) /\ Stored(new).ex \in {"live", "gone"}
  BY DEF Stored, SameStatus, Object
<1>2. CASE Accepted(a, read, r)
  BY <1>1, <1>2 DEF Update, Accepted, SameStatus, TypeOK, ReconcilerTypeOK
<1>3. CASE ~Accepted(a, read, r)
  BY <1>3 DEF Update, SameStatus
<1> QED
  BY <1>2, <1>3

\* updateStatus, called in a step that is the controller's own and on a copy that
\* is not stale, makes one transition out of the status read, or none.
LEMMA UpdateStatusMove ==
    ASSUME TypeOK, NEW c \in Controllers, NEW a \in AppWrappers,
           NEW read \in Object, NEW o \in Object, NEW state \in States,
           NEW step \in Steps, NEW r \in Outcomes,
           UpdateStatus(c, a, read, o, state, step, r), UNCHANGED view,
           SameStatus(read, view[c][a]), SameStatus(o, read),
           read.ex = "live", o.ex = "live", view[c][a].ex = "live",
           view[c][a].step \in OwnSteps(c), ~IsStale(c, a),
           state = "Queued" => step = "Idle"
    PROVE  Writes(c, a)
<1> DEFINE new == Transition(o, state, step)
<1>1. new \in Object
  BY TransitionType
<1>2. new.tc = read.tc + 1 /\ new.state = state /\ new.step = step
  BY DEF Transition, SameStatus, Object
<1>3. SameStatus(Stored(new), new) /\ Stored(new).ex \in {"live", "gone"}
  BY <1>1 DEF Stored, SameStatus, Transition, Object
<1>4. PICK e \in {Entry(new), FreshEntry(c, a)} :
         /\ cache' = [cache EXCEPT ![c][a] = e]
         /\ ~Succeeds(a, read, r) => e = FreshEntry(c, a)
         /\ Succeeds(a, read, r) => e = Entry(new)
  BY DEF UpdateStatus
<1>5. /\ cache'[c][a] = e
      /\ \A d \in Controllers, b \in AppWrappers :
            d # c \/ b # a => cache'[d][b] = cache[d][b]
  BY <1>4 DEF TypeOK, ReconcilerTypeOK
<1>6. e = FreshEntry(c, a) => Refreshed(c, a)
  BY <1>4, FreshMove
<1>7. CASE Accepted(a, read, r)
  <2>1. store'[a] = Stored(new) /\ \A b \in AppWrappers \ {a} : store'[b] = store[b]
    BY <1>7 DEF UpdateStatus, Update, TypeOK, ReconcilerTypeOK
  <2>2. read = store[a]
    BY <1>7 DEF Accepted
  <2>3. store'[a].tc = store[a].tc + 1 /\ QueuedIsIdle(store'[a])
    BY <1>2, <1>3, <2>1, <2>2 DEF SameStatus, QueuedIsIdle
  <2>4. CASE Succeeds(a, read, r)
    <3>1. cache'[c][a].has /\ SameStatus(cache'[c][a], store'[a])
      BY <1>3, <1>4, <1>5, <2>1, <2>4 DEF Entry, SameStatus
    <3>2. SameStatus(view[c][a], store[a])
      BY <2>2 DEF SameStatus
    <3> QED
      BY <1>3, <1>5, <2>1, <2>2, <2>3, <3>1, <3>2 DEF Writes, Transits
  <2>5. CASE ~Succeeds(a, read, r)
    <3>1. "lost" \in Faults
      BY <1>7, <2>5 DEF Accepted, Succeeds, Outcomes
    <3>2. SameStatus(view[c][a], store[a])
      BY <2>2 DEF SameStatus
    <3> QED
      BY <1>3, <1>4, <1>5, <1>6, <2>1, <2>2, <2>3, <2>5, <3>1, <3>2
         DEF Writes, Transits
  <2> QED
    BY <2>4, <2>5
<1>8. CASE ~Accepted(a, read, r)
  <2>1. store' = store
    BY <1>8 DEF UpdateStatus, Update
  <2>2. ~Succeeds(a, read, r)
    BY <1>8 DEF Succeeds, Accepted
  <2> QED
    BY <1>4, <1>5, <1>6, <2>1, <2>2 DEF Writes, SameStatus
<1> QED
  BY <1>7, <1>8

-----------------------------------------------------------------------------
(* Every step of a controller is one of these.                             *)

\* A request that leaves the status alone, or that finds the informer stale.
LEMMA QuietMove ==
    ASSUME TypeOK, NEW c \in Controllers, NEW a \in AppWrappers, UNCHANGED view,
           NEW e \in {NoEntry, FreshEntry(c, a)},
           cache' = [cache EXCEPT ![c][a] = e], ~IsStale(c, a),
           \/ UNCHANGED store
           \/ \E read \in Object, new \in Object, r \in Outcomes :
                 /\ Update(a, read, new, r)
                 /\ SameStatus(new, read)
                 /\ read.ex = "live" /\ new.ex = "live"
    PROVE  Writes(c, a)
<1>1. /\ \A b \in AppWrappers \ {a} : store'[b] = store[b]
      /\ \/ store'[a].ex = store[a].ex
         \/ store[a].ex = "live" /\ store'[a].ex = "gone"
      /\ SameStatus(store'[a], store[a])
  BY UpdateMove DEF SameStatus
<1> QED
  BY <1>1, FreshMove DEF Writes

\* A request that isStale aborts leaves the AppWrapper alone.
LEMMA AbortStaleMove ==
    ASSUME TypeOK, NEW c \in Controllers, NEW a \in AppWrappers, AbortStale(c, a)
    PROVE  Writes(c, a)
BY StaleMove DEF AbortStale, Writes, SameStatus

\* All the Dispatcher does with AppWrappers (dispatcher.go) is allowed by Writes.
LEMMA DispatcherMoves ==
    ASSUME IInv, DStep
    PROVE  Calm \/ \E a \in AppWrappers : Writes(D, a)
<1> DEFINE Goal == Calm \/ \E a \in AppWrappers : Writes(D, a)
<1> USE ControllersType DEF IInv
<1>0. \A a \in AppWrappers : DView(a) \in Object /\ view[D][a] = DView(a)
  BY DEF DView, TypeOK, ReconcilerTypeOK
<1>a. OwnSteps(D) = {"Idle", "Dispatching", "Deleted"}
  BY DEF OwnSteps, DispatcherSteps
<1>1. ASSUME NEW a \in AppWrappers, DMissing(a) PROVE Goal
  BY <1>1 DEF DMissing, Calm
<1>2. ASSUME NEW a \in AppWrappers, DStale(a) PROVE Goal
  BY <1>2, AbortStaleMove DEF DStale
<1>3. ASSUME NEW a \in AppWrappers, DAwaitRunner(a) PROVE Goal
  BY <1>3, QuietMove DEF DAwaitRunner, DReconciling, Reconciling
<1>4. ASSUME NEW a \in AppWrappers, NEW r \in Outcomes, DFinalize(a, r) PROVE Goal
  <2> DEFINE new == [DView(a) EXCEPT !.fin = @ \ {"dispatcher"}]
  <2>1. new \in Object /\ SameStatus(new, DView(a)) /\ new.ex = DView(a).ex
    BY <1>0 DEF Object, SameStatus
  <2>2. UNCHANGED store \/ Update(a, DView(a), new, r)
    BY <1>4 DEF DFinalize
  <2>3. PICK e \in {NoEntry, FreshEntry(D, a)} :
           cache' = [cache EXCEPT ![D][a] = e]
    BY <1>4 DEF DFinalize
  <2>4. UNCHANGED view /\ ~IsStale(D, a) /\ DView(a).ex = "live"
    BY <1>0, <1>4 DEF DFinalize, DReconciling, Reconciling
  <2> QED
    BY <1>0, <2>1, <2>2, <2>3, <2>4, QuietMove
<1>5. ASSUME NEW a \in AppWrappers, NEW r \in Outcomes, DAddFinalizers(a, r)
      PROVE Goal
  <2> DEFINE new == WithFinalizers(DView(a))
  <2>1. new \in Object /\ SameStatus(new, DView(a)) /\ new.ex = DView(a).ex
    BY <1>0, ChangedObjectType DEF Object, WithFinalizers, SameStatus
  <2>2. UNCHANGED store \/ Update(a, DView(a), new, r)
    BY <1>5 DEF DAddFinalizers
  <2>3. cache' = [cache EXCEPT ![D][a] = FreshEntry(D, a)]
    BY <1>5 DEF DAddFinalizers
  <2>4. UNCHANGED view /\ ~IsStale(D, a) /\ DView(a).ex = "live"
    BY <1>0, <1>5 DEF DAddFinalizers, DReconciling, Reconciling
  <2> QED
    BY <1>0, <2>1, <2>2, <2>3, <2>4, QuietMove
<1>6. ASSUME NEW r \in Outcomes, DQueueNew(r) PROVE Goal
  <2>1. adding \in AppWrappers /\ adding # NoAppWrapper
    BY <1>6 DEF DQueueNew, TypeOK, DispatcherTypeOK
  <2> DEFINE read == WithFinalizers(DView(adding))
  <2>2. read \in Object /\ SameStatus(read, DView(adding))
        /\ read.ex = DView(adding).ex
    BY <1>0, <2>1, ChangedObjectType DEF Object, WithFinalizers, SameStatus
  <2>3. DView(adding).ex = "live" /\ DView(adding).step = "Idle"
        /\ ~IsStale(D, adding)
    BY <2>1 DEF DispatcherBusy
  <2>4. UpdateStatus(D, adding, read, read, "Queued", "Idle", r) /\ UNCHANGED view
    BY <1>6 DEF DQueueNew
  <2>5. SameStatus(read, read)
    BY DEF SameStatus
  <2> HIDE DEF read
  <2>6. Writes(D, adding)
    BY <1>0, <1>a, <2>1, <2>2, <2>3, <2>4, <2>5, UpdateStatusMove DEF States, Steps
  <2> QED
    BY <2>1, <2>6
<1>7. ASSUME NEW a \in AppWrappers, NEW r \in Outcomes, DQueued(a, r) PROVE Goal
  <2> DEFINE new == [DView(a) EXCEPT !.cond = decisions[a]]
  <2>0. decisions[a] \in Reasons
    BY DEF IInv, TypeOK, DispatcherTypeOK, QueuingDecision, Reasons
  <2>1. new \in Object /\ SameStatus(new, DView(a)) /\ new.ex = DView(a).ex
    BY <1>0, <2>0, ChangedObjectType DEF Object, SameStatus
  <2>2. UNCHANGED store \/ Update(a, DView(a), new, r)
    BY <1>7 DEF DQueued
  <2>3. cache' = [cache EXCEPT ![D][a] = FreshEntry(D, a)]
    BY <1>7 DEF DQueued
  <2>4. UNCHANGED view /\ ~IsStale(D, a) /\ DView(a).ex = "live"
    BY <1>0, <1>7 DEF DQueued, DReconciling, Reconciling
  <2> QED
    BY <1>0, <2>1, <2>2, <2>3, <2>4, QuietMove
<1>b. \A o \in Object : /\ SameStatus(o, o)
                        /\ SameStatus(RequeuedObject(o), o)
                        /\ RequeuedObject(o).ex = o.ex
  BY DEF SameStatus, RequeuedObject, Object
<1>8. ASSUME NEW a \in AppWrappers, NEW r \in Outcomes, DHandOver(a, r) PROVE Goal
  <2>1. Writes(D, a)
    BY <1>0, <1>a, <1>b, <1>8, UpdateStatusMove
       DEF DHandOver, DReconciling, Reconciling, DState, States, Steps
  <2> QED
    BY <2>1
<1>9. ASSUME NEW a \in AppWrappers, NEW r \in Outcomes, DRequeue(a, r) PROVE Goal
  <2>1. RequeuedObject(DView(a)) \in Object
    BY <1>0, ChangedObjectType
  <2>2. Writes(D, a)
    BY <1>0, <1>a, <1>b, <1>9, <2>1, UpdateStatusMove
       DEF DRequeue, DReconciling, Reconciling, DState, States, Steps
  <2> QED
    BY <2>2
<1>10. ASSUME NEW a \in AppWrappers, NEW r \in Outcomes, DFailed(a, r) PROVE Goal
  <2>1. Writes(D, a)
    BY <1>0, <1>a, <1>b, <1>10, UpdateStatusMove
       DEF DFailed, DReconciling, Reconciling, DState, States, Steps
  <2> QED
    BY <2>1
<1>11. ASSUME NEW a \in AppWrappers, DNothing(a) PROVE Goal
  BY <1>11, QuietMove DEF DNothing, DReconciling, Reconciling
<1>12. ASSUME NEW paused, NEW quota, DSelect(paused, Capacity, quota) PROVE Goal
  BY <1>12 DEF DSelect, reconcilerVars, Calm
<1>13. ASSUME DAbort PROVE Goal
  <2>1. PICK a \in todo, timedOut \in {FALSE} \cup {"timeout" \in Faults} :
           cache' = [cache EXCEPT ![D][a] =
                        IF IsStale(D, a) THEN StaleEntry(D, a, timedOut)
                        ELSE FreshEntry(D, a)]
    BY <1>13 DEF DAbort
  <2>2. a \in AppWrappers /\ UNCHANGED <<store, view>>
    BY <1>13 DEF DAbort, TypeOK, DispatcherTypeOK
  <2>3. CASE IsStale(D, a)
    BY <2>1, <2>2, <2>3, StaleMove DEF Writes, SameStatus
  <2>4. CASE ~IsStale(D, a)
    BY <2>1, <2>2, <2>4, QuietMove
  <2> QED
    BY <2>3, <2>4
<1>14. ASSUME NEW r \in Outcomes, DDispatch(r) PROVE Goal
  <2>1. PICK a \in todo :
           /\ ~NotDispatchable(a)
           /\ UpdateStatus(D, a, DView(a),
                           [DView(a) EXCEPT !.cond = "Dispatched"],
                           "Running", "Dispatching", r)
           /\ UNCHANGED view
    BY <1>14 DEF DDispatch
  <2>2. a \in AppWrappers /\ DView(a).ex = "live"
    BY DEF TypeOK, DispatcherTypeOK, DispatcherBusy
  <2> DEFINE new == [DView(a) EXCEPT !.cond = "Dispatched"]
  <2>3. new \in Object /\ SameStatus(new, DView(a)) /\ new.ex = DView(a).ex
    BY <1>0, <2>2, ChangedObjectType DEF Object, Reasons, SameStatus
  <2>4. DView(a).step = "Idle" /\ ~IsStale(D, a)
    BY <1>0, <2>1, <2>2 DEF NotDispatchable, StatusesValid, QueuedIsIdle
  <2>5. UpdateStatus(D, a, DView(a), new, "Running", "Dispatching", r)
    BY <2>1
  <2> HIDE DEF new
  <2>6. Writes(D, a)
    BY <1>0, <1>a, <1>b, <2>1, <2>2, <2>3, <2>4, <2>5, UpdateStatusMove
       DEF States, Steps
  <2> QED
    BY <2>2, <2>6
<1> QED
  BY <1>1, <1>2, <1>3, <1>4, <1>5, <1>6, <1>7, <1>8, <1>9, <1>10, <1>11, <1>12,
     <1>13, <1>14 DEF DStep, DispatcherStep, DRequestStep, DReconcile

\* requeueOrFail fails the AppWrapper or tears it down; it does not queue it.
LEMMA RequeueOrFailMove ==
    ASSUME TypeOK, NEW a \in AppWrappers, NEW fatal, NEW r \in Outcomes,
           RequeueOrFail(a, fatal, r), UNCHANGED view,
           RView(a).ex = "live", RView(a).step \in RunnerSteps, ~IsStale(R, a)
    PROVE  Writes(R, a)
<1> USE ControllersType
<1>1. RView(a) \in Object /\ view[R][a] = RView(a)
  BY DEF RView, TypeOK, ReconcilerTypeOK
<1>2. PICK state \in States \ {"Queued"}, step \in Steps :
         UpdateStatus(R, a, RView(a), RView(a), state, step, r)
  BY RequeueOrFailStatusType
     DEF RequeueOrFail, RequeueOrFailStatus, TeardownStatus
<1>3. SameStatus(RView(a), RView(a)) /\ OwnSteps(R) = RunnerSteps
  BY DEF SameStatus, OwnSteps, R, D
<1> QED
  BY <1>1, <1>2, <1>3, UpdateStatusMove

\* All the Runner does with AppWrappers (runner.go) is allowed by Writes.
LEMMA RunnerMoves ==
    ASSUME IInv, RunnerStep
    PROVE  Calm \/ \E a \in AppWrappers : Writes(R, a)
<1> DEFINE Goal == Calm \/ \E a \in AppWrappers : Writes(R, a)
<1> USE ControllersType DEF IInv
<1>0. \A a \in AppWrappers : RView(a) \in Object /\ view[R][a] = RView(a)
  BY DEF RView, TypeOK, ReconcilerTypeOK
<1>a. OwnSteps(R) = RunnerSteps
      /\ RunnerSteps = {"Accepting", "Creating", "Created", "Deleting"}
  BY DEF OwnSteps, RunnerSteps, R, D
<1>b. \A o \in Object : SameStatus(o, o)
  BY DEF SameStatus
<1>c. runner.op # "idle" => runner.aw \in AppWrappers
  BY DEF TypeOK, RunnerTypeOK, RunnerState
<1>1. ASSUME NEW a \in AppWrappers, RMissing(a) PROVE Goal
  BY <1>1 DEF RMissing, Calm
<1>2. ASSUME NEW a \in AppWrappers, RStale(a) PROVE Goal
  BY <1>2, AbortStaleMove DEF RStale
<1>3. ASSUME NEW a \in AppWrappers, RForget(a) PROVE Goal
  BY <1>3, QuietMove DEF RForget, RReconciling, Reconciling
<1>4. ASSUME NEW a \in AppWrappers, NEW r \in Outcomes, RConvert(a, r) PROVE Goal
  <2> DEFINE new == [RView(a) EXCEPT !.fin =
                        (@ \cup {"dispatcher", "runner"}) \ {"legacy"}]
  <2>1. new \in Object /\ SameStatus(new, RView(a)) /\ new.ex = RView(a).ex
    BY <1>0 DEF Object, Finalizers, SameStatus
  <2>2. Update(a, RView(a), new, r)
    BY <1>4 DEF RConvert
  <2>3. cache' = [cache EXCEPT ![R][a] = FreshEntry(R, a)]
    BY <1>4 DEF RConvert
  <2>4. UNCHANGED view /\ ~IsStale(R, a) /\ RView(a).ex = "live"
    BY <1>0, <1>4 DEF RConvert, RReconciling, Reconciling
  <2> QED
    BY <1>0, <2>1, <2>2, <2>3, <2>4, QuietMove
<1>5. ASSUME NEW a \in AppWrappers, NEW r \in Outcomes, RAccept(a, r) PROVE Goal
  <2>1. Writes(R, a)
    BY <1>0, <1>a, <1>b, <1>5, UpdateStatusMove
       DEF RAccept, RReconciling, Reconciling, RState, States, Steps
  <2> QED
    BY <2>1
<1>6. ASSUME NEW a \in AppWrappers, RCreate(a) PROVE Goal
  BY <1>6, QuietMove DEF RCreate, RReconciling, Reconciling
<1>7. ASSUME NEW a \in AppWrappers, NEW r \in Outcomes, RSucceed(a, r) PROVE Goal
  <2>1. Writes(R, a)
    BY <1>0, <1>a, <1>b, <1>7, UpdateStatusMove
       DEF RSucceed, RReconciling, Reconciling, RState, States, Steps
  <2> QED
    BY <2>1
<1>8. ASSUME NEW a \in AppWrappers, NEW r \in Outcomes, RUnhealthy(a, r) PROVE Goal
  <2>1. Writes(R, a)
    BY <1>0, <1>a, <1>8, RequeueOrFailMove
       DEF RUnhealthy, RReconciling, Reconciling, RState
  <2> QED
    BY <2>1
<1>9. ASSUME NEW a \in AppWrappers, RHealthy(a) PROVE Goal
  BY <1>9, QuietMove DEF RHealthy, RReconciling, Reconciling
<1>10. ASSUME NEW a \in AppWrappers, RDelete(a) PROVE Goal
  BY <1>10, QuietMove DEF RDelete, RReconciling, Reconciling
<1>11. ASSUME NEW a \in AppWrappers, RNothing(a) PROVE Goal
  BY <1>11, QuietMove DEF RNothing, RReconciling, Reconciling
<1>12. ASSUME RCreateItem \/ RDeleteItem PROVE Goal
  BY <1>12 DEF RCreateItem, RDeleteItem, reconcilerVars, Calm
<1>13. ASSUME NEW r \in Outcomes, RCreated(r) PROVE Goal
  <2>1. runner.op = "create" /\ runner.aw \in AppWrappers
    BY <1>13, <1>c DEF RCreated
  <2>2. /\ RView(runner.aw).ex = "live" /\ RView(runner.aw).step = "Creating"
        /\ ~IsStale(R, runner.aw)
    BY <2>1 DEF RunnerBusy
  <2>3. Writes(R, runner.aw)
    BY <1>0, <1>a, <1>b, <1>13, <2>1, <2>2, UpdateStatusMove
       DEF RCreated, States, Steps
  <2> QED
    BY <2>1, <2>3
<1>14. ASSUME NEW r \in Outcomes, RCreateFailed(r) PROVE Goal
  <2>1. runner.op = "fail" /\ runner.aw \in AppWrappers
    BY <1>14, <1>c DEF RCreateFailed
  <2>2. /\ RView(runner.aw).ex = "live" /\ RView(runner.aw).step = "Creating"
        /\ ~IsStale(R, runner.aw)
    BY <2>1 DEF RunnerBusy
  <2>3. Writes(R, runner.aw)
    BY <1>a, <1>14, <2>1, <2>2, RequeueOrFailMove DEF RCreateFailed
  <2> QED
    BY <2>1, <2>3
<1>15. ASSUME NEW r \in Outcomes, RDeleted(r) PROVE Goal
  <2> DEFINE a == runner.aw
  <2>1. runner.op = "delete" /\ a \in AppWrappers /\ UNCHANGED view
    BY <1>15, <1>c DEF RDeleted
  <2>2. RView(a).ex = "live" /\ ~IsStale(R, a)
    BY <2>1 DEF RunnerBusy
  <2>3. CASE RView(a).del
    <3> DEFINE new == [RView(a) EXCEPT !.fin = @ \ {"runner"}]
    <3>1. new \in Object /\ SameStatus(new, RView(a)) /\ new.ex = RView(a).ex
      BY <1>0, <2>1 DEF Object, SameStatus
    <3>2. Update(a, RView(a), new, r)
      BY <1>15, <2>3 DEF RDeleted
    <3>3. PICK e \in {NoEntry, FreshEntry(R, a)} :
             cache' = [cache EXCEPT ![R][a] = e]
      BY <1>15, <2>3 DEF RDeleted
    <3> QED
      BY <1>0, <2>1, <2>2, <3>1, <3>2, <3>3, QuietMove
  <2>4. CASE ~RView(a).del
    <3>1. RView(a).state # "Queued" /\ RView(a).step = "Deleting"
      BY <2>1, <2>4 DEF RunnerBusy
    <3>2. RView(a).state \in States
      BY <1>0, <2>1 DEF Object
    <3>3. UpdateStatus(R, a, RView(a), RView(a), RView(a).state, "Deleted", r)
      BY <1>15, <2>4 DEF RDeleted
    <3> QED
      BY <1>0, <1>a, <1>b, <2>1, <2>2, <3>1, <3>2, <3>3, UpdateStatusMove
         DEF Steps
  <2> QED
    BY <2>3, <2>4
<1>16. ASSUME NEW force, RDeleteAgain(force) PROVE Goal
  BY <1>16 DEF RDeleteAgain, Calm
<1> QED
  BY <1>1, <1>2, <1>3, <1>4, <1>5, <1>6, <1>7, <1>8, <1>9, <1>10, <1>11, <1>12,
     <1>13, <1>14, <1>15, <1>16 DEF RunnerStep, RReconcile

-----------------------------------------------------------------------------
(* Every step of the system, as far as the objects and copies go.          *)

\* A user creates an AppWrapper or asks for its deletion.
UserWrites(a) ==
    /\ UNCHANGED <<view, cache>>
    /\ \A b \in AppWrappers \ {a} : store'[b] = store[b]
    /\ SameStatus(store'[a], store[a])
    /\ store'[a].ex # "new" /\ store[a].ex # "gone"

\* Users do not write the status.
LEMMA UserMoves ==
    ASSUME TypeOK, UserStep
    PROVE  \E a \in AppWrappers : UserWrites(a)
<1>1. ASSUME NEW a \in AppWrappers, Create(a) PROVE UserWrites(a)
  BY <1>1 DEF Create, UserWrites, SameStatus, TypeOK, ReconcilerTypeOK, Object
<1>2. ASSUME NEW a \in AppWrappers, Delete(a) PROVE UserWrites(a)
  <2> DEFINE o == [store[a] EXCEPT !.del = TRUE]
  <2>1. o \in Object /\ SameStatus(o, store[a]) /\ o.ex = "live"
    BY <1>2 DEF Delete, TypeOK, ReconcilerTypeOK, Object, SameStatus
  <2>2. SameStatus(Stored(o), store[a]) /\ Stored(o).ex \in {"live", "gone"}
    BY <2>1 DEF Stored, SameStatus, Object
  <2>3. store' = [store EXCEPT ![a] = Stored(o)] /\ UNCHANGED <<view, cache>>
    BY <1>2 DEF Delete, TypeOK, ReconcilerTypeOK
  <2> HIDE DEF o
  <2> QED
    BY <1>2, <2>2, <2>3 DEF Delete, UserWrites, TypeOK, ReconcilerTypeOK
<1> QED
  BY <1>1, <1>2, DeploymentAssumption DEF UserStep

\* A step of the system is a write by a controller or a user, a notification of
\* an informer, a restart, or does not concern the AppWrappers.
LEMMA NextMoves ==
    ASSUME IInv, [AnyNext]_vars
    PROVE  \/ Calm
           \/ \E c \in Controllers, a \in AppWrappers : Writes(c, a)
           \/ \E a \in AppWrappers : UserWrites(a)
           \/ \E c \in Controllers, a \in AppWrappers : Sync(c, a)
           \/ \E c \in Controllers : RestartReconciler(c)
<1>1. CASE UserStep
  BY <1>1, UserMoves DEF IInv
<1>2. CASE \E c \in Controllers, a \in AppWrappers : Informer(c, a)
  BY <1>2 DEF Informer
<1>3. CASE DStep
  BY <1>3, DispatcherMoves, ControllersType
<1>4. CASE RunnerStep
  BY <1>4, RunnerMoves, ControllersType
<1>5. ASSUME NEW a \in AppWrappers, Cluster(a) PROVE Calm
  BY <1>5 DEF Cluster, ItemGone, ItemComplete, PodCreated, PodPhase, PodEvicted, PodSync,
              PodGone, reconcilerVars, Calm
<1>6. CASE \E c \in Restartable : Restart(c)
  BY <1>6, ControllersType DEF Restart, DispatcherRestart, RunnerRestart
<1>7. CASE UNCHANGED vars
  BY <1>7 DEF vars, reconcilerVars, Calm
<1> QED
  BY <1>1, <1>2, <1>3, <1>4, <1>5, <1>6, <1>7 DEF AnyNext

-----------------------------------------------------------------------------
(* The copies follow the object.                                           *)

\* Every step preserves CopiesFollow: no informer copy and no cache entry is
\* ever ahead of the object, or differs from it at the same count.
LEMMA CopiesFollowNext ==
    ASSUME IInv, [AnyNext]_vars
    PROVE  CopiesFollow'
<1> USE DEF IInv
<1>t. TypeOK'
  BY NextType
<1>0. SUFFICES ASSUME NEW d \in Controllers, NEW b \in AppWrappers
               PROVE  /\ Follows(view[d][b], store[b])'
                      /\ cache'[d][b].has =>
                            /\ Follows(cache[d][b], store[b])'
                            /\ cache'[d][b].tc = view'[d][b].tc
                                  => SameStatus(cache[d][b], view[d][b])'
  BY DEF CopiesFollow
<1>i. /\ Follows(view[d][b], store[b])
      /\ cache[d][b].has =>
            /\ Follows(cache[d][b], store[b])
            /\ cache[d][b].tc = view[d][b].tc => SameStatus(cache[d][b], view[d][b])
  BY DEF CopiesFollow
<1>n. /\ view[d][b].tc \in Nat /\ cache[d][b].tc \in Nat /\ store[b].tc \in Nat
      /\ cache'[d][b].tc \in Nat /\ store'[b].tc \in Nat
  BY <1>t DEF TypeOK, ReconcilerTypeOK, Object, CacheEntry
<1>1. CASE Calm
  BY <1>1, <1>i DEF Calm, Follows, SameStatus
<1>2. ASSUME NEW c \in Controllers, NEW a \in AppWrappers, Writes(c, a)
      PROVE  /\ Follows(view[d][b], store[b])'
             /\ cache'[d][b].has =>
                   /\ Follows(cache[d][b], store[b])'
                   /\ cache'[d][b].tc = view'[d][b].tc
                         => SameStatus(cache[d][b], view[d][b])'
  <2>0. view' = view
    BY <1>2 DEF Writes
  <2>1. SameStatus(store'[b], store[b]) \/ store'[b].tc = store[b].tc + 1
    BY <1>2 DEF Writes, Transits, SameStatus
  <2>2. Follows(view[d][b], store[b])'
    BY <1>i, <1>n, <2>0, <2>1 DEF Follows, SameStatus
  <2>3. CASE cache'[d][b] = cache[d][b]
    BY <1>i, <1>n, <2>0, <2>1, <2>2, <2>3 DEF Follows, SameStatus
  <2>4. CASE d = c /\ b = a
    <3>1. CASE SameStatus(store'[b], store[b]) /\ Refreshed(d, b)
      BY <1>i, <1>n, <2>0, <2>2, <3>1
         DEF Refreshed, IsStale, Follows, SameStatus
    <3>2. CASE Transits(d, b)
      BY <1>i, <1>n, <2>0, <2>2, <3>2
         DEF Transits, Refreshed, IsStale, Follows, SameStatus
    <3> QED
      BY <1>2, <2>4, <3>1, <3>2 DEF Writes
  <2> QED
    BY <1>2, <2>3, <2>4 DEF Writes
<1>3. ASSUME NEW a \in AppWrappers, UserWrites(a)
      PROVE  /\ Follows(view[d][b], store[b])'
             /\ cache'[d][b].has =>
                   /\ Follows(cache[d][b], store[b])'
                   /\ cache'[d][b].tc = view'[d][b].tc
                         => SameStatus(cache[d][b], view[d][b])'
  <2>1. SameStatus(store'[b], store[b]) /\ view' = view /\ cache' = cache
    BY <1>3 DEF UserWrites, SameStatus
  <2> QED
    BY <1>i, <2>1 DEF Follows, SameStatus
<1>4. ASSUME NEW c \in Controllers, NEW a \in AppWrappers, Sync(c, a)
      PROVE  /\ Follows(view[d][b], store[b])'
             /\ cache'[d][b].has =>
                   /\ Follows(cache[d][b], store[b])'
                   /\ cache'[d][b].tc = view'[d][b].tc
                         => SameStatus(cache[d][b], view[d][b])'
  <2>1. store' = store /\ cache' = cache
    BY <1>4 DEF Sync
  <2>2. view'[d][b] = view[d][b] \/ view'[d][b] = store[b]
    BY <1>4 DEF Sync, TypeOK, ReconcilerTypeOK
  <2> QED
    BY <1>i, <1>n, <2>1, <2>2 DEF Follows, SameStatus
<1>5. ASSUME NEW c \in Controllers, RestartReconciler(c)
      PROVE  /\ Follows(view[d][b], store[b])'
             /\ cache'[d][b].has =>
                   /\ Follows(cache[d][b], store[b])'
                   /\ cache'[d][b].tc = view'[d][b].tc
                         => SameStatus(cache[d][b], view[d][b])'
  <2>1. CASE d = c
    BY <1>5, <1>n, <2>1
       DEF RestartReconciler, NoEntry, Follows, SameStatus, TypeOK,
           ReconcilerTypeOK
  <2>2. CASE d # c
    <3>1. store' = store /\ view'[d] = view[d] /\ cache'[d] = cache[d]
      BY <1>5, <2>2 DEF RestartReconciler, TypeOK, ReconcilerTypeOK
    <3> QED
      BY <1>i, <3>1 DEF Follows, SameStatus
  <2> QED
    BY <2>1, <2>2
<1> QED
  BY <1>1, <1>2, <1>3, <1>4, <1>5, NextMoves

\* Every step preserves StatusesValid: a queued AppWrapper is idle.
LEMMA StatusesValidNext ==
    ASSUME IInv, [AnyNext]_vars
    PROVE  StatusesValid'
<1> USE DEF IInv
<1>0. SUFFICES ASSUME NEW d \in Controllers, NEW b \in AppWrappers
               PROVE  QueuedIsIdle(store'[b]) /\ QueuedIsIdle(view'[d][b])
  BY ControllersType DEF StatusesValid, QueuedIsIdle
<1>i. QueuedIsIdle(store[b]) /\ QueuedIsIdle(view[d][b])
  BY DEF StatusesValid
<1>1. CASE Calm
  BY <1>1, <1>i DEF Calm
<1>2. ASSUME NEW c \in Controllers, NEW a \in AppWrappers, Writes(c, a)
      PROVE  QueuedIsIdle(store'[b]) /\ QueuedIsIdle(view'[d][b])
  BY <1>2, <1>i DEF Writes, Transits, SameStatus, QueuedIsIdle
<1>3. ASSUME NEW a \in AppWrappers, UserWrites(a)
      PROVE  QueuedIsIdle(store'[b]) /\ QueuedIsIdle(view'[d][b])
  BY <1>3, <1>i DEF UserWrites, SameStatus, QueuedIsIdle
<1>4. ASSUME NEW c \in Controllers, NEW a \in AppWrappers, Sync(c, a)
      PROVE  QueuedIsIdle(store'[b]) /\ QueuedIsIdle(view'[d][b])
  BY <1>4, <1>i DEF Sync, TypeOK, ReconcilerTypeOK
<1>5. ASSUME NEW c \in Controllers, RestartReconciler(c)
      PROVE  QueuedIsIdle(store'[b]) /\ QueuedIsIdle(view'[d][b])
  BY <1>5, <1>i DEF RestartReconciler, TypeOK, ReconcilerTypeOK
<1> QED
  BY <1>1, <1>2, <1>3, <1>4, <1>5, NextMoves

\* Every step preserves DispatcherSees: an AppWrapper that left Idle was seen by
\* the Dispatcher, for it alone moves AppWrappers out of Idle.
LEMMA DispatcherSeesNext ==
    ASSUME IInv, [AnyNext]_vars
    PROVE  DispatcherSees'
<1> USE ControllersType DEF IInv, DView
<1> DEFINE Seen(b) ==
             /\ store[b].ex = "new" => store[b].step = "Idle"
             /\ view[D][b].ex = "new" => store[b].step = "Idle"
             /\ view[D][b].ex = "gone" => store[b].ex = "gone"
<1>0. SUFFICES ASSUME NEW b \in AppWrappers
               PROVE  Seen(b)'
  BY DEF DispatcherSees
<1>i. Seen(b)
  BY DEF DispatcherSees
<1>1. CASE Calm
  BY <1>1, <1>i DEF Calm
<1>2. ASSUME NEW c \in Controllers, NEW a \in AppWrappers, Writes(c, a)
      PROVE  Seen(b)'
  <2>1. view' = view
    BY <1>2 DEF Writes
  <2>2. CASE b # a
    BY <1>2, <1>i, <2>1, <2>2 DEF Writes
  <2>3. CASE b = a /\ SameStatus(store'[b], store[b])
    BY <1>2, <1>i, <2>1, <2>3 DEF Writes, SameStatus
  <2>4. CASE b = a /\ Transits(c, b)
    <3>1. store[b].ex = "live" /\ store'[b].ex \in {"live", "gone"}
      BY <1>2, <2>4 DEF Writes, Transits
    <3>2. view[D][b].ex # "new"
      <4>1. CASE c = D
        BY <2>4, <4>1 DEF Transits
      <4>2. CASE c # D
        BY <1>i, <2>4, <4>2 DEF Transits, OwnSteps, RunnerSteps, SameStatus
      <4> QED
        BY <4>1, <4>2
    <3> QED
      BY <1>i, <2>1, <3>1, <3>2
  <2> QED
    BY <1>2, <2>2, <2>3, <2>4 DEF Writes
<1>3. ASSUME NEW a \in AppWrappers, UserWrites(a)
      PROVE  Seen(b)'
  <2>1. view' = view
    BY <1>3 DEF UserWrites
  <2> QED
    BY <1>3, <1>i, <2>1 DEF UserWrites, SameStatus
<1>4. ASSUME NEW c \in Controllers, NEW a \in AppWrappers, Sync(c, a)
      PROVE  Seen(b)'
  <2>1. store' = store
    BY <1>4 DEF Sync
  <2>2. view'[D][b] = view[D][b] \/ view'[D][b] = store[b]
    BY <1>4 DEF Sync, TypeOK, ReconcilerTypeOK
  <2> QED
    BY <1>i, <2>1, <2>2
<1>5. ASSUME NEW c \in Controllers, RestartReconciler(c)
      PROVE  Seen(b)'
  <2>1. store' = store
    BY <1>5 DEF RestartReconciler
  <2>2. view'[D][b] = view[D][b] \/ view'[D][b] = store[b]
    BY <1>5 DEF RestartReconciler, TypeOK, ReconcilerTypeOK
  <2> QED
    BY <1>i, <2>1, <2>2
<1> QED
  BY <1>1, <1>2, <1>3, <1>4, <1>5, NextMoves

-----------------------------------------------------------------------------
(* What the workers rely on during a request.                              *)

\* After isStale (cache.go) answered false it would answer false again.
LEMMA FreshIsNotStale ==
    ASSUME TypeOK, NEW c \in Controllers, NEW a \in AppWrappers, ~IsStale(c, a),
           UNCHANGED view, cache' = [cache EXCEPT ![c][a] = FreshEntry(c, a)]
    PROVE  ~IsStale(c, a)'
<1>1. cache'[c][a] = FreshEntry(c, a) /\ view'[c][a] = view[c][a]
  BY DEF TypeOK, ReconcilerTypeOK
<1>2. view[c][a].tc \in Nat
  BY DEF TypeOK, ReconcilerTypeOK, Object
<1> QED
  BY <1>1, <1>2 DEF FreshEntry, NoEntry, Entry, IsStale, Behind, CacheConflict

\* Steps that leave the Dispatcher and its copies alone preserve DispatcherBusy.
LEMMA DispatcherBusyKept ==
    ASSUME DispatcherBusy, DispatcherTypeOK, UNCHANGED dispatcherVars,
           \A a \in AppWrappers : /\ view'[D][a] = view[D][a]
                                  /\ cache'[D][a] = cache[D][a]
    PROVE  DispatcherBusy'
BY DEF DispatcherBusy, DispatcherTypeOK, dispatcherVars, SelectedAreQueued,
       DView, IsStale, Behind, CacheConflict

\* The Dispatcher's steps preserve DispatcherBusy.
LEMMA DispatcherStepBusy ==
    ASSUME IInv, DStep
    PROVE  DispatcherBusy'
<1> USE ControllersType DEF IInv
<1>i. ASSUME (todo = {})', (adding = NoAppWrapper)' PROVE DispatcherBusy'
  BY <1>i DEF DispatcherBusy, SelectedAreQueued
<1>1. ASSUME NEW a \in AppWrappers, NEW r \in Outcomes, DAddFinalizers(a, r)
      PROVE  DispatcherBusy'
  <2>1. todo' = {} /\ adding' \in {a, NoAppWrapper}
    BY <1>1 DEF DAddFinalizers, DReconciling, DispatcherIdle
  <2>2. /\ view' = view
        /\ DView(a).ex = "live" /\ DView(a).step = "Idle" /\ ~IsStale(D, a)
        /\ cache' = [cache EXCEPT ![D][a] = FreshEntry(D, a)]
    BY <1>1 DEF DAddFinalizers, DReconciling, Reconciling, DState, DView
  <2>3. ~IsStale(D, a)'
    BY <2>2, FreshIsNotStale
  <2> QED
    BY <2>1, <2>2, <2>3 DEF DispatcherBusy, SelectedAreQueued, DView, IsStale,
                            Behind, CacheConflict
<1>2. ASSUME NEW a \in AppWrappers, NEW r \in Outcomes, DReconcile(a, r),
             ~DAddFinalizers(a, r)
      PROVE  DispatcherBusy'
  BY <1>2, <1>i DEF DReconcile, DMissing, DStale, DAwaitRunner, DFinalize,
                    DQueued, DHandOver, DRequeue, DFailed, DNothing,
                    DReconciling, DispatcherIdle, dispatcherVars
<1>3. ASSUME NEW r \in Outcomes, DQueueNew(r) PROVE DispatcherBusy'
  BY <1>3, <1>i DEF DQueueNew, DispatcherBusy
<1>4. ASSUME NEW paused, NEW quota, DSelect(paused, Capacity, quota) PROVE DispatcherBusy'
  <2>1. PICK S \in SUBSET Candidates(paused) : todo' = S
    BY <1>4 DEF DSelect
  <2>2. adding' = NoAppWrapper /\ view' = view /\ cache' = cache
    BY <1>4 DEF DSelect, DispatcherIdle, reconcilerVars
  <2>3. \A b \in S : /\ DView(b).ex = "live"
                     /\ IsStale(D, b) \/ DView(b).state = "Queued"
    BY DEF Candidates, IdleCandidates, Listed, CachedState, IsStale, DView
  <2> QED
    BY <2>1, <2>2, <2>3 DEF DispatcherBusy, SelectedAreQueued, DView, IsStale,
                            Behind, CacheConflict
<1>5. ASSUME DAbort PROVE DispatcherBusy'
  BY <1>5, <1>i DEF DAbort, DispatcherBusy
<1>6. ASSUME NEW r \in Outcomes, DDispatch(r) PROVE DispatcherBusy'
  <2>1. PICK a \in todo :
           /\ UpdateStatus(D, a, DView(a),
                           [DView(a) EXCEPT !.cond = "Dispatched"],
                           "Running", "Dispatching", r)
           /\ todo' \subseteq todo \ {a}
           /\ view' = view
           /\ adding' = adding
    BY <1>6 DEF DDispatch
  <2>2. a \in AppWrappers /\ adding = NoAppWrapper /\ todo \subseteq AppWrappers
    BY DEF TypeOK, DispatcherTypeOK, DispatcherBusy
  <2>3. \A b \in todo \ {a} : cache'[D][b] = cache[D][b]
    BY <2>1, <2>2 DEF UpdateStatus, TypeOK, ReconcilerTypeOK
  <2>4. \A b \in todo \ {a} : /\ DView(b).ex = "live"
                              /\ IsStale(D, b) \/ DView(b).state = "Queued"
    BY DEF DispatcherBusy, SelectedAreQueued
  <2> QED
    BY <2>1, <2>2, <2>3, <2>4 DEF DispatcherBusy, SelectedAreQueued, DView,
                                  IsStale, Behind, CacheConflict
<1> QED
  BY <1>1, <1>2, <1>3, <1>4, <1>5, <1>6 DEF DStep, DispatcherStep, DRequestStep

\* Every step preserves DispatcherBusy: what the Dispatcher read at the start of
\* a request still holds when it calls the API server.
LEMMA DispatcherBusyNext ==
    ASSUME IInv, [AnyNext]_vars
    PROVE  DispatcherBusy'
<1> USE ControllersType DEF IInv
<1>t. TypeOK /\ DispatcherTypeOK /\ DispatcherBusy /\ D # R
  BY DEF TypeOK, D, R
<1>1. CASE UserStep
  BY <1>1, <1>t, DispatcherBusyKept DEF UserStep, Create, Delete
<1>2. ASSUME NEW c \in Controllers, NEW a \in AppWrappers, Informer(c, a)
      PROVE  DispatcherBusy'
  <2>1. CASE c = D
    BY <1>2, <2>1 DEF Informer, Idling, DispatcherIdle, dispatcherVars,
                      DispatcherBusy, SelectedAreQueued
  <2>2. CASE c # D
    BY <1>2, <1>t, <2>2, DispatcherBusyKept
       DEF Informer, Sync, TypeOK, ReconcilerTypeOK
  <2> QED
    BY <2>1, <2>2
<1>3. CASE DStep
  BY <1>3, DispatcherStepBusy
<1>4. CASE RunnerStep /\ UNCHANGED dispatcherVars
  <2>1. \A a \in AppWrappers : view'[D][a] = view[D][a] /\ cache'[D][a] = cache[D][a]
    BY <1>4, <1>t, RunnerMoves DEF Calm, Writes
  <2> QED
    BY <1>4, <1>t, <2>1, DispatcherBusyKept
<1>5. ASSUME NEW a \in AppWrappers, Cluster(a), UNCHANGED dispatcherVars
      PROVE  DispatcherBusy'
  <2>1. view' = view /\ cache' = cache
    BY <1>5 DEF Cluster, ItemGone, ItemComplete, PodCreated, PodPhase,
                PodEvicted, PodSync, PodGone, reconcilerVars
  <2> QED
    BY <1>5, <1>t, <2>1, DispatcherBusyKept
<1>6. CASE DispatcherRestart
  BY <1>6 DEF DispatcherRestart, DispatcherBusy, SelectedAreQueued
<1>7. CASE RunnerRestart /\ UNCHANGED dispatcherVars
  <2>1. \A a \in AppWrappers : view'[D][a] = view[D][a] /\ cache'[D][a] = cache[D][a]
    BY <1>7, <1>t DEF RunnerRestart, RestartReconciler, TypeOK, ReconcilerTypeOK
  <2> QED
    BY <1>7, <1>t, <2>1, DispatcherBusyKept
<1>8. CASE UNCHANGED vars
  BY <1>8, <1>t, DispatcherBusyKept DEF vars, reconcilerVars
<1> QED
  BY <1>1, <1>2, <1>3, <1>4, <1>5, <1>6, <1>7, <1>8 DEF AnyNext, Restart

\* Steps that leave the Runner and its copies alone preserve RunnerBusy.
LEMMA RunnerBusyKept ==
    ASSUME RunnerBusy, RunnerTypeOK, UNCHANGED runner,
           \A a \in AppWrappers : /\ view'[R][a] = view[R][a]
                                  /\ cache'[R][a] = cache[R][a]
    PROVE  RunnerBusy'
BY DEF RunnerBusy, RunnerTypeOK, RunnerState, RView, IsStale, Behind,
       CacheConflict

\* The Runner's steps preserve RunnerBusy.
LEMMA RunnerStepBusy ==
    ASSUME IInv, RunnerStep
    PROVE  RunnerBusy'
<1> USE ControllersType DEF IInv
<1>i. ASSUME runner' = Idle PROVE RunnerBusy'
  BY <1>i DEF RunnerBusy, Idle
<1>1. ASSUME NEW a \in AppWrappers, RCreate(a) PROVE RunnerBusy'
  <2>1. runner'.op \in {"create", "fail"} /\ runner'.aw = a
    BY <1>1 DEF RCreate, Idle
  <2>2. /\ view' = view
        /\ RView(a).ex = "live" /\ RView(a).step = "Creating" /\ ~IsStale(R, a)
        /\ cache' = [cache EXCEPT ![R][a] = FreshEntry(R, a)]
    BY <1>1 DEF RCreate, RReconciling, Reconciling, RState, RView
  <2>3. ~IsStale(R, a)'
    BY <2>2, FreshIsNotStale
  <2> QED
    BY <2>1, <2>2, <2>3 DEF RunnerBusy, RView, IsStale, Behind, CacheConflict
<1>2. ASSUME NEW a \in AppWrappers, RDelete(a) PROVE RunnerBusy'
  <2>1. runner'.op = "delete" /\ runner'.aw = a
    BY <1>2 DEF RDelete, Idle
  <2>2. /\ view' = view
        /\ RView(a).ex = "live" /\ ~IsStale(R, a)
        /\ ~RView(a).del => RView(a).state # "Queued" /\ RView(a).step = "Deleting"
        /\ cache' = [cache EXCEPT ![R][a] = FreshEntry(R, a)]
    BY <1>2 DEF RDelete, RReconciling, Reconciling, RState, RView
  <2>3. ~IsStale(R, a)'
    BY <2>2, FreshIsNotStale
  <2> QED
    BY <2>1, <2>2, <2>3 DEF RunnerBusy, RView, IsStale, Behind, CacheConflict
<1>3. ASSUME NEW a \in AppWrappers, NEW r \in Outcomes, RReconcile(a, r),
             ~RCreate(a), ~RDelete(a)
      PROVE  RunnerBusy'
  BY <1>3, <1>i DEF RReconcile, RMissing, RStale, RForget, RConvert, RAccept,
                    RSucceed, RUnhealthy, RHealthy, RNothing, RReconciling
<1>4. ASSUME NEW r \in Outcomes, RCreated(r) \/ RCreateFailed(r) \/ RDeleted(r)
      PROVE  RunnerBusy'
  BY <1>4, <1>i DEF RCreated, RCreateFailed, RDeleted, Finished
<1>5. CASE RCreateItem
  <2>1. /\ runner.op = "create"
        /\ runner'.op \in {"create", "fail"} /\ runner'.aw = runner.aw
    BY <1>5 DEF RCreateItem, Idle, TypeOK, RunnerTypeOK, RunnerState
  <2>2. view' = view /\ cache' = cache
    BY <1>5 DEF RCreateItem, reconcilerVars
  <2> QED
    BY <2>1, <2>2 DEF RunnerBusy, RView, IsStale, Behind, CacheConflict
<1>6. CASE RDeleteItem
  <2>1. runner.op = "delete" /\ runner'.op = "delete" /\ runner'.aw = runner.aw
    BY <1>6 DEF RDeleteItem, TypeOK, RunnerTypeOK, RunnerState
  <2>2. view' = view /\ cache' = cache
    BY <1>6 DEF RDeleteItem, reconcilerVars
  <2> QED
    BY <2>1, <2>2 DEF RunnerBusy, RView, IsStale, Behind, CacheConflict
<1>7. ASSUME NEW force, RDeleteAgain(force) PROVE RunnerBusy'
  BY <1>7, <1>i DEF RDeleteAgain, Finished
<1> QED
  BY <1>1, <1>2, <1>3, <1>4, <1>5, <1>6, <1>7 DEF RunnerStep

\* Every step preserves RunnerBusy: what the Runner read at the start of a
\* request still holds when its loops over the resources end.
LEMMA RunnerBusyNext ==
    ASSUME IInv, [AnyNext]_vars
    PROVE  RunnerBusy'
<1> USE ControllersType DEF IInv
<1>t. TypeOK /\ RunnerTypeOK /\ RunnerBusy /\ D # R
  BY DEF TypeOK, D, R
<1>1. CASE UserStep
  BY <1>1, <1>t, RunnerBusyKept DEF UserStep, Create, Delete
<1>2. ASSUME NEW c \in Controllers, NEW a \in AppWrappers, Informer(c, a)
      PROVE  RunnerBusy'
  <2>1. CASE c = R
    BY <1>2, <1>t, <2>1 DEF Informer, Idling, Idle, RunnerBusy
  <2>2. CASE c # R
    BY <1>2, <1>t, <2>2, RunnerBusyKept
       DEF Informer, Sync, TypeOK, ReconcilerTypeOK
  <2> QED
    BY <2>1, <2>2
<1>3. CASE DStep /\ UNCHANGED runner
  <2>1. \A a \in AppWrappers : view'[R][a] = view[R][a] /\ cache'[R][a] = cache[R][a]
    BY <1>3, <1>t, DispatcherMoves DEF Calm, Writes
  <2> QED
    BY <1>3, <1>t, <2>1, RunnerBusyKept
<1>4. CASE RunnerStep
  BY <1>4, RunnerStepBusy
<1>5. ASSUME NEW a \in AppWrappers, Cluster(a), UNCHANGED runner
      PROVE  RunnerBusy'
  <2>1. view' = view /\ cache' = cache
    BY <1>5 DEF Cluster, ItemGone, ItemComplete, PodCreated, PodPhase,
                PodEvicted, PodSync, PodGone, reconcilerVars
  <2> QED
    BY <1>5, <1>t, <2>1, RunnerBusyKept
<1>6. CASE DispatcherRestart /\ UNCHANGED runner
  <2>1. \A a \in AppWrappers : view'[R][a] = view[R][a] /\ cache'[R][a] = cache[R][a]
    BY <1>6, <1>t
       DEF DispatcherRestart, RestartReconciler, TypeOK, ReconcilerTypeOK
  <2> QED
    BY <1>6, <1>t, <2>1, RunnerBusyKept
<1>7. CASE RunnerRestart
  BY <1>7 DEF RunnerRestart, Idle, RunnerBusy
<1>8. CASE UNCHANGED vars
  BY <1>8, <1>t, RunnerBusyKept DEF vars, reconcilerVars
<1> QED
  BY <1>1, <1>2, <1>3, <1>4, <1>5, <1>6, <1>7, <1>8 DEF AnyNext, Restart

-----------------------------------------------------------------------------
(* The invariant, and what follows from it for all faults.                 *)

\* The invariant holds initially.
LEMMA IInvInit == Init => IInv
<1> SUFFICES ASSUME Init PROVE IInv
  OBVIOUS
<1> USE ControllersType DEF Init
<1>1. TypeOK
  BY InitType
<1>2. \A c \in Controllers, a \in AppWrappers :
         view[c][a] = store[a] /\ cache[c][a] = NoEntry
  BY DEF ReconcilerInit
<1>3. \A a \in AppWrappers : store[a].step = "Idle" /\ store[a].ex \in {"new", "live"}
  BY DEF ReconcilerInit, LegacyObject, NewObject
<1>4. \A a \in AppWrappers : store[a].tc \in Nat
  BY <1>1 DEF TypeOK, ReconcilerTypeOK, Object
<1>5. CopiesFollow
  <2>1. \A c \in Controllers, a \in AppWrappers : ~cache[c][a].has
    BY <1>2 DEF NoEntry
  <2>2. ASSUME NEW c \in Controllers, NEW a \in AppWrappers
        PROVE  Follows(view[c][a], store[a])
    <3>1. view[c][a] = store[a] /\ store[a].tc <= store[a].tc
      BY <1>2, <1>4
    <3> QED
      BY <3>1 DEF Follows, SameStatus
  <2> QED
    BY <2>1, <2>2 DEF CopiesFollow
<1>6. StatusesValid
  BY <1>2, <1>3 DEF StatusesValid, QueuedIsIdle
<1>7. DispatcherBusy
  BY DEF DispatcherInit, DispatcherBusy, SelectedAreQueued
<1>8. RunnerBusy
  BY DEF RunnerInit, Idle, RunnerBusy
<1>9. DispatcherSees
  BY <1>2, <1>3 DEF DispatcherSees, DView
<1> QED
  BY <1>1, <1>5, <1>6, <1>7, <1>8, <1>9 DEF IInv

\* The invariant is inductive.
LEMMA IInvNext == IInv /\ [AnyNext]_vars => IInv'
<1> SUFFICES ASSUME IInv, [AnyNext]_vars PROVE IInv'
  OBVIOUS
<1>1. TypeOK'
  BY NextType DEF IInv
<1> QED
  BY <1>1, CopiesFollowNext, StatusesValidNext, DispatcherBusyNext,
     RunnerBusyNext, DispatcherSeesNext DEF IInv

\* The inductive invariant holds of every behaviour, whatever may fail.
THEOREM Invariant == Spec => []IInv
<1>1. Init => IInv
  BY IInvInit
<1>2. IInv /\ [AnyNext]_vars => IInv'
  BY IInvNext
<1> QED
  BY <1>1, <1>2, NextIsAny, PTL DEF Spec

\* isStale (cache.go:97) never finds a cache conflict: whatever is lost, late or
\* restarted, an informer copy and a cache entry that count as many transitions
\* of an AppWrapper agree on its status.
THEOREM CacheIsSound == Spec => []CacheSound
<1>1. IInv => CacheSound
  BY DEF IInv, CopiesFollow, SameStatus, CacheSound, CacheConflict
<1> QED
  BY <1>1, Invariant, PTL

\* dispatch never meets its "Internal error" (dispatcher.go:269): an AppWrapper
\* selected is queued in the informer, or isStale aborts the dispatch first.
THEOREM NoInternalError == Spec => []SelectedAreQueued
<1>1. IInv => SelectedAreQueued
  BY DEF IInv, DispatcherBusy
<1> QED
  BY <1>1, Invariant, PTL

-----------------------------------------------------------------------------
(* The hand-off, when no reply is lost and no informer times out.          *)

\* HandOff for one controller and one AppWrapper.
Knows(c, a) == CachedStep(c, a) \in OwnSteps(c) => LatestCount(c, a) = store[a].tc

\* HandOff, controller by controller.
LEMMA HandOffIsKnowing ==
    HandOff <=> \A c \in Controllers, a \in AppWrappers : Knows(c, a)
BY DEF HandOff, Knows, OwnSteps, Controllers, D, R

\* A controller that knows of every transition knows the step.
LEMMA KnowsStep ==
    ASSUME IInv, NEW c \in Controllers, NEW a \in AppWrappers, Knows(c, a),
           CachedStep(c, a) \in OwnSteps(c)
    PROVE  store[a].step = CachedStep(c, a)
BY DEF IInv, CopiesFollow, Follows, SameStatus, Knows, CachedStep, LatestCount,
       Behind

\* After a step that neither adds nor drops an entry, the controller knows what
\* it knew.
LEMMA KnowsKept ==
    ASSUME NEW c, NEW a, Knows(c, a),
           store'[a].tc = store[a].tc,
           view'[c][a] = view[c][a],
           cache'[c][a].has <=> cache[c][a].has,
           SameStatus(cache'[c][a], cache[c][a])
    PROVE  Knows(c, a)'
BY DEF Knows, CachedStep, LatestCount, Behind, SameStatus

\* A write by a controller preserves what each controller knows: the writer caches
\* its transition (updateStatus), and it was not the other one's turn.
LEMMA KnowsWrites ==
    ASSUME IInv, HandOff, Reliable, TypeOK',
           NEW c \in Controllers, NEW a \in AppWrappers, Writes(c, a),
           NEW d \in Controllers, NEW b \in AppWrappers
    PROVE  Knows(d, b)'
<1>0. Knows(d, b) /\ view' = view
  BY HandOffIsKnowing DEF Writes
<1>n. /\ view[d][b].tc \in Nat /\ cache[d][b].tc \in Nat /\ store[b].tc \in Nat
      /\ cache'[d][b].tc \in Nat /\ store'[b].tc \in Nat
      /\ cache[d][b].has \in BOOLEAN /\ cache'[d][b].has \in BOOLEAN
  BY DEF IInv, TypeOK, ReconcilerTypeOK, Object, CacheEntry
<1>1. CASE b # a
  <2>1. store'[b] = store[b] /\ cache'[d][b] = cache[d][b]
    BY <1>1 DEF Writes
  <2> QED
    BY <1>0, <2>1 DEF Knows, CachedStep, LatestCount, Behind
<1>2. CASE b = a /\ d # c
  <2>1. cache'[d][b] = cache[d][b]
    BY <1>2 DEF Writes
  <2>2. CASE SameStatus(store'[b], store[b])
    BY <1>0, <2>1, <2>2 DEF Knows, CachedStep, LatestCount, Behind, SameStatus
  <2>3. CASE Transits(c, b)
    <3>1. store[b].step \in OwnSteps(c)
      BY <2>3 DEF Transits, SameStatus
    <3>2. store[b].step \notin OwnSteps(d)
      BY <1>2, <3>1
         DEF OwnSteps, DispatcherSteps, RunnerSteps, Controllers, D
    <3>3. CachedStep(d, b) \notin OwnSteps(d)
      BY <1>0, <3>2, KnowsStep
    <3> QED
      BY <1>0, <2>1, <3>3 DEF Knows, CachedStep, Behind
  <2> QED
    BY <1>2, <2>2, <2>3 DEF Writes
<1>3. CASE b = a /\ d = c
  <2>1. CASE SameStatus(store'[b], store[b]) /\ Refreshed(d, b) /\ ~IsStale(d, b)
    <3>1. ~Behind(d, b) /\ ~Behind(d, b)'
      BY <1>0, <1>n, <2>1 DEF Refreshed, IsStale, Behind, SameStatus
    <3> QED
      BY <1>0, <2>1, <3>1 DEF Knows, CachedStep, LatestCount, SameStatus
  <2>2. CASE SameStatus(store'[b], store[b]) /\ Refreshed(d, b) /\ IsStale(d, b)
    <3>1. ~CacheConflict(d, b)
      BY DEF IInv, CopiesFollow, CacheConflict, SameStatus
    <3>2. /\ cache[d][b].has /\ cache'[d][b].has
          /\ SameStatus(cache'[d][b], cache[d][b])
      BY <2>2, <3>1 DEF Refreshed, Reliable
    <3> QED
      BY <1>0, <1>n, <2>2, <3>2, KnowsKept DEF SameStatus
  <2>3. CASE Transits(d, b)
    <3>1. /\ cache'[d][b].has /\ cache'[d][b].tc = store'[b].tc
          /\ store'[b].tc > view[d][b].tc
      BY <1>n, <2>3 DEF Transits, Reliable, SameStatus
    <3> QED
      BY <1>0, <3>1 DEF Knows, LatestCount, Behind
  <2> QED
    BY <1>3, <2>1, <2>2, <2>3 DEF Writes
<1> QED
  BY <1>1, <1>2, <1>3

\* Every step preserves HandOff.
LEMMA HandOffNext ==
    ASSUME IInv, HandOff, Reliable, [AnyNext]_vars
    PROVE  HandOff'
<1>t. TypeOK /\ TypeOK'
  BY NextType DEF IInv
<1>0. SUFFICES ASSUME NEW d \in Controllers, NEW b \in AppWrappers
               PROVE  Knows(d, b)'
  BY HandOffIsKnowing DEF HandOff, Knows, OwnSteps, Controllers, D, R
<1>k. Knows(d, b)
  BY HandOffIsKnowing
<1>n. view[d][b].tc \in Nat /\ cache[d][b].tc \in Nat /\ store[b].tc \in Nat
  BY <1>t DEF TypeOK, ReconcilerTypeOK, Object, CacheEntry
<1>1. CASE Calm
  BY <1>1, <1>k DEF Calm, Knows, CachedStep, LatestCount, Behind
<1>2. ASSUME NEW c \in Controllers, NEW a \in AppWrappers, Writes(c, a)
      PROVE  Knows(d, b)'
  BY <1>2, <1>t, KnowsWrites
<1>3. ASSUME NEW a \in AppWrappers, UserWrites(a)
      PROVE  Knows(d, b)'
  <2>1. store'[b].tc = store[b].tc /\ view' = view /\ cache' = cache
    BY <1>3 DEF UserWrites, SameStatus
  <2> QED
    BY <1>k, <2>1 DEF Knows, CachedStep, LatestCount, Behind
<1>4. ASSUME NEW c \in Controllers, NEW a \in AppWrappers, Sync(c, a)
      PROVE  Knows(d, b)'
  <2>1. store' = store /\ cache' = cache
    BY <1>4 DEF Sync
  <2>2. CASE view'[d][b] = view[d][b]
    BY <1>k, <2>1, <2>2 DEF Knows, CachedStep, LatestCount, Behind
  <2>3. CASE view'[d][b] = store[b]
    <3>1. ~Behind(d, b)'
      BY <1>n, <2>1, <2>3 DEF IInv, CopiesFollow, Follows, Behind
    <3> QED
      BY <2>1, <2>3, <3>1 DEF Knows, LatestCount
  <2> QED
    BY <1>4, <1>t, <2>2, <2>3 DEF Sync, TypeOK, ReconcilerTypeOK
<1>5. ASSUME NEW c \in Controllers, RestartReconciler(c)
      PROVE  Knows(d, b)'
  <2>1. CASE d = c
    <3>1. store' = store /\ view'[d][b] = store[b] /\ cache'[d][b] = NoEntry
      BY <1>5, <1>t, <2>1 DEF RestartReconciler, TypeOK, ReconcilerTypeOK
    <3>2. ~Behind(d, b)'
      BY <3>1 DEF Behind, NoEntry
    <3> QED
      BY <3>1, <3>2 DEF Knows, LatestCount
  <2>2. CASE d # c
    <3>1. store' = store /\ view'[d] = view[d] /\ cache'[d] = cache[d]
      BY <1>5, <1>t, <2>2 DEF RestartReconciler, TypeOK, ReconcilerTypeOK
    <3> QED
      BY <1>k, <3>1 DEF Knows, CachedStep, LatestCount, Behind
  <2> QED
    BY <2>1, <2>2
<1> QED
  BY <1>1, <1>2, <1>3, <1>4, <1>5, NextMoves

\* HandOff holds initially: the informers have just listed the objects.
LEMMA HandOffInit == Init => HandOff
<1> SUFFICES ASSUME Init PROVE HandOff
  OBVIOUS
<1>1. \A c \in Controllers, a \in AppWrappers :
         view[c][a] = store[a] /\ cache[c][a] = NoEntry
  BY DEF Init, ReconcilerInit
<1>2. \A c \in Controllers, a \in AppWrappers : ~Behind(c, a)
  BY <1>1 DEF Behind, NoEntry
<1>3. \A c \in Controllers, a \in AppWrappers : Knows(c, a)
  BY <1>1, <1>2 DEF Knows, LatestCount
<1> QED
  BY <1>3, HandOffIsKnowing

\* The controller whose turn it is knows of every transition (cache.go), for any
\* number of AppWrappers, through stale informers, conflicting updates, failed
\* calls and restarts, as long as no reply is lost and no informer lags beyond
\* cacheConflictTimeout.
THEOREM BatonIsPassed ==
    ASSUME Reliable
    PROVE  Spec => []HandOff
<1>1. Init => IInv /\ HandOff
  BY IInvInit, HandOffInit
<1>2. (IInv /\ HandOff) /\ [AnyNext]_vars => (IInv /\ HandOff)'
  BY IInvNext, HandOffNext
<1> QED
  BY <1>1, <1>2, NextIsAny, PTL DEF Spec

\* buildQueue (dispatch_logic.go:90) books every AppWrapper that holds resources if
\* the Dispatcher knows of every transition that it makes itself.
LEMMA HandOffBooks ==
    ASSUME IInv, HandOff
    PROVE  InFlightAccounted
<1> SUFFICES ASSUME NEW a \in AppWrappers,
                    store[a].ex = "live", store[a].step # "Idle"
             PROVE  a \in InFlight
  BY DEF InFlightAccounted
<1>1. DView(a).ex \in {"new", "live", "gone"}
  BY ControllersType DEF IInv, TypeOK, ReconcilerTypeOK, Object, DView
<1>2. DView(a).ex = "live"
  BY <1>1 DEF IInv, DispatcherSees
<1>3. Knows(D, a) /\ "Idle" \in OwnSteps(D)
  BY HandOffIsKnowing, ControllersType DEF OwnSteps, DispatcherSteps
<1>4. CachedStep(D, a) # "Idle"
  BY <1>3, KnowsStep, ControllersType
<1> QED
  BY <1>2, <1>4 DEF InFlight, Listed

\* Under the same assumption buildQueue (dispatch_logic.go:90) books every
\* AppWrapper that holds resources.
THEOREM ResourcesAreBooked ==
    ASSUME Reliable
    PROVE  Spec => []InFlightAccounted
<1>1. IInv /\ HandOff => InFlightAccounted
  BY HandOffBooks
<1> QED
  BY <1>1, Invariant, BatonIsPassed, PTL

-----------------------------------------------------------------------------
(***************************************************************************)
(* Statuses, and the resources that follow them.                           *)
(*                                                                         *)
(* What may happen to an AppWrapper object: every step of the system does  *)
(* to each object one of the things Evolves lists: the transitions of      *)
(* docs/state-diagram.md, the changes of finalizers and of the Queued      *)
(* condition, and what users do.  It follows that the status is always one *)
(* of the diagram's, that the Queued condition does not contradict it and  *)
(* that restarts are bounded, whatever fails.                              *)
(*                                                                         *)
(* Argument.  A write is accepted only if the object read is the object    *)
(* stored, so what a controller checked of its informer copy, however old, *)
(* is true of the object it changes.                                       *)
(***************************************************************************)

(* The inductive invariant.                                                *)

Statuses ==
    {<<"Empty", "Idle">>, <<"Queued", "Idle">>,
     <<"Running", "Dispatching">>, <<"Running", "Accepting">>,
     <<"Running", "Creating">>, <<"Running", "Created">>,
     <<"Running", "Deleting">>, <<"Running", "Deleted">>,
     <<"Succeeded", "Idle">>,
     <<"Failed", "Creating">>, <<"Failed", "Created">>,
     <<"Failed", "Deleting">>, <<"Failed", "Deleted">>, <<"Failed", "Idle">>}

\* The finalizers keep an object that is being deleted, and the Runner's is on
\* every AppWrapper that has left Empty, unless its owner has deleted it or it is
\* one of MCAD 2.2 that is yet to be converted.
FinalizersValid(o) ==
    /\ o.ex = "live" /\ o.del => o.fin # {}
    /\ o.ex = "live" /\ ~o.del /\ o.state # "Empty" /\ "legacy" \notin o.fin
          => "runner" \in o.fin

ConditionValid(o) ==
    /\ o.state = "Empty" => o.cond = "none" /\ o.restarts = 0
    /\ o.state = "Queued" => o.cond # "Dispatched"
    /\ o.state = "Queued" /\ o.restarts > 0 => o.cond # "none"
    /\ o.state \in {"Running", "Succeeded", "Failed"} => o.cond = "Dispatched"

\* An AppWrapper that is torn down to be queued again has a restart left.
RestartsValid(a, o) ==
    MaxNumRequeuings[a] > 0 =>
        /\ o.restarts <= MaxNumRequeuings[a]
        /\ o.state = "Running" /\ o.step \in {"Deleting", "Deleted"}
              => o.restarts < MaxNumRequeuings[a]

ValidObject(a, o) ==
    /\ <<o.state, o.step>> \in Statuses
    /\ o.ex = "new" => o.state = "Empty" /\ ~o.del
    /\ FinalizersValid(o)
    /\ ConditionValid(o)
    /\ RestartsValid(a, o)

\* Informer copies are objects of the past.
ObjectsValid ==
    \A a \in AppWrappers :
        /\ ValidObject(a, store[a])
        /\ \A c \in Controllers : ValidObject(a, view[c][a])

\* What the status in the informer copy is while a request takes its steps.
AddingValid ==
    adding # NoAppWrapper => DView(adding).state = "Empty" /\ ~DView(adding).del

RunnerValid ==
    /\ runner.op \in {"create", "fail"} =>
          RState(runner.aw, "Running", "Creating")
    /\ runner.op = "delete" =>
          \/ RView(runner.aw).del /\ "runner" \in RView(runner.aw).fin
          \/ RState(runner.aw, "Running", "Deleting")
          \/ RState(runner.aw, "Failed", "Deleting")

SInv == IInv /\ ObjectsValid /\ AddingValid /\ RunnerValid

-----------------------------------------------------------------------------
(* What may happen to an object.                                           *)

\* The transitions of the Dispatcher (dispatcher.go).
DispatcherTransition(o, n) ==
    \/ /\ o.state = "Empty" /\ o.step = "Idle"
       /\ "runner" \in o.fin
       /\ n = Transition(o, "Queued", "Idle")
    \/ /\ o.state = "Queued"
       /\ n = Transition([o EXCEPT !.cond = "Dispatched"], "Running", "Dispatching")
    \/ /\ o.state = "Running" /\ o.step = "Dispatching"
       /\ n = Transition(o, "Running", "Accepting")
    \/ /\ o.state = "Running" /\ o.step = "Deleted"
       /\ n = Transition(RequeuedObject(o), "Queued", "Idle")
    \/ /\ o.state = "Failed" /\ o.step = "Deleted"
       /\ n = Transition(o, "Failed", "Idle")

\* The transitions of the Runner (runner.go) that tear down nothing.
RunnerAdvance(a, o, n) ==
    /\ o.state = "Running"
    /\ \/ o.step = "Accepting" /\ n = Transition(o, "Running", "Creating")
       \/ o.step = "Creating" /\ n = Transition(o, "Running", "Created")
       \/ /\ o.step = "Created" /\ IsSuccessful(a)
          /\ n = Transition(o, "Succeeded", "Idle")

\* requeueOrFail (runner.go)
GiveUp(a, o, n) ==
    /\ o.state = "Running"
    /\ o.step \in {"Creating", "Created"}
    /\ \/ MinAvailable[a] < 0 /\ n = Transition(o, "Failed", o.step)
       \/ MinAvailable[a] >= 0 /\ n = Transition(o, "Failed", "Deleting")
       \/ /\ MinAvailable[a] >= 0
          /\ MaxNumRequeuings[a] > 0 => o.restarts < MaxNumRequeuings[a]
          /\ n = Transition(o, "Running", "Deleting")

\* The delete loop of the Runner has ended for a and found nothing.
Drained(a) ==
    /\ runner.op = "delete"
    /\ runner.aw = a
    /\ runner.next > NItems
    /\ \E listed \in ListedPods(a) : DeletionComplete(a, runner.remaining, listed)

\* The Runner reports that the resources of a are deleted.
TornDown(a, o, n) ==
    /\ Drained(a)
    /\ o.state \in {"Running", "Failed"}
    /\ o.step = "Deleting"
    /\ n = Transition(o, o.state, "Deleted")

\* A controller makes a transition out of the status in its informer copy.
Transitions(a) ==
    LET o == store[a]
        n == store'[a]
    IN  /\ o.ex = "live"
        /\ \/ SameStatus(view[D][a], o) /\ DispatcherTransition(o, n)
           \/ /\ SameStatus(view[R][a], o)
              /\ RunnerAdvance(a, o, n) \/ GiveUp(a, o, n) \/ TornDown(a, o, n)

\* A controller changes finalizers, or the reason of the Queued condition.
Edits(a) ==
    LET o == store[a]
        n == store'[a]
    IN  /\ o.ex = "live"
        /\ \/ ~o.del /\ o.state = "Empty" /\ n = WithFinalizers(o)
           \/ /\ ~o.del /\ "legacy" \in o.fin
              /\ n = [o EXCEPT !.fin =
                         (@ \cup {"dispatcher", "runner"}) \ {"legacy"}]
           \/ /\ o.del /\ "runner" \notin o.fin
              /\ n = Stored([o EXCEPT !.fin = @ \ {"dispatcher"}])
           \/ /\ o.del /\ RView(a) = o /\ Drained(a)
              /\ n = Stored([o EXCEPT !.fin = @ \ {"runner"}])
           \/ /\ o.state = "Queued"
              /\ \E reason \in {"InsufficientResources", "InsufficientQuota"} :
                    n = [o EXCEPT !.cond = reason]

\* A user creates or deletes the AppWrapper.
Owned(a) ==
    LET o == store[a]
        n == store'[a]
    IN  \/ o.ex = "new" /\ n = [o EXCEPT !.ex = "live"]
        \/ o.ex = "live" /\ n = Stored([o EXCEPT !.del = TRUE])

Evolves(a) ==
    \/ store'[a] = store[a]
    \/ Owned(a)
    \/ Edits(a)
    \/ Transitions(a)

-----------------------------------------------------------------------------
(* Every step is one of these.                                             *)

\* An update changes the object that was read, or nothing (resourceVersion).
LEMMA UpdateEvolves ==
    ASSUME TypeOK, NEW a \in AppWrappers, NEW read, NEW new, NEW r,
           Update(a, read, new, r),
           read = store[a] /\ store'[a] = Stored(new) => Evolves(a)
    PROVE  \A b \in AppWrappers : Evolves(b)
<1>1. CASE Accepted(a, read, r)
  <2>1. store'[a] = Stored(new) /\ \A b \in AppWrappers \ {a} : store'[b] = store[b]
    BY <1>1 DEF Update, TypeOK, ReconcilerTypeOK
  <2>2. Evolves(a)
    BY <1>1, <2>1 DEF Accepted
  <2>3. \A b \in AppWrappers \ {a} : Evolves(b)
    BY <2>1 DEF Evolves
  <2> QED
    BY <2>2, <2>3
<1>2. CASE ~Accepted(a, read, r)
  BY <1>2 DEF Update, Evolves
<1> QED
  BY <1>1, <1>2

\* What the Dispatcher does to objects (dispatcher.go).
LEMMA DispatcherEvolves ==
    ASSUME SInv, DStep
    PROVE  \A b \in AppWrappers : Evolves(b)
<1> DEFINE Goal == \A b \in AppWrappers : Evolves(b)
<1> USE ControllersType DEF SInv, IInv
<1>0. \A a \in AppWrappers : /\ DView(a) \in Object /\ view[D][a] = DView(a)
                             /\ store[a] \in Object
                             /\ FinalizersValid(store[a])
  BY DEF DView, TypeOK, ReconcilerTypeOK, ObjectsValid, ValidObject
<1>a. \A o \in Object : SameStatus(o, o)
  BY DEF SameStatus
<1>b. UNCHANGED store => Goal
  BY DEF Evolves
<1>1. ASSUME NEW a \in AppWrappers,
             DMissing(a) \/ DStale(a) \/ DAwaitRunner(a) \/ DNothing(a)
      PROVE  Goal
  BY <1>1, <1>b DEF DMissing, DStale, AbortStale, DAwaitRunner, DNothing
<1>2. ASSUME NEW a \in AppWrappers, NEW r \in Outcomes, DFinalize(a, r) PROVE Goal
  <2> DEFINE new == [DView(a) EXCEPT !.fin = @ \ {"dispatcher"}]
  <2>1. DView(a).ex = "live" /\ DView(a).del /\ "runner" \notin DView(a).fin
    BY <1>0, <1>2 DEF DFinalize, DReconciling, Reconciling
  <2>2. DView(a) = store[a] /\ store'[a] = Stored(new) => Evolves(a)
    BY <2>1 DEF Evolves, Edits
  <2>3. UNCHANGED store \/ Update(a, DView(a), new, r)
    BY <1>2 DEF DFinalize
  <2> HIDE DEF new
  <2> QED
    BY <1>b, <2>2, <2>3, UpdateEvolves
<1>3. ASSUME NEW a \in AppWrappers, NEW r \in Outcomes, DAddFinalizers(a, r)
      PROVE Goal
  <2> DEFINE new == WithFinalizers(DView(a))
  <2>1. DView(a).ex = "live" /\ ~DView(a).del /\ DView(a).state = "Empty"
    BY <1>0, <1>3 DEF DAddFinalizers, DReconciling, Reconciling, DState
  <2>2. Stored(new) = new
    BY <1>0, <2>1, StoredAsSent DEF WithFinalizers, Object
  <2>3. DView(a) = store[a] /\ store'[a] = Stored(new) => Evolves(a)
    BY <2>1, <2>2 DEF Evolves, Edits
  <2>4. UNCHANGED store \/ Update(a, DView(a), new, r)
    BY <1>3 DEF DAddFinalizers
  <2> HIDE DEF new
  <2> QED
    BY <1>b, <2>3, <2>4, UpdateEvolves
<1>4. ASSUME NEW r \in Outcomes, DQueueNew(r) PROVE Goal
  <2> DEFINE a    == adding
             read == WithFinalizers(DView(a))
             new  == Transition(read, "Queued", "Idle")
  <2>1. a \in AppWrappers /\ a # NoAppWrapper
    BY <1>4 DEF DQueueNew, TypeOK, DispatcherTypeOK
  <2>2. /\ DView(a).ex = "live" /\ DView(a).state = "Empty"
        /\ DView(a).step = "Idle" /\ ~DView(a).del
    BY <2>1 DEF DispatcherBusy, AddingValid
  <2>3. /\ read \in Object /\ SameStatus(DView(a), read) /\ read.ex = "live"
        /\ read.state = "Empty" /\ read.step = "Idle" /\ ~read.del
        /\ "runner" \in read.fin
    <3>1. DView(a) \in Object
      BY <1>0, <2>1
    <3>2. read \in Object
      BY <3>1, ChangedObjectType
    <3>3. read = [DView(a) EXCEPT !.fin = @ \cup {"dispatcher", "runner"}]
      BY McadAssumption DEF WithFinalizers
    <3> QED
      BY <2>2, <3>1, <3>2, <3>3 DEF Object, SameStatus
  <2>4. Update(a, read, new, r)
    BY <1>4 DEF DQueueNew, UpdateStatus
  <2> HIDE DEF read
  <2>5. Stored(new) = new
    BY <2>3, TransitionKeeps, StoredAsSent
  <2>6. read = store[a] /\ store'[a] = Stored(new) => Evolves(a)
    BY <1>0, <2>1, <2>3, <2>5 DEF Evolves, Transitions, DispatcherTransition
  <2> HIDE DEF new, a
  <2> QED
    BY <2>1, <2>4, <2>6, UpdateEvolves
<1>5. ASSUME NEW a \in AppWrappers, NEW r \in Outcomes, DQueued(a, r) PROVE Goal
  <2> DEFINE new == [DView(a) EXCEPT !.cond = decisions[a]]
  <2>1. DView(a).ex = "live" /\ ~DView(a).del /\ DView(a).state = "Queued"
    BY <1>0, <1>5 DEF DQueued, DReconciling, Reconciling, DState
  <2>2. Stored(new) = new
    BY <1>0, <2>1, StoredAsSent DEF Object
  <2>3. decisions[a] \in {"none", "InsufficientResources", "InsufficientQuota"}
    BY DEF TypeOK, DispatcherTypeOK, QueuingDecision
  <2>4. DView(a) = store[a] /\ store'[a] = Stored(new) /\ decisions[a] # "none"
           => Evolves(a)
    BY <2>1, <2>2, <2>3 DEF Evolves, Edits
  <2>5. \/ UNCHANGED store
        \/ Update(a, DView(a), new, r) /\ decisions[a] # "none"
    BY <1>5 DEF DQueued
  <2> HIDE DEF new
  <2> QED
    BY <1>b, <2>4, <2>5, UpdateEvolves
<1>6. ASSUME NEW a \in AppWrappers, NEW r \in Outcomes, DHandOver(a, r) PROVE Goal
  <2> DEFINE new == Transition(DView(a), "Running", "Accepting")
  <2>1. /\ DView(a).ex = "live" /\ ~DView(a).del
        /\ DView(a).state = "Running" /\ DView(a).step = "Dispatching"
    BY <1>0, <1>6 DEF DHandOver, DReconciling, Reconciling, DState
  <2>2. Update(a, DView(a), new, r)
    BY <1>6 DEF DHandOver, UpdateStatus
  <2>3. Stored(new) = new
    BY <1>0, <2>1, TransitionKeeps, StoredAsSent
  <2>4. DView(a) = store[a] /\ store'[a] = Stored(new) => Evolves(a)
    BY <1>0, <1>a, <2>1, <2>3 DEF Evolves, Transitions, DispatcherTransition
  <2> HIDE DEF new
  <2> QED
    BY <2>2, <2>4, UpdateEvolves
<1>7. ASSUME NEW a \in AppWrappers, NEW r \in Outcomes, DRequeue(a, r) PROVE Goal
  <2> DEFINE o   == RequeuedObject(DView(a))
             new == Transition(o, "Queued", "Idle")
  <2>1. /\ DView(a).ex = "live" /\ ~DView(a).del
        /\ DView(a).state = "Running" /\ DView(a).step = "Deleted"
    BY <1>0, <1>7 DEF DRequeue, DReconciling, Reconciling, DState
  <2>2. Update(a, DView(a), new, r)
    BY <1>7 DEF DRequeue, UpdateStatus
  <2>3. o \in Object /\ ~o.del
    BY <1>0, <2>1, ChangedObjectType DEF RequeuedObject, Object
  <2>4. Stored(new) = new
    BY <2>3, TransitionKeeps, StoredAsSent
  <2>5. DView(a) = store[a] /\ store'[a] = Stored(new) => Evolves(a)
    BY <1>0, <1>a, <2>1, <2>4 DEF Evolves, Transitions, DispatcherTransition
  <2> HIDE DEF new
  <2> QED
    BY <2>2, <2>5, UpdateEvolves
<1>8. ASSUME NEW a \in AppWrappers, NEW r \in Outcomes, DFailed(a, r) PROVE Goal
  <2> DEFINE new == Transition(DView(a), "Failed", "Idle")
  <2>1. /\ DView(a).ex = "live" /\ ~DView(a).del
        /\ DView(a).state = "Failed" /\ DView(a).step = "Deleted"
    BY <1>0, <1>8 DEF DFailed, DReconciling, Reconciling, DState
  <2>2. Update(a, DView(a), new, r)
    BY <1>8 DEF DFailed, UpdateStatus
  <2>3. Stored(new) = new
    BY <1>0, <2>1, TransitionKeeps, StoredAsSent
  <2>4. DView(a) = store[a] /\ store'[a] = Stored(new) => Evolves(a)
    BY <1>0, <1>a, <2>1, <2>3 DEF Evolves, Transitions, DispatcherTransition
  <2> HIDE DEF new
  <2> QED
    BY <2>2, <2>4, UpdateEvolves
<1>9. ASSUME NEW paused, NEW quota, DSelect(paused, Capacity, quota) PROVE Goal
  BY <1>9, <1>b DEF DSelect, reconcilerVars
<1>10. ASSUME DAbort PROVE Goal
  BY <1>10, <1>b DEF DAbort
<1>11. ASSUME NEW r \in Outcomes, DDispatch(r) PROVE Goal
  <2>1. PICK a \in todo :
           /\ ~NotDispatchable(a)
           /\ UpdateStatus(D, a, DView(a),
                           [DView(a) EXCEPT !.cond = "Dispatched"],
                           "Running", "Dispatching", r)
    BY <1>11 DEF DDispatch
  <2> DEFINE o   == [DView(a) EXCEPT !.cond = "Dispatched"]
             new == Transition(o, "Running", "Dispatching")
  <2>2. a \in AppWrappers /\ DView(a).ex = "live" /\ DView(a).state = "Queued"
    BY <2>1 DEF TypeOK, DispatcherTypeOK, DispatcherBusy, NotDispatchable
  <2>3. Update(a, DView(a), new, r)
    BY <2>1 DEF UpdateStatus
  <2>4. o \in Object /\ o.del = DView(a).del /\ o.fin = DView(a).fin
    BY <1>0, <2>2 DEF Object, Reasons
  <2>5. DView(a) = store[a] => Stored(new) = new
    BY <1>0, <2>2, <2>4, TransitionKeeps, StoredAsSent DEF FinalizersValid, Object
  <2>6. DView(a) = store[a] /\ store'[a] = Stored(new) => Evolves(a)
    BY <1>0, <1>a, <2>2, <2>5 DEF Evolves, Transitions, DispatcherTransition
  <2> HIDE DEF new
  <2> QED
    BY <2>2, <2>3, <2>6, UpdateEvolves
<1> QED
  BY <1>1, <1>2, <1>3, <1>4, <1>5, <1>6, <1>7, <1>8, <1>9, <1>10, <1>11
     DEF DStep, DispatcherStep, DRequestStep, DReconcile

\* requeueOrFail (runner.go), on an AppWrapper that is being created or created.
LEMMA RequeueOrFailEvolves ==
    ASSUME SInv, NEW a \in AppWrappers, NEW fatal, NEW r \in Outcomes,
           RequeueOrFail(a, fatal, r), RView(a).ex = "live", ~RView(a).del,
           RView(a).state = "Running", RView(a).step \in {"Creating", "Created"}
    PROVE  \A b \in AppWrappers : Evolves(b)
<1> USE ControllersType DEF SInv, IInv
<1>1. RView(a) \in Object /\ view[R][a] = RView(a) /\ SameStatus(RView(a), RView(a))
  BY DEF RView, TypeOK, ReconcilerTypeOK, SameStatus
<1> DEFINE status == RequeueOrFailStatus(a, fatal)
           new    == Transition(RView(a), status[1], status[2])
<1>2. Update(a, RView(a), new, r)
  BY DEF RequeueOrFail, UpdateStatus
<1>3. Stored(new) = new
  BY <1>1, TransitionKeeps, StoredAsSent
<1>4. MinAvailable[a] \in Int /\ MaxNumRequeuings[a] \in Nat /\ RView(a).restarts \in Nat
  BY <1>1, ResourceAssumption, MaxNumRequeuingsAssumption DEF Object
<1>5. GiveUp(a, RView(a), new)
  <2>1. CASE MinAvailable[a] < 0
    BY <2>1 DEF GiveUp, RequeueOrFailStatus
  <2>2. CASE MinAvailable[a] >= 0 /\ (fatal \/ RestartsExhausted(a))
    <3>1. status = <<"Failed", "Deleting">>
      BY <1>4, <2>2 DEF RequeueOrFailStatus, TeardownStatus
    <3> QED
      BY <2>2, <3>1 DEF GiveUp
  <2>3. CASE MinAvailable[a] >= 0 /\ ~(fatal \/ RestartsExhausted(a))
    <3>1. status = <<"Running", "Deleting">>
      BY <1>4, <2>3 DEF RequeueOrFailStatus, TeardownStatus
    <3> QED
      BY <1>4, <2>3, <3>1 DEF GiveUp, RestartsExhausted
  <2> QED
    BY <1>4, <2>1, <2>2, <2>3
<1>6. RView(a) = store[a] /\ store'[a] = Stored(new) => Evolves(a)
  BY <1>1, <1>3, <1>5 DEF Evolves, Transitions
<1> HIDE DEF new
<1> QED
  BY <1>2, <1>6, UpdateEvolves

\* What the Runner does to objects (runner.go).
LEMMA RunnerEvolves ==
    ASSUME SInv, RunnerStep
    PROVE  \A b \in AppWrappers : Evolves(b)
<1> DEFINE Goal == \A b \in AppWrappers : Evolves(b)
<1> USE ControllersType DEF SInv, IInv
<1>0. \A a \in AppWrappers : RView(a) \in Object /\ view[R][a] = RView(a)
  BY DEF RView, TypeOK, ReconcilerTypeOK
<1>a. \A o \in Object : SameStatus(o, o)
  BY DEF SameStatus
<1>b. UNCHANGED store => Goal
  BY DEF Evolves
<1>c. runner.op # "idle" => runner.aw \in AppWrappers
  BY DEF TypeOK, RunnerTypeOK, RunnerState
<1>1. ASSUME NEW a \in AppWrappers,
             \/ RMissing(a) \/ RStale(a) \/ RForget(a) \/ RCreate(a)
             \/ RHealthy(a) \/ RDelete(a) \/ RNothing(a)
      PROVE  Goal
  BY <1>1, <1>b DEF RMissing, RStale, AbortStale, RForget, RCreate, RHealthy,
                    RDelete, RNothing
<1>2. ASSUME NEW a \in AppWrappers, NEW r \in Outcomes, RConvert(a, r) PROVE Goal
  <2> DEFINE new == [RView(a) EXCEPT !.fin =
                        (@ \cup {"dispatcher", "runner"}) \ {"legacy"}]
  <2>1. RView(a).ex = "live" /\ ~RView(a).del /\ "legacy" \in RView(a).fin
    BY <1>0, <1>2 DEF RConvert, RReconciling, Reconciling
  <2>2. Stored(new) = new
    BY <1>0, <2>1, StoredAsSent DEF Object
  <2>3. RView(a) = store[a] /\ store'[a] = Stored(new) => Evolves(a)
    BY <2>1, <2>2 DEF Evolves, Edits
  <2>4. Update(a, RView(a), new, r)
    BY <1>2 DEF RConvert
  <2> HIDE DEF new
  <2> QED
    BY <2>3, <2>4, UpdateEvolves
<1>3. ASSUME NEW a \in AppWrappers, NEW r \in Outcomes, RAccept(a, r) PROVE Goal
  <2> DEFINE new == Transition(RView(a), "Running", "Creating")
  <2>1. /\ RView(a).ex = "live" /\ ~RView(a).del
        /\ RView(a).state = "Running" /\ RView(a).step = "Accepting"
    BY <1>0, <1>3 DEF RAccept, RReconciling, Reconciling, RState
  <2>2. Update(a, RView(a), new, r)
    BY <1>3 DEF RAccept, UpdateStatus
  <2>3. Stored(new) = new
    BY <1>0, <2>1, TransitionKeeps, StoredAsSent
  <2>4. RView(a) = store[a] /\ store'[a] = Stored(new) => Evolves(a)
    BY <1>0, <1>a, <2>1, <2>3 DEF Evolves, Transitions, RunnerAdvance
  <2> HIDE DEF new
  <2> QED
    BY <2>2, <2>4, UpdateEvolves
<1>4. ASSUME NEW a \in AppWrappers, NEW r \in Outcomes, RSucceed(a, r) PROVE Goal
  <2> DEFINE new == Transition(RView(a), "Succeeded", "Idle")
  <2>1. /\ RView(a).ex = "live" /\ ~RView(a).del
        /\ RView(a).state = "Running" /\ RView(a).step = "Created"
        /\ IsSuccessful(a)
    BY <1>0, <1>4 DEF RSucceed, RReconciling, Reconciling, RState
  <2>2. Update(a, RView(a), new, r)
    BY <1>4 DEF RSucceed, UpdateStatus
  <2>3. Stored(new) = new
    BY <1>0, <2>1, TransitionKeeps, StoredAsSent
  <2>4. RView(a) = store[a] /\ store'[a] = Stored(new) => Evolves(a)
    BY <1>0, <1>a, <2>1, <2>3 DEF Evolves, Transitions, RunnerAdvance
  <2> HIDE DEF new
  <2> QED
    BY <2>2, <2>4, UpdateEvolves
<1>5. ASSUME NEW a \in AppWrappers, NEW r \in Outcomes, RUnhealthy(a, r) PROVE Goal
  <2>1. /\ RView(a).ex = "live" /\ ~RView(a).del
        /\ RView(a).state = "Running" /\ RView(a).step = "Created"
    BY <1>0, <1>5 DEF RUnhealthy, RReconciling, Reconciling, RState
  <2>2. RequeueOrFail(a, FALSE, r)
    BY <1>5 DEF RUnhealthy
  <2> QED
    BY <2>1, <2>2, RequeueOrFailEvolves
<1>6. ASSUME RCreateItem \/ RDeleteItem PROVE Goal
  BY <1>6, <1>b DEF RCreateItem, RDeleteItem, reconcilerVars
<1>7. ASSUME NEW force, RDeleteAgain(force) PROVE Goal
  BY <1>7, <1>b DEF RDeleteAgain
<1>8. ASSUME NEW r \in Outcomes, RCreated(r) PROVE Goal
  <2> DEFINE a   == runner.aw
             new == Transition(RView(a), "Running", "Created")
  <2>1. runner.op = "create" /\ a \in AppWrappers
    BY <1>8, <1>c DEF RCreated
  <2>2. /\ RView(a).ex = "live" /\ ~RView(a).del
        /\ RView(a).state = "Running" /\ RView(a).step = "Creating"
    BY <2>1 DEF RunnerBusy, RunnerValid, RState
  <2>3. Update(a, RView(a), new, r)
    BY <1>8 DEF RCreated, UpdateStatus
  <2>4. Stored(new) = new
    BY <1>0, <2>1, <2>2, TransitionKeeps, StoredAsSent
  <2>5. RView(a) = store[a] /\ store'[a] = Stored(new) => Evolves(a)
    BY <1>0, <1>a, <2>1, <2>2, <2>4 DEF Evolves, Transitions, RunnerAdvance
  <2> HIDE DEF new, a
  <2> QED
    BY <2>1, <2>3, <2>5, UpdateEvolves
<1>9. ASSUME NEW r \in Outcomes, RCreateFailed(r) PROVE Goal
  <2> DEFINE a == runner.aw
  <2>1. runner.op = "fail" /\ a \in AppWrappers
    BY <1>9, <1>c DEF RCreateFailed
  <2>2. /\ RView(a).ex = "live" /\ ~RView(a).del
        /\ RView(a).state = "Running" /\ RView(a).step = "Creating"
    BY <2>1 DEF RunnerBusy, RunnerValid, RState
  <2>3. RequeueOrFail(a, runner.fatal, r)
    BY <1>9 DEF RCreateFailed
  <2> QED
    BY <2>1, <2>2, <2>3, RequeueOrFailEvolves
<1>10. ASSUME NEW r \in Outcomes, RDeleted(r) PROVE Goal
  <2> DEFINE a == runner.aw
  <2>1. Drained(a) /\ a \in AppWrappers /\ runner.op = "delete"
    BY <1>10, <1>c DEF RDeleted, Drained
  <2>2. RView(a).ex = "live"
    BY <2>1 DEF RunnerBusy
  <2>3. CASE RView(a).del
    <3> DEFINE new == [RView(a) EXCEPT !.fin = @ \ {"runner"}]
    <3>1. Update(a, RView(a), new, r)
      BY <1>10, <2>3 DEF RDeleted
    <3>2. RView(a) = store[a] /\ store'[a] = Stored(new) => Evolves(a)
      BY <2>1, <2>2, <2>3 DEF Evolves, Edits
    <3> HIDE DEF new, a
    <3> QED
      BY <2>1, <3>1, <3>2, UpdateEvolves
  <2>4. CASE ~RView(a).del
    <3> DEFINE new == Transition(RView(a), RView(a).state, "Deleted")
    <3>1. RView(a).state \in {"Running", "Failed"} /\ RView(a).step = "Deleting"
      BY <2>1, <2>4 DEF RunnerValid, RState
    <3>2. Update(a, RView(a), new, r)
      BY <1>10, <2>4 DEF RDeleted, UpdateStatus
    <3>3. Stored(new) = new
      BY <1>0, <2>1, <2>4, TransitionKeeps, StoredAsSent
    <3>4. RView(a) = store[a] /\ store'[a] = Stored(new) => Evolves(a)
      BY <1>0, <1>a, <2>1, <2>2, <3>1, <3>3 DEF Evolves, Transitions, TornDown
    <3> HIDE DEF new, a
    <3> QED
      BY <2>1, <3>2, <3>4, UpdateEvolves
  <2> QED
    BY <2>3, <2>4
<1> QED
  BY <1>1, <1>2, <1>3, <1>4, <1>5, <1>6, <1>7, <1>8, <1>9, <1>10
     DEF RunnerStep, RReconcile

\* Whatever happens in the system, this is what happens to its objects.
LEMMA NextEvolves ==
    ASSUME SInv, [AnyNext]_vars
    PROVE  \A b \in AppWrappers : Evolves(b)
<1>0. UNCHANGED store => \A b \in AppWrappers : Evolves(b)
  BY DEF Evolves
<1>1. CASE UserStep
  <2>1. ASSUME NEW a \in AppWrappers, Create(a)
        PROVE  \A b \in AppWrappers : Evolves(b)
    BY <2>1 DEF Create, Evolves, Owned, SInv, IInv, TypeOK, ReconcilerTypeOK
  <2>2. ASSUME NEW a \in AppWrappers, Delete(a)
        PROVE  \A b \in AppWrappers : Evolves(b)
    BY <2>2 DEF Delete, Evolves, Owned, SInv, IInv, TypeOK, ReconcilerTypeOK
  <2> QED
    BY <1>1, <2>1, <2>2, DeploymentAssumption DEF UserStep
<1>2. CASE \E c \in Controllers, a \in AppWrappers : Informer(c, a)
  BY <1>0, <1>2 DEF Informer, Sync
<1>3. CASE DStep
  BY <1>3, DispatcherEvolves
<1>4. CASE RunnerStep
  BY <1>4, RunnerEvolves
<1>5. CASE \E a \in AppWrappers : Cluster(a)
  BY <1>0, <1>5 DEF Cluster, ItemGone, ItemComplete, PodCreated, PodPhase,
                    PodEvicted, PodSync, PodGone, reconcilerVars
<1>6. CASE \E c \in Restartable : Restart(c)
  BY <1>0, <1>6 DEF Restart, DispatcherRestart, RunnerRestart, RestartReconciler
<1>7. CASE UNCHANGED vars
  BY <1>0, <1>7 DEF vars, reconcilerVars
<1> QED
  BY <1>1, <1>2, <1>3, <1>4, <1>5, <1>6, <1>7 DEF AnyNext

-----------------------------------------------------------------------------
(* Objects stay valid.                                                     *)

\* A transition leaves the object there, with its finalizers.
LEMMA TransitionsKeep ==
    ASSUME NEW a \in AppWrappers, store[a] \in Object, Transitions(a)
    PROVE  /\ store[a].ex = "live" /\ store'[a].ex = "live"
           /\ store'[a].del = store[a].del
           /\ store'[a].fin = store[a].fin
           /\ store'[a].tc = store[a].tc + 1
           /\ \/ store'[a].restarts = store[a].restarts
              \/ store[a].state = "Running" /\ store[a].step = "Deleted"
<1> DEFINE o == store[a]
           n == store'[a]
<1>1. o.ex = "live"
  BY DEF Transitions
<1>2. CASE \E state, step : n = Transition(o, state, step)
  BY <1>1, <1>2, TransitionKeeps
<1>3. CASE n = Transition([o EXCEPT !.cond = "Dispatched"], "Running", "Dispatching")
  BY <1>1, <1>3 DEF Transition, Object
<1>4. CASE /\ n = Transition(RequeuedObject(o), "Queued", "Idle")
           /\ o.state = "Running" /\ o.step = "Deleted"
  BY <1>1, <1>4 DEF Transition, RequeuedObject, Object
<1> QED
  BY <1>2, <1>3, <1>4
     DEF Transitions, DispatcherTransition, RunnerAdvance, GiveUp, TornDown

\* Changing the finalizers or the Queued condition leaves the status alone.
LEMMA EditsKeep ==
    ASSUME NEW a \in AppWrappers, store[a] \in Object, Edits(a)
    PROVE  /\ SameStatus(store'[a], store[a])
           /\ store'[a].restarts = store[a].restarts
           /\ \/ store'[a].cond = store[a].cond
              \/ /\ store[a].state = "Queued"
                 /\ store'[a].cond \notin {"none", "Dispatched"}
<1> DEFINE o == store[a]
           n == store'[a]
<1>1. CASE \E reason \in {"InsufficientResources", "InsufficientQuota"} :
              n = [o EXCEPT !.cond = reason] /\ o.state = "Queued"
  BY <1>1 DEF Object, SameStatus
<1>2. CASE n = WithFinalizers(o)
  BY <1>2 DEF WithFinalizers, Object, SameStatus
<1>3. CASE n = [o EXCEPT !.fin = (@ \cup {"dispatcher", "runner"}) \ {"legacy"}]
  BY <1>3 DEF Object, SameStatus
<1>4. CASE \E f \in {"dispatcher", "runner"} : n = Stored([o EXCEPT !.fin = @ \ {f}])
  BY <1>4 DEF Stored, Object, SameStatus
<1> QED
  BY <1>1, <1>2, <1>3, <1>4 DEF Edits

\* Nor do users change the status.
LEMMA OwnedKeeps ==
    ASSUME NEW a \in AppWrappers, store[a] \in Object, Owned(a)
    PROVE  /\ SameStatus(store'[a], store[a])
           /\ store'[a].restarts = store[a].restarts
           /\ store'[a].cond = store[a].cond
           /\ store'[a].fin = store[a].fin
BY DEF Owned, Stored, Object, SameStatus

\* What may happen to a valid object leaves it valid.
LEMMA EvolvesValid ==
    ASSUME NEW a \in AppWrappers, store[a] \in Object, ValidObject(a, store[a]),
           Evolves(a)
    PROVE  ValidObject(a, store'[a])
<1> DEFINE o == store[a]
           n == store'[a]
<1>0. o.restarts \in Nat /\ MaxNumRequeuings[a] \in Nat
  BY MaxNumRequeuingsAssumption DEF Object
<1>1. CASE Owned(a)
  <2>1. /\ n.state = o.state /\ n.step = o.step /\ n.cond = o.cond
        /\ n.restarts = o.restarts
    BY <1>1, OwnedKeeps DEF SameStatus
  <2>2. FinalizersValid(n) /\ n.ex # "new"
    <3>1. CASE o.ex = "new" /\ n = [o EXCEPT !.ex = "live"]
      <4>1. o.state = "Empty" /\ n.state = "Empty" /\ n.ex = "live"
            /\ ~n.del
        BY <3>1 DEF ValidObject, Object
      <4> QED
        BY <4>1 DEF FinalizersValid
    <3>2. CASE o.ex = "live" /\ n = Stored([o EXCEPT !.del = TRUE])
      BY <3>2 DEF Stored, FinalizersValid, Object
    <3> QED
      BY <1>1, <3>1, <3>2 DEF Owned
  <2> QED
    BY <2>1, <2>2 DEF ValidObject, ConditionValid, RestartsValid
<1>2. CASE Edits(a)
  <2>1. /\ n.state = o.state /\ n.step = o.step /\ n.restarts = o.restarts
        /\ \/ n.cond = o.cond
           \/ o.state = "Queued" /\ n.cond \notin {"none", "Dispatched"}
    BY <1>2, EditsKeep DEF SameStatus
  <2>2. FinalizersValid(n) /\ n.ex # "new"
    <3>1. CASE n = WithFinalizers(o) /\ ~o.del /\ o.ex = "live"
      BY <3>1, McadAssumption DEF WithFinalizers, FinalizersValid, Object
    <3>2. CASE /\ n = [o EXCEPT !.fin =
                         (@ \cup {"dispatcher", "runner"}) \ {"legacy"}]
               /\ ~o.del /\ o.ex = "live"
      BY <3>2 DEF FinalizersValid, Object
    <3>3. CASE /\ \E f \in {"dispatcher", "runner"} :
                     n = Stored([o EXCEPT !.fin = @ \ {f}])
               /\ o.del /\ o.ex = "live"
      BY <3>3 DEF Stored, FinalizersValid, Object
    <3>4. CASE \E reason : n = [o EXCEPT !.cond = reason] /\ o.ex = "live"
      BY <3>4 DEF ValidObject, FinalizersValid, Object
    <3> QED
      BY <1>2, <3>1, <3>2, <3>3, <3>4 DEF Edits
  <2> QED
    BY <2>1, <2>2 DEF ValidObject, ConditionValid, RestartsValid
<1>3. CASE Transitions(a)
  <2>1. n.ex = "live" /\ n.del = o.del /\ n.fin = o.fin /\ o.ex = "live"
    BY <1>3, TransitionsKeep
  <2>2. ASSUME DispatcherTransition(o, n)
        PROVE  ValidObject(a, n)
    <3>1. CASE /\ o.state = "Empty" /\ "runner" \in o.fin
               /\ n = Transition(o, "Queued", "Idle")
      BY <1>0, <2>1, <3>1, TransitionKeeps
         DEF ValidObject, Statuses, FinalizersValid, ConditionValid, RestartsValid
    <3>2. CASE /\ o.state = "Queued"
               /\ n = Transition([o EXCEPT !.cond = "Dispatched"], "Running",
                                 "Dispatching")
      <4>1. /\ n.state = "Running" /\ n.step = "Dispatching"
            /\ n.cond = "Dispatched" /\ n.restarts = o.restarts
        BY <3>2 DEF Transition, Object
      <4> QED
        BY <1>0, <2>1, <3>2, <4>1
           DEF ValidObject, Statuses, FinalizersValid, ConditionValid, RestartsValid
    <3>3. CASE /\ o.state = "Running"
               /\ n = Transition(o, "Running", "Accepting")
      BY <1>0, <2>1, <3>3, TransitionKeeps
         DEF ValidObject, Statuses, FinalizersValid, ConditionValid, RestartsValid
    <3>4. CASE /\ o.state = "Running" /\ o.step = "Deleted"
               /\ n = Transition(RequeuedObject(o), "Queued", "Idle")
      <4>1. /\ n.state = "Queued" /\ n.step = "Idle"
            /\ n.cond = "Requeued" /\ n.restarts = o.restarts + 1
        BY <3>4 DEF Transition, RequeuedObject, Object
      <4> QED
        BY <1>0, <2>1, <3>4, <4>1
           DEF ValidObject, Statuses, FinalizersValid, ConditionValid, RestartsValid
    <3>5. CASE /\ o.state = "Failed"
               /\ n = Transition(o, "Failed", "Idle")
      BY <1>0, <2>1, <3>5, TransitionKeeps
         DEF ValidObject, Statuses, FinalizersValid, ConditionValid, RestartsValid
    <3> QED
      BY <2>2, <3>1, <3>2, <3>3, <3>4, <3>5 DEF DispatcherTransition
  <2>3. ASSUME RunnerAdvance(a, o, n)
        PROVE  ValidObject(a, n)
    BY <1>0, <2>1, <2>3, TransitionKeeps
       DEF RunnerAdvance, ValidObject, Statuses, FinalizersValid, ConditionValid,
           RestartsValid
  <2>4. ASSUME GiveUp(a, o, n)
        PROVE  ValidObject(a, n)
    BY <1>0, <2>1, <2>4, TransitionKeeps
       DEF GiveUp, ValidObject, Statuses, FinalizersValid, ConditionValid,
           RestartsValid
  <2>5. ASSUME TornDown(a, o, n)
        PROVE  ValidObject(a, n)
    BY <1>0, <2>1, <2>5, TransitionKeeps
       DEF TornDown, ValidObject, Statuses, FinalizersValid, ConditionValid,
           RestartsValid
  <2> QED
    BY <1>3, <2>2, <2>3, <2>4, <2>5 DEF Transitions
<1> QED
  BY <1>1, <1>2, <1>3 DEF Evolves

\* An informer copy is replaced by the object, and by nothing else; meanwhile
\* the objects do not change.
LEMMA ViewNext ==
    ASSUME IInv, [AnyNext]_vars, NEW c \in Controllers, NEW a \in AppWrappers
    PROVE  \/ view'[c][a] = view[c][a]
           \/ view'[c][a] = store[a] /\ store' = store
<1> USE DEF IInv
<1>1. ASSUME NEW d \in Controllers, NEW b \in AppWrappers, Sync(d, b)
      PROVE  view'[c][a] = view[c][a] \/ (view'[c][a] = store[a] /\ store' = store)
  BY <1>1 DEF Sync, TypeOK, ReconcilerTypeOK
<1>2. ASSUME NEW d \in Controllers, RestartReconciler(d)
      PROVE  view'[c][a] = view[c][a] \/ (view'[c][a] = store[a] /\ store' = store)
  BY <1>2 DEF RestartReconciler, TypeOK, ReconcilerTypeOK
<1> QED
  BY <1>1, <1>2, NextMoves DEF Calm, Writes, UserWrites

\* Every step preserves ObjectsValid.
LEMMA ObjectsValidNext ==
    ASSUME SInv, [AnyNext]_vars
    PROVE  ObjectsValid'
<1>1. \A a \in AppWrappers : ValidObject(a, store'[a])
  BY EvolvesValid, NextEvolves DEF SInv, IInv, ObjectsValid, TypeOK, ReconcilerTypeOK
<1>2. \A c \in Controllers, a \in AppWrappers : ValidObject(a, view'[c][a])
  BY ViewNext DEF SInv, ObjectsValid
<1> QED
  BY <1>1, <1>2, ZenonT(40)
     DEF ObjectsValid, ValidObject, FinalizersValid, ConditionValid,
         RestartsValid

-----------------------------------------------------------------------------
(* What the workers read stays read.                                       *)

\* While the Dispatcher is adding an AppWrapper its informer copies stay.
LEMMA AddingKept ==
    ASSUME IInv, [AnyNext]_vars, adding' # NoAppWrapper, NEW a \in AppWrappers
    PROVE  \/ DStep /\ view' = view
           \/ adding' = adding /\ view'[D][a] = view[D][a]
<1> USE ControllersType DEF IInv
<1>0. D # R
  BY DEF D, R
<1>1. CASE UserStep
  BY <1>1 DEF UserStep, Create, Delete, dispatcherVars
<1>2. ASSUME NEW c \in Controllers, NEW b \in AppWrappers, Informer(c, b)
      PROVE  adding' = adding /\ view'[D][a] = view[D][a]
  <2>1. adding' = adding /\ c # D
    BY <1>2 DEF Informer, Idling, DispatcherIdle, dispatcherVars
  <2> QED
    BY <1>2, <2>1 DEF Informer, Sync, TypeOK, ReconcilerTypeOK
<1>3. CASE DStep
  BY <1>3, DispatcherMoves DEF Calm, Writes
<1>4. CASE RunnerStep /\ UNCHANGED dispatcherVars
  BY <1>4, RunnerMoves DEF Calm, Writes, dispatcherVars
<1>5. ASSUME NEW b \in AppWrappers, Cluster(b), UNCHANGED dispatcherVars
      PROVE  adding' = adding /\ view'[D][a] = view[D][a]
  BY <1>5 DEF Cluster, ItemGone, ItemComplete, PodCreated, PodPhase, PodEvicted, PodSync,
              PodGone, reconcilerVars, dispatcherVars
<1>6. CASE \E c \in Restartable : Restart(c)
  <2>1. RunnerRestart /\ UNCHANGED dispatcherVars
    BY <1>6 DEF Restart, DispatcherRestart
  <2> QED
    BY <1>0, <2>1
       DEF RunnerRestart, RestartReconciler, dispatcherVars, TypeOK, ReconcilerTypeOK
<1>7. CASE UNCHANGED vars
  BY <1>7 DEF vars, reconcilerVars, dispatcherVars
<1> QED
  BY <1>1, <1>2, <1>3, <1>4, <1>5, <1>6, <1>7 DEF AnyNext

\* Every step preserves AddingValid.
LEMMA AddingValidNext ==
    ASSUME SInv, [AnyNext]_vars
    PROVE  AddingValid'
<1> USE DEF SInv, IInv
<1> SUFFICES ASSUME adding' # NoAppWrapper
             PROVE  (DView(adding).state = "Empty" /\ ~DView(adding).del)'
  BY DEF AddingValid
<1>1. adding' \in AppWrappers
  BY NextType DEF TypeOK, DispatcherTypeOK
<1>2. CASE adding' = adding /\ view'[D][adding'] = view[D][adding']
  BY <1>2 DEF AddingValid, DView
<1>3. CASE DStep /\ view' = view
  <2>1. ASSUME NEW a \in AppWrappers, NEW r \in Outcomes, DAddFinalizers(a, r)
        PROVE  DView(a).state = "Empty" /\ ~DView(a).del /\ adding' = a
    BY <2>1 DEF DAddFinalizers, DState
  <2>2. \/ adding' = adding
        \/ \E a \in AppWrappers, r \in Outcomes : DAddFinalizers(a, r)
    <3>1. ASSUME NEW a \in AppWrappers, NEW r \in Outcomes, DReconcile(a, r),
                 ~DAddFinalizers(a, r)
          PROVE  adding' = adding
      BY <3>1 DEF DReconcile, DMissing, DStale, DAwaitRunner, DFinalize, DQueued,
                  DHandOver, DRequeue, DFailed, DNothing, dispatcherVars
    <3>2. ASSUME NEW r \in Outcomes, DQueueNew(r) \/ DDispatch(r)
          PROVE  adding' = adding
      BY <3>2 DEF DQueueNew, DDispatch
    <3>3. ASSUME NEW paused, NEW quota, DSelect(paused, Capacity, quota)
          PROVE  adding' = adding
      BY <3>3 DEF DSelect
    <3>4. CASE DAbort
      BY <3>4 DEF DAbort
    <3> QED
      BY <1>3, <3>1, <3>2, <3>3, <3>4 DEF DStep, DispatcherStep, DRequestStep
  <2> QED
    BY <1>3, <2>1, <2>2 DEF AddingValid, DView
<1> QED
  BY <1>1, <1>2, <1>3, AddingKept

\* While the Runner is in one of its loops its informer copies stay.
LEMMA RunnerKept ==
    ASSUME IInv, [AnyNext]_vars, runner' # Idle, NEW a \in AppWrappers
    PROVE  \/ RunnerStep /\ view' = view
           \/ runner' = runner /\ view'[R][a] = view[R][a]
<1> USE ControllersType DEF IInv
<1>0. D # R
  BY DEF D, R
<1>1. CASE UserStep
  BY <1>1 DEF UserStep, Create, Delete
<1>2. ASSUME NEW c \in Controllers, NEW b \in AppWrappers, Informer(c, b)
      PROVE  runner' = runner /\ view'[R][a] = view[R][a]
  <2>1. runner' = runner /\ c # R
    BY <1>0, <1>2 DEF Informer, Idling
  <2> QED
    BY <1>2, <2>1 DEF Informer, Sync, TypeOK, ReconcilerTypeOK
<1>3. CASE DStep /\ UNCHANGED runner
  BY <1>3, DispatcherMoves DEF Calm, Writes
<1>4. CASE RunnerStep
  BY <1>4, RunnerMoves DEF Calm, Writes
<1>5. ASSUME NEW b \in AppWrappers, Cluster(b), UNCHANGED runner
      PROVE  runner' = runner /\ view'[R][a] = view[R][a]
  BY <1>5 DEF Cluster, ItemGone, ItemComplete, PodCreated, PodPhase, PodEvicted, PodSync,
              PodGone, reconcilerVars
<1>6. CASE \E c \in Restartable : Restart(c)
  <2>1. DispatcherRestart /\ UNCHANGED runner
    BY <1>6 DEF Restart, RunnerRestart
  <2> QED
    BY <1>0, <2>1
       DEF DispatcherRestart, RestartReconciler, TypeOK, ReconcilerTypeOK
<1>7. CASE UNCHANGED vars
  BY <1>7 DEF vars, reconcilerVars
<1> QED
  BY <1>1, <1>2, <1>3, <1>4, <1>5, <1>6, <1>7 DEF AnyNext

\* The steps of the Runner that do not end a request.
LEMMA RunnerBusySteps ==
    ASSUME TypeOK, RunnerStep, runner' # Idle
    PROVE  \/ \E a \in AppWrappers : RCreate(a) \/ RDelete(a)
           \/ RCreateItem
           \/ RDeleteItem
BY ZenonT(40)
   DEF RunnerStep, RReconcile, RMissing, RStale, RForget, RConvert, RAccept,
       RSucceed, RUnhealthy, RHealthy, RNothing, RCreated, RCreateFailed,
       RDeleted, RDeleteAgain, Finished, RReconciling

\* Every step preserves RunnerValid.
LEMMA RunnerValidNext ==
    ASSUME SInv, [AnyNext]_vars
    PROVE  RunnerValid'
<1> USE DEF SInv, IInv
<1>0. CASE runner'.op = "idle"
  BY <1>0 DEF RunnerValid
<1>1. CASE runner' # Idle /\ RunnerStep /\ view' = view
  <2>1. ASSUME NEW a \in AppWrappers, RCreate(a) PROVE RunnerValid'
    <3>1. RState(a, "Running", "Creating") /\ runner'.aw = a
          /\ runner'.op \in {"create", "fail"}
      BY <2>1 DEF RCreate, Idle
    <3> QED
      BY <1>1, <3>1 DEF RunnerValid, RState, RView
  <2>2. ASSUME NEW a \in AppWrappers, RDelete(a) PROVE RunnerValid'
    <3>1. /\ runner'.aw = a
          /\ runner'.op = "delete"
          /\ \/ RView(a).del /\ "runner" \in RView(a).fin
             \/ RState(a, "Running", "Deleting")
             \/ RState(a, "Failed", "Deleting")
      BY <2>2 DEF RDelete, Idle
    <3> QED
      BY <1>1, <3>1 DEF RunnerValid, RState, RView
  <2>3. CASE RCreateItem
    <3>1. /\ runner.op = "create" /\ runner'.aw = runner.aw
          /\ runner'.op \in {"create", "fail"}
      BY <2>3 DEF RCreateItem, Idle, TypeOK, RunnerTypeOK, RunnerState
    <3> QED
      BY <1>1, <3>1 DEF RunnerValid, RState, RView
  <2>4. CASE RDeleteItem
    <3>1. /\ runner.op = "delete" /\ runner'.aw = runner.aw
          /\ runner'.op = "delete"
      BY <2>4 DEF RDeleteItem, TypeOK, RunnerTypeOK, RunnerState
    <3> QED
      BY <1>1, <3>1 DEF RunnerValid, RState, RView
  <2> QED
    BY <1>1, <2>1, <2>2, <2>3, <2>4, RunnerBusySteps
<1>2. CASE runner' = runner /\ view'[R][runner'.aw] = view[R][runner'.aw]
  <2>1. RView(runner.aw)' = RView(runner.aw)
    BY <1>2 DEF RView
  <2> QED
    BY <1>2, <2>1 DEF RunnerValid, RState
<1>3. runner'.op # "idle" => runner'.aw \in AppWrappers /\ runner' # Idle
  BY NextType DEF TypeOK, RunnerTypeOK, RunnerState, Idle
<1> QED
  BY <1>0, <1>1, <1>2, <1>3, RunnerKept

-----------------------------------------------------------------------------
(* The invariant, and what it says of restarts and conditions.             *)

\* The invariant holds initially.
LEMMA SInvInit == Init => SInv
<1> SUFFICES ASSUME Init PROVE SInv
  OBVIOUS
<1>1. \A a \in AppWrappers :
         /\ store[a] \in {NewObject, LegacyObject}
         /\ \A c \in Controllers : view[c][a] = store[a]
  BY DEF Init, ReconcilerInit
<1>2. ASSUME NEW a \in AppWrappers, NEW o \in {NewObject, LegacyObject}
      PROVE  ValidObject(a, o)
  <2>1. MaxNumRequeuings[a] \in Nat
    BY MaxNumRequeuingsAssumption
  <2>2. /\ o.step = "Idle" /\ ~o.del /\ o.cond = "none" /\ o.restarts = 0
        /\ \/ o.ex = "new" /\ o.state = "Empty"
           \/ o.ex = "live" /\ o.state = "Queued" /\ o.fin = {"legacy"}
    <3>1. CASE o = NewObject
      BY <3>1 DEF NewObject
    <3>2. CASE o = LegacyObject
      BY <3>2 DEF NewObject, LegacyObject
    <3> QED
      BY <3>1, <3>2
  <2> QED
    BY <2>1, <2>2 DEF ValidObject, Statuses, FinalizersValid, ConditionValid,
                      RestartsValid
<1>3. ObjectsValid
  BY <1>1, <1>2 DEF ObjectsValid
<1>4. AddingValid /\ RunnerValid
  BY DEF Init, DispatcherInit, RunnerInit, Idle, AddingValid, RunnerValid
<1> QED
  BY <1>3, <1>4, IInvInit DEF SInv

\* The invariant is inductive.
LEMMA SInvNext == SInv /\ [AnyNext]_vars => SInv'
BY IInvNext, ObjectsValidNext, AddingValidNext, RunnerValidNext DEF SInv

\* The objects, their informer copies and the workers agree with the state
\* diagram in every behaviour, whatever may fail.
THEOREM StatusInvariant == Spec => []SInv
<1>1. Init => SInv
  BY SInvInit
<1>2. SInv /\ [AnyNext]_vars => SInv'
  BY SInvNext
<1> QED
  BY <1>1, <1>2, NextIsAny, PTL DEF Spec

\* requeueOrFail (runner.go) bounds the restarts by MaxNumRequeuings, however
\* often calls fail, replies are lost or controllers are restarted: a restart is
\* counted once for each teardown.
THEOREM RestartsAreBounded == Spec => []RestartLimit
<1>1. SInv => RestartLimit
  BY DEF SInv, ObjectsValid, ValidObject, RestartsValid, RestartLimit
<1> QED
  BY <1>1, StatusInvariant, PTL

\* The Queued condition never contradicts the state, although the decision it
\* reports was made in another request than the one that writes it
\* (dispatcher.go:130).
THEOREM ConditionIsTruthful == Spec => []ConditionTruthful
<1>1. SInv => ConditionTruthful
  BY DEF SInv, ObjectsValid, ValidObject, ConditionValid, ConditionTruthful
<1> QED
  BY <1>1, StatusInvariant, PTL

-----------------------------------------------------------------------------
(***************************************************************************)
(* The wrapped resources of an AppWrapper exist only while its status says *)
(* so, while the runner finalizer keeps it, and while the Dispatcher       *)
(* counts it as in flight: lost replies, informers of any age, failed      *)
(* calls, restarts in the middle of a loop and deletions at any moment     *)
(* notwithstanding.  All this holds if deleteResources is told the truth,  *)
(* that is if "delete" is not a fault; run deleteerror shows what an error *)
(* of that call, which the code ignores, leads to.  Of pods nothing of the *)
(* kind is true: deleteResources lists them from an informer.              *)
(*                                                                         *)
(* Argument.  The Runner creates resources on the strength of an informer  *)
(* copy that may be old, but not too old: the AppWrapper can leave the     *)
(* steps in which resources may exist only by a transition of the Runner   *)
(* out of a later status, and that takes a copy that shows it.             *)
(***************************************************************************)

\* A copy that shows the runner finalizer and no deletion is proof enough that
\* the finalizer is still there: the Runner alone removes it, from a copy that
\* shows the deletion.
GuardKept ==
    \A a \in AppWrappers :
        RView(a).ex = "live" /\ ~RView(a).del /\ "runner" \in RView(a).fin
            => store[a].ex = "live" /\ "runner" \in store[a].fin

DeployedSteps == {"Creating", "Created", "Deleting"}

CreatingSeen ==
    \A a \in AppWrappers :
        RView(a).step = "Creating" => store[a].step \in DeployedSteps

\* An AppWrapper that was handed over is not idle to the Dispatcher, which read
\* Dispatching to hand it over.
Engaged(a) ==
    /\ DView(a).step # "Idle"
    /\ Behind(D, a) => cache[D][a].step # "Idle"

HandedOver ==
    \A a \in AppWrappers :
        store[a].step \notin {"Idle", "Dispatching"} => Engaged(a)

\* Until it finds an item, the delete loop leaves no item behind.
LoopPassed ==
    runner.op = "delete" /\ runner.remaining = 0 =>
        \A i \in Items : i < runner.next => ~Exists(runner.aw, i)

Occupied(a) == \E i \in Items : Exists(a, i)

OccupiedValid ==
    \A a \in AppWrappers :
        Occupied(a) =>
            /\ store[a].ex = "live"
            /\ "runner" \in store[a].fin
            /\ store[a].step \in DeployedSteps \/ store[a].state = "Succeeded"

RInv ==
    /\ SInv
    /\ GuardKept
    /\ CreatingSeen
    /\ HandedOver
    /\ LoopPassed
    /\ OccupiedValid

-----------------------------------------------------------------------------
(* What a step does to the resources of an AppWrapper.                     *)

\* The Runner creates an item of a.
Deploying(a) ==
    /\ runner.op = "create"
    /\ runner.aw = a
    /\ UNCHANGED reconcilerVars

\* No item of a is created.
Draining(a) == \A i \in Items : Exists(a, i)' => Exists(a, i)

\* Steps that leave resources alone.
LEMMA DrainingKept ==
    ASSUME UNCHANGED res
    PROVE  \A a \in AppWrappers : Draining(a)
BY DEF Draining, Exists

\* Forced deletion creates nothing.
LEMMA ForcedDeletionDrains ==
    ASSUME TypeOK, NEW b \in AppWrappers, NEW listed, ForceDelete(b, listed),
           NEW a \in AppWrappers
    PROVE  Draining(a)
<1>1. CASE listed # {}
  BY <1>1, DrainingKept DEF ForceDelete
<1>2. CASE listed = {}
  <2>1. PICK kept : res' = [res EXCEPT ![b] =
                       [i \in Items |-> IF Exists(b, i) /\ i \notin kept
                                        THEN "terminating" ELSE res[b][i]]]
    BY <1>2 DEF ForceDelete, ForceDeleteItems
  <2> QED
    BY <2>1 DEF Draining, Exists, TypeOK, ResourceTypeOK
<1> QED
  BY <1>1, <1>2

\* What the Runner does to resources (resource_manager.go).
LEMMA RunnerDrains ==
    ASSUME TypeOK, RunnerStep, NEW a \in AppWrappers
    PROVE  Deploying(a) \/ Draining(a)
<1>0. \A i \in Items : res[a] \in [Items -> ResourceStates]
  BY DEF TypeOK, ResourceTypeOK
<1>1. CASE RCreateItem
  <2>1. runner.aw # a => res'[a] = res[a]
    BY <1>1 DEF RCreateItem, CreateItem, TypeOK, ResourceTypeOK
  <2>2. runner.aw # a => Draining(a)
    BY <2>1 DEF Draining, Exists
  <2> QED
    BY <1>1, <2>2 DEF RCreateItem, Deploying
<1>2. CASE RDeleteItem
  <2>1. PICK r \in DeleteOutcomes(runner.aw, runner.next) :
           DeleteItem(runner.aw, runner.next, r)
    BY <1>2 DEF RDeleteItem
  <2>2. runner.aw \in AppWrappers /\ runner.next \in Items
    BY <1>2 DEF RDeleteItem, TypeOK, RunnerTypeOK, RunnerState, Items
  <2>3. r \in {"ok", "lost"} => Exists(runner.aw, runner.next)
    BY DEF DeleteOutcomes
  <2> QED
    BY <2>1, <2>2, <2>3 DEF DeleteItem, Draining, Exists, TypeOK, ResourceTypeOK
<1>3. ASSUME NEW force, RDeleteAgain(force) PROVE Draining(a)
  <2>1. runner.aw \in AppWrappers
    BY <1>3 DEF RDeleteAgain, TypeOK, RunnerTypeOK, RunnerState
  <2>2. PICK listed : \/ ForceDelete(runner.aw, listed)
                      \/ UNCHANGED resourceVars
    BY <1>3 DEF RDeleteAgain
  <2>3. CASE ForceDelete(runner.aw, listed)
    BY <2>1, <2>3, DrainingKept, ForcedDeletionDrains
  <2> QED
    BY <2>2, <2>3, DrainingKept DEF resourceVars
<1>4. CASE UNCHANGED resourceVars
  BY <1>4, DrainingKept DEF resourceVars
<1> QED
  BY <1>1, <1>2, <1>3, <1>4, ZenonT(40)
     DEF RunnerStep, RReconcile, RMissing, RStale, RForget, RConvert, RAccept,
         RCreate, RSucceed, RUnhealthy, RHealthy, RDelete, RNothing, RCreated,
         RCreateFailed, RDeleted

\* What the cluster does to resources.
LEMMA ClusterDrains ==
    ASSUME TypeOK, NEW b \in AppWrappers, Cluster(b), NEW a \in AppWrappers
    PROVE  Draining(a)
<1>1. ASSUME NEW i \in Items, ItemGone(b, i) \/ ItemComplete(b, i)
      PROVE  Draining(a)
  BY <1>1, ZenonT(40)
     DEF ItemGone, ItemComplete, Draining, Exists, TypeOK, ResourceTypeOK
<1>2. ASSUME ~ \E i \in Items : ItemGone(b, i) \/ ItemComplete(b, i)
      PROVE  UNCHANGED res
  BY <1>2 DEF Cluster, PodCreated, PodPhase, PodEvicted, PodGone, PodSync
<1> QED
  BY <1>1, <1>2, DrainingKept

\* Resources appear by the hand of the Runner only.
LEMMA NextDrains ==
    ASSUME TypeOK, [AnyNext]_vars, NEW a \in AppWrappers
    PROVE  Deploying(a) \/ Draining(a)
BY RunnerDrains, ClusterDrains, DrainingKept
   DEF AnyNext, UserStep, Informer, DStep, DispatcherStep, Restart, DispatcherRestart,
       RunnerRestart, PodRelist, vars, resourceVars

-----------------------------------------------------------------------------
(* The invariant is preserved, part by part.                               *)

\* Every step preserves GuardKept.
LEMMA GuardKeptNext ==
    ASSUME RInv, [AnyNext]_vars
    PROVE  GuardKept'
<1> USE ControllersType DEF RInv, SInv, IInv
<1> SUFFICES ASSUME NEW a \in AppWrappers,
                    RView(a)'.ex = "live", ~RView(a)'.del, "runner" \in RView(a)'.fin
             PROVE  store'[a].ex = "live" /\ "runner" \in store'[a].fin
  BY DEF GuardKept
<1> DEFINE o == store[a]
           n == store'[a]
<1>0. o \in Object
  BY DEF TypeOK, ReconcilerTypeOK
<1>1. CASE view'[R][a] = store[a] /\ store' = store
  BY <1>1 DEF RView
<1>2. CASE view'[R][a] = view[R][a]
  <2>1. o.ex = "live" /\ "runner" \in o.fin /\ ~RView(a).del
    BY <1>2 DEF GuardKept, RView
  <2>2. CASE Owned(a)
    BY <1>0, <2>1, <2>2 DEF Owned, Stored, Object
  <2>3. CASE Edits(a)
    <3>1. CASE n = WithFinalizers(o)
      BY <1>0, <2>1, <3>1 DEF WithFinalizers, Object
    <3>2. CASE n = [o EXCEPT !.fin = (@ \cup {"dispatcher", "runner"}) \ {"legacy"}]
      BY <1>0, <2>1, <3>2 DEF Object
    <3>3. CASE \E reason : n = [o EXCEPT !.cond = reason]
      BY <1>0, <2>1, <3>3 DEF Object
    <3> QED
      BY <2>1, <2>3, <3>1, <3>2, <3>3 DEF Edits
  <2>4. CASE Transitions(a)
    BY <1>0, <2>1, <2>4, TransitionsKeep
  <2> QED
    BY <2>1, <2>2, <2>3, <2>4, NextEvolves DEF Evolves
<1> QED
  BY <1>1, <1>2, ViewNext

\* The Dispatcher leaves alone an AppWrapper that may have resources; the Runner
\* takes it from one such step to another, reports that it succeeded, or that
\* its resources are deleted.
LEMMA DeployedTransitions ==
    ASSUME NEW a \in AppWrappers, store[a] \in Object, ValidObject(a, store[a]),
           Transitions(a), store[a].step \in DeployedSteps
    PROVE  /\ SameStatus(view[R][a], store[a])
           /\ \/ store'[a].step \in DeployedSteps
              \/ store'[a].state = "Succeeded" /\ store[a].step = "Created"
              \/ Drained(a) /\ store[a].step = "Deleting"
<1> DEFINE o == store[a]
           n == store'[a]
<1>1. ~DispatcherTransition(o, n)
  BY DEF DispatcherTransition, DeployedSteps, ValidObject, Statuses
<1>2. RunnerAdvance(a, o, n) => \/ n.step \in DeployedSteps
                                \/ n.state = "Succeeded" /\ o.step = "Created"
  BY TransitionKeeps DEF RunnerAdvance, DeployedSteps
<1>3. GiveUp(a, o, n) => n.step \in DeployedSteps
  BY TransitionKeeps DEF GiveUp, DeployedSteps
<1> QED
  BY <1>1, <1>2, <1>3 DEF Transitions, TornDown

\* Every step preserves CreatingSeen.
LEMMA CreatingSeenNext ==
    ASSUME RInv, [AnyNext]_vars
    PROVE  CreatingSeen'
<1> USE ControllersType DEF RInv, SInv, IInv
<1> SUFFICES ASSUME NEW a \in AppWrappers, RView(a)'.step = "Creating"
             PROVE  store'[a].step \in DeployedSteps
  BY DEF CreatingSeen
<1>0. store[a] \in Object /\ ValidObject(a, store[a])
  BY DEF TypeOK, ReconcilerTypeOK, ObjectsValid
<1>1. CASE view'[R][a] = store[a] /\ store' = store
  BY <1>1 DEF RView, DeployedSteps
<1>2. CASE view'[R][a] = view[R][a]
  <2>1. store[a].step \in DeployedSteps /\ RView(a).step = "Creating"
    BY <1>2 DEF CreatingSeen, RView
  <2>2. CASE Owned(a) \/ Edits(a)
    BY <1>0, <2>1, <2>2, OwnedKeeps, EditsKeep DEF SameStatus
  <2>3. CASE Transitions(a)
    BY <1>0, <2>1, <2>3, DeployedTransitions DEF SameStatus, RView
  <2> QED
    BY <2>1, <2>2, <2>3, NextEvolves DEF Evolves
<1> QED
  BY <1>1, <1>2, ViewNext

\* A write by a controller preserves what the Dispatcher knows of an AppWrapper
\* it has handed over.
LEMMA EngagedWrites ==
    ASSUME RInv, [AnyNext]_vars, NEW c \in Controllers, NEW b \in AppWrappers,
           Writes(c, b), NEW a \in AppWrappers,
           store'[a].step \notin {"Idle", "Dispatching"}
    PROVE  Engaged(a)'
<1> USE ControllersType DEF RInv, SInv, IInv
<1>0. /\ view' = view
      /\ store[a] \in Object /\ ValidObject(a, store[a])
  BY DEF Writes, TypeOK, ReconcilerTypeOK, ObjectsValid
<1>n. /\ view[D][a].tc \in Nat /\ cache[D][a].tc \in Nat /\ store[a].tc \in Nat
      /\ cache'[D][a].tc \in Nat /\ cache'[D][a].has \in BOOLEAN
  BY NextType DEF TypeOK, ReconcilerTypeOK, Object, CacheEntry
<1>1. CASE SameStatus(store'[a], store[a])
  <2>1. Engaged(a)
    BY <1>1 DEF HandedOver, SameStatus
  <2>2. CASE cache'[D][a] = cache[D][a]
    BY <1>0, <2>1, <2>2 DEF Engaged, DView, Behind
  <2>3. CASE c = D /\ b = a
    <3>1. Refreshed(D, a)
      BY <1>1, <1>n, <2>3 DEF Writes, Transits, SameStatus
    <3>2. CASE ~IsStale(D, a)
      <4>1. ~Behind(D, a)'
        BY <1>0, <1>n, <3>1, <3>2 DEF Refreshed, Behind, SameStatus
      <4> QED
        BY <1>0, <2>1, <4>1 DEF Engaged, DView
    <3>3. CASE IsStale(D, a)
      BY <1>0, <2>1, <3>1, <3>3 DEF Engaged, DView, Refreshed, Behind, SameStatus
    <3> QED
      BY <3>2, <3>3
  <2> QED
    BY <2>2, <2>3 DEF Writes
<1>2. CASE ~SameStatus(store'[a], store[a])
  <2>1. b = a /\ Transits(c, a) /\ Transitions(a)
    BY <1>0, <1>2, NextEvolves, OwnedKeeps, EditsKeep
       DEF Writes, Evolves, SameStatus
  <2>2. CASE c = D
    <3>1. store[a].step \in {"Idle", "Dispatching", "Deleted"}
      BY <2>1, <2>2 DEF Transits, OwnSteps, DispatcherSteps, SameStatus
    <3>2. DispatcherTransition(store[a], store'[a])
      BY <2>1, <3>1 DEF Transitions, RunnerAdvance, GiveUp, TornDown
    <3>3. store[a].step = "Dispatching" /\ store'[a].step = "Accepting"
      <4>1. \/ store'[a] = Transition(store[a], "Running", "Accepting")
               /\ store[a].step = "Dispatching"
            \/ \E o, state : store'[a] = Transition(o, state, "Idle")
                             /\ o \in Object
            \/ store'[a] = Transition([store[a] EXCEPT !.cond = "Dispatched"],
                                      "Running", "Dispatching")
        BY <1>0, <3>2, ChangedObjectType DEF DispatcherTransition
      <4>2. [store[a] EXCEPT !.cond = "Dispatched"] \in Object
        BY <1>0 DEF Object, Reasons
      <4> QED
        BY <1>0, <4>1, <4>2, TransitionKeeps
    <3>4. view[D][a].step = "Dispatching"
      BY <2>1, <2>2, <3>3 DEF Transits, SameStatus
    <3>5. \/ cache'[D][a].step = "Accepting"
          \/ ~Behind(D, a)'
      BY <1>0, <1>n, <2>1, <2>2, <3>3
         DEF Transits, Refreshed, Behind, SameStatus
    <3> QED
      BY <1>0, <3>4, <3>5 DEF Engaged, DView
  <2>3. CASE c # D
    <3>1. store[a].step \notin {"Idle", "Dispatching"}
      BY <2>1, <2>3 DEF Transits, OwnSteps, RunnerSteps, SameStatus
    <3>2. Engaged(a) /\ cache'[D][a] = cache[D][a]
      BY <2>3, <3>1 DEF HandedOver, Writes
    <3> QED
      BY <1>0, <3>2 DEF Engaged, DView, Behind
  <2> QED
    BY <2>2, <2>3
<1> QED
  BY <1>1, <1>2

\* Every step preserves HandedOver.
LEMMA HandedOverNext ==
    ASSUME RInv, [AnyNext]_vars
    PROVE  HandedOver'
<1> USE ControllersType DEF RInv, SInv, IInv
<1> SUFFICES ASSUME NEW a \in AppWrappers,
                    store'[a].step \notin {"Idle", "Dispatching"}
             PROVE  Engaged(a)'
  BY DEF HandedOver
<1>n. view[D][a].tc \in Nat /\ cache[D][a].tc \in Nat /\ store[a].tc \in Nat
  BY DEF TypeOK, ReconcilerTypeOK, Object, CacheEntry
<1>1. CASE Calm
  BY <1>1 DEF Calm, HandedOver, Engaged, DView, Behind
<1>2. ASSUME NEW c \in Controllers, NEW b \in AppWrappers, Writes(c, b)
      PROVE  Engaged(a)'
  BY <1>2, EngagedWrites
<1>3. ASSUME NEW b \in AppWrappers, UserWrites(b)
      PROVE  Engaged(a)'
  BY <1>3 DEF UserWrites, HandedOver, Engaged, DView, Behind, SameStatus
<1>4. ASSUME store' = store, view'[D][a] = store[a],
             cache'[D][a] \in {cache[D][a], NoEntry}
      PROVE  Engaged(a)'
  <2>1. ~Behind(D, a)'
    BY <1>4, <1>n DEF CopiesFollow, Follows, Behind, NoEntry
  <2> QED
    BY <1>4, <2>1 DEF Engaged, DView
<1>5. ASSUME store' = store, view'[D][a] = view[D][a], cache'[D][a] = cache[D][a]
      PROVE  Engaged(a)'
  BY <1>5 DEF HandedOver, Engaged, DView, Behind
<1>6. ASSUME NEW c \in Controllers, NEW b \in AppWrappers, Sync(c, b)
      PROVE  Engaged(a)'
  BY <1>4, <1>5, <1>6 DEF Sync, TypeOK, ReconcilerTypeOK
<1>7. ASSUME NEW c \in Controllers, RestartReconciler(c)
      PROVE  Engaged(a)'
  BY <1>4, <1>5, <1>7 DEF RestartReconciler, TypeOK, ReconcilerTypeOK
<1> QED
  BY <1>1, <1>2, <1>3, <1>6, <1>7, NextMoves

\* Every step preserves LoopPassed, if deleteResources is told which items it
\* found (resource_manager.go:200).
LEMMA LoopPassedNext ==
    ASSUME RInv, "delete" \notin Faults, [AnyNext]_vars
    PROVE  LoopPassed'
<1> USE DEF RInv, SInv, IInv
<1> SUFFICES ASSUME runner'.op = "delete", runner'.remaining = 0,
                    NEW i \in Items, i < runner'.next
             PROVE  ~Exists(runner.aw, i)'
  BY DEF LoopPassed, Items
<1>0. runner' # Idle /\ runner'.aw \in AppWrappers
  BY NextType DEF Idle, TypeOK, RunnerTypeOK, RunnerState
<1>1. CASE runner' = runner
  <2>1. ~Exists(runner.aw, i)
    BY <1>1 DEF LoopPassed
  <2>2. Draining(runner.aw)
    BY <1>0, <1>1, NextDrains DEF Deploying
  <2> QED
    BY <1>1, <2>1, <2>2 DEF Draining, Exists
<1>2. ASSUME NEW a \in AppWrappers, RCreate(a) \/ RDelete(a)
      PROVE  FALSE
  <2>1. runner'.op = "delete" => runner'.next = 1
    BY <1>2 DEF RCreate, RDelete, Idle
  <2> QED
    BY <2>1 DEF Items
<1>3. CASE RCreateItem
  BY <1>3 DEF RCreateItem, Idle, TypeOK, RunnerTypeOK, RunnerState
<1>4. CASE RDeleteItem
  <2>1. PICK r \in DeleteOutcomes(runner.aw, runner.next) :
           /\ DeleteItem(runner.aw, runner.next, r)
           /\ runner' = [runner EXCEPT
                            !.next = runner.next + 1,
                            !.remaining = IF r = "ok" THEN @ + 1 ELSE @]
    BY <1>4 DEF RDeleteItem
  <2>2. /\ runner.op = "delete" /\ runner.next \in Items
        /\ runner.remaining \in Nat /\ runner \in RunnerState
    BY <1>4 DEF RDeleteItem, TypeOK, RunnerTypeOK, RunnerState, Items
  <2>3. r # "ok" /\ runner.remaining = 0
    BY <2>1, <2>2 DEF RunnerState
  <2>4. r = "notfound" /\ ~Exists(runner.aw, runner.next)
    BY <2>3 DEF DeleteOutcomes
  <2>5. res' = res /\ runner'.aw = runner.aw /\ runner'.next = runner.next + 1
    BY <2>1, <2>2, <2>4 DEF DeleteItem, RunnerState
  <2>6. i < runner.next \/ i = runner.next
    BY <2>2, <2>5 DEF Items
  <2> QED
    BY <2>2, <2>3, <2>4, <2>5, <2>6 DEF LoopPassed, Exists
<1> QED
  BY <1>0, <1>1, <1>2, <1>3, <1>4, RunnerKept, RunnerBusySteps

\* When the delete loop has ended and found nothing, nothing is there.
LEMMA DrainedIsEmpty ==
    ASSUME RInv, NEW a \in AppWrappers, Drained(a)
    PROVE  ~Occupied(a)
<1> USE DEF RInv, SInv, IInv
<1>1. runner.op = "delete" /\ runner.aw = a /\ runner.remaining = 0
  BY DEF Drained, DeletionComplete
<1>2. \A i \in Items : i < runner.next
  BY ResourceAssumption DEF Drained, Items, TypeOK, RunnerTypeOK, RunnerState
<1> QED
  BY <1>1, <1>2 DEF LoopPassed, Occupied

\* An AppWrapper that has nothing gets something from the Runner only.
LEMMA OccupiedBefore ==
    ASSUME TypeOK, NEW a \in AppWrappers, Draining(a), Occupied(a)'
    PROVE  Occupied(a)
BY DEF Draining, Occupied

\* The Runner creates resources of an AppWrapper that its finalizer keeps, and
\* whose status says that it has some.
LEMMA DeployingIsValid ==
    ASSUME RInv, NEW a \in AppWrappers, Deploying(a)
    PROVE  /\ store'[a] = store[a]
           /\ store[a].ex = "live"
           /\ "runner" \in store[a].fin
           /\ store[a].step \in DeployedSteps
<1> USE ControllersType DEF RInv, SInv, IInv
<1>1. /\ RView(a).ex = "live" /\ ~RView(a).del /\ "legacy" \notin RView(a).fin
      /\ RView(a).state = "Running" /\ RView(a).step = "Creating"
  BY DEF Deploying, RunnerBusy, RunnerValid, RState
<1>2. "runner" \in RView(a).fin
  BY <1>1 DEF ObjectsValid, ValidObject, FinalizersValid, RView
<1> QED
  BY <1>1, <1>2 DEF GuardKept, CreatingSeen, Deploying, reconcilerVars

\* Every step preserves OccupiedValid.
LEMMA OccupiedValidNext ==
    ASSUME RInv, [AnyNext]_vars
    PROVE  OccupiedValid'
<1> USE DEF RInv, SInv, IInv
<1> DEFINE Held(o) == /\ o.ex = "live"
                      /\ "runner" \in o.fin
                      /\ o.step \in DeployedSteps \/ o.state = "Succeeded"
<1> SUFFICES ASSUME NEW a \in AppWrappers, Occupied(a)'
             PROVE  Held(store'[a])
  BY DEF OccupiedValid
<1> DEFINE o == store[a]
           n == store'[a]
<1>0. o \in Object /\ ValidObject(a, o)
  BY DEF TypeOK, ReconcilerTypeOK, ObjectsValid
<1>1. CASE Deploying(a)
  BY <1>1, DeployingIsValid
<1>2. CASE Draining(a)
  <2>1. Occupied(a) /\ Held(o) /\ ~Drained(a)
    BY <1>2, OccupiedBefore, DrainedIsEmpty DEF OccupiedValid
  <2>2. CASE Owned(a)
    <3>1. n.ex = "live"
      BY <1>0, <2>1, <2>2 DEF Owned, Stored, Object
    <3> QED
      BY <1>0, <2>1, <2>2, <3>1, OwnedKeeps DEF SameStatus
  <2>3. CASE Edits(a)
    <3>1. n.ex = "live" /\ "runner" \in n.fin
      <4>1. CASE n = WithFinalizers(o)
        BY <1>0, <2>1, <4>1 DEF WithFinalizers, Object
      <4>2. CASE n = [o EXCEPT !.fin = (@ \cup {"dispatcher", "runner"}) \ {"legacy"}]
        BY <1>0, <2>1, <4>2 DEF Object
      <4>3. CASE \E reason : n = [o EXCEPT !.cond = reason]
        BY <1>0, <2>1, <4>3 DEF Object
      <4> QED
        BY <2>1, <2>3, <4>1, <4>2, <4>3 DEF Edits
    <3> QED
      BY <1>0, <2>1, <2>3, <3>1, EditsKeep DEF SameStatus
  <2>4. CASE Transitions(a)
    <3>1. n.ex = "live" /\ n.fin = o.fin
      BY <1>0, <2>4, TransitionsKeep
    <3>2. o.state # "Succeeded"
      BY <1>0, <2>4
         DEF Transitions, DispatcherTransition, RunnerAdvance, GiveUp, TornDown
    <3> QED
      BY <1>0, <2>1, <2>4, <3>1, <3>2, DeployedTransitions
  <2> QED
    BY <2>1, <2>2, <2>3, <2>4, NextEvolves DEF Evolves
<1> QED
  BY <1>1, <1>2, NextDrains

\* The invariant holds initially.
LEMMA RInvInit == Init => RInv
<1> SUFFICES ASSUME Init PROVE RInv
  OBVIOUS
<1>1. /\ \A c \in Controllers, a \in AppWrappers : view[c][a] = store[a]
      /\ \A a \in AppWrappers : store[a].step = "Idle"
  BY DEF Init, ReconcilerInit, NewObject, LegacyObject
<1>2. \A a \in AppWrappers : ~Occupied(a)
  BY DEF Init, ResourceInit, Occupied, Exists
<1>3. GuardKept /\ CreatingSeen /\ HandedOver
  BY <1>1, ControllersType DEF GuardKept, CreatingSeen, HandedOver, RView
<1>4. LoopPassed
  BY DEF Init, RunnerInit, Idle, LoopPassed
<1>5. OccupiedValid
  BY <1>2 DEF OccupiedValid
<1> QED
  BY <1>3, <1>4, <1>5, SInvInit DEF RInv

\* The invariant is inductive, if deleteResources learns of what it finds.
LEMMA RInvNext ==
    ASSUME "delete" \notin Faults
    PROVE  RInv /\ [AnyNext]_vars => RInv'
BY SInvNext, GuardKeptNext, CreatingSeenNext, HandedOverNext, LoopPassedNext,
   OccupiedValidNext DEF RInv

-----------------------------------------------------------------------------
(* What it says of resources.                                              *)

\* Resources and the Runner's loops agree with the status of their
\* AppWrapper in every behaviour in which no deletion of an item fails.
THEOREM ResourceInvariant ==
    ASSUME "delete" \notin Faults
    PROVE  Spec => []RInv
<1>1. Init => RInv
  BY RInvInit
<1>2. RInv /\ [AnyNext]_vars => RInv'
  BY RInvNext
<1> QED
  BY <1>1, <1>2, NextIsAny, PTL DEF Spec

\* An AppWrapper that has resources is in Running/Creating or after, and before
\* Deleted, or has succeeded ("Resources are not deployed",
\* appwrapper_types.go:148): for any number of resources, and whatever informers
\* lag, replies are lost and controllers are restarted.
THEOREM ResourcesAreTracked ==
    ASSUME "delete" \notin Faults
    PROVE  Spec => []ResourcesTracked
<1>1. RInv => ResourcesTracked
  BY DEF RInv, OccupiedValid, Occupied, DeployedSteps, ResourcesTracked
<1> QED
  BY <1>1, ResourceInvariant, PTL

\* No AppWrapper goes away while it has resources: the runner finalizer
\* (runner.go:87) is removed after the last of them.
THEOREM ResourcesAreGuarded ==
    ASSUME "delete" \notin Faults
    PROVE  Spec => []ResourcesGuarded
<1>1. RInv => ResourcesGuarded
  BY DEF RInv, OccupiedValid, Occupied, ResourcesGuarded
<1> QED
  BY <1>1, ResourceInvariant, PTL

\* What has resources is booked by buildQueue (dispatch_logic.go:90) until it
\* succeeds.  Unlike ResourcesAreBooked this holds even if replies are lost and
\* informers lag beyond cacheConflictTimeout: an AppWrapper has resources only after
\* a second transition by the Dispatcher, which has then seen the first.
THEOREM DeployedIsBooked ==
    ASSUME "delete" \notin Faults
    PROVE  Spec => []DeployedBooked
<1>1. RInv => DeployedBooked
  <2> SUFFICES ASSUME RInv, NEW a \in AppWrappers, Occupied(a),
                      store[a].state # "Succeeded"
               PROVE  a \in InFlight
    BY DEF DeployedBooked, Occupied
  <2>2. store[a].ex = "live" /\ store[a].step \in DeployedSteps
    BY DEF RInv, OccupiedValid
  <2>3. Engaged(a)
    BY <2>2 DEF RInv, HandedOver, DeployedSteps
  <2>4. DView(a).ex = "live"
    <3>1. DView(a).ex \in {"new", "live", "gone"}
      BY ControllersType
         DEF RInv, SInv, IInv, TypeOK, ReconcilerTypeOK, Object, DView
    <3> QED
      BY <2>2, <3>1 DEF RInv, SInv, IInv, DispatcherSees, DeployedSteps
  <2> QED
    BY <2>3, <2>4 DEF Engaged, InFlight, Listed, CachedStep, DView
<1> QED
  BY <1>1, ResourceInvariant, PTL

\* What the theorems about capacity assume of the AppWrappers: there are finitely
\* many, and no request is negative.
WellFormed ==
    /\ IsFiniteSet(AppWrappers)
    /\ Priority \in [AppWrappers -> Int]
    /\ AreWeights(Capacity)
    /\ AppWrappers \subseteq DOMAIN PodResources
    /\ \A a \in AppWrappers :
          /\ AreWeights(NewWeightsForPod(PodSpec[a]))
          /\ IsFiniteSet(DOMAIN PodResources[a])
          /\ \A i \in DOMAIN PodResources[a] :
                /\ PodResources[a][i].replicas \in Nat
                /\ ArePositive(PodResources[a][i].requests)

-----------------------------------------------------------------------------
(* Requests are weights.                                                   *)

\* coefficient * r (weights.go)
LEMMA ScalePositive ==
    ASSUME NEW n \in Nat, NEW w, ArePositive(w)
    PROVE  ArePositive(Scale(n, w))
<1>1. DOMAIN Scale(n, w) = DOMAIN w /\ \A k \in DOMAIN w : Scale(n, w)[k] = n * w[k]
  BY DEF Scale
<1>2. \A k \in DOMAIN w : w[k] \in Int /\ w[k] >= 0
  BY DEF ArePositive, AreWeights
<1>3. \A m \in Int : m >= 0 => n * m \in Int /\ n * m >= 0
  OBVIOUS
<1>4. \A k \in DOMAIN w : Scale(n, w)[k] \in Int /\ Scale(n, w)[k] >= 0
  BY <1>1, <1>2, <1>3
<1>5. Scale(n, w) \in [DOMAIN w -> Int]
  <2>1. Scale(n, w) = [k \in DOMAIN w |-> n * w[k]]
    BY DEF Scale
  <2>2. \A k \in DOMAIN w : n * w[k] \in Int
    BY <1>2, <1>3
  <2> QED
    BY <2>1, <2>2
<1> QED
  BY <1>1, <1>4, <1>5 DEF ArePositive, AreWeights

\* What custom pod resources add up to under one heading.
Aggregate(C, s) == Total(LAMBDA i : Scale(C[i].replicas, C[i][s]), DOMAIN C)

\* It is not negative.
LEMMA AggregatePositive ==
    ASSUME NEW C, IsFiniteSet(DOMAIN C), NEW s,
           \A i \in DOMAIN C : C[i].replicas \in Nat /\ ArePositive(C[i][s])
    PROVE  ArePositive(Aggregate(C, s))
<1> DEFINE S == DOMAIN C
           F == [i \in S |-> Scale(C[i].replicas, C[i][s])]
           Loop(g) ==
              g = [t \in SUBSET S |->
                     IF t = {} THEN Zero
                     ELSE Plus(Scale(C[Pick(t)].replicas, C[Pick(t)][s]),
                               g[t \ {Pick(t)}])]
           h == CHOOSE g : Loop(g)
<1>1. Aggregate(C, s) = h[S]
  BY DEF Aggregate, Total, MapThenFoldSet, Pick
<1>2. ASSUME NEW g PROVE Loop(g) <=> Adds(F, S, g)
  <2>1. \A t \in SUBSET S : t # {} =>
           F[Pick(t)] = Scale(C[Pick(t)].replicas, C[Pick(t)][s])
    BY DEF Pick
  <2> QED
    BY <2>1 DEF Adds
<1>3. IsFiniteSet(S) /\ \A i \in S : ArePositive(F[i])
  BY ScalePositive
<1> HIDE DEF F, S
<1>4. Adds(F, S, h)
  <2>1. \E g : Loop(g)
    BY <1>2, <1>3, AddsExists
  <2>2. Loop(h)
    <3> HIDE DEF Loop
    <3> QED
      BY <2>1
  <2> QED
    BY <1>2, <2>2
<1> HIDE DEF h
<1>5. h[S] = Sum(F, S)
  BY <1>3, <1>4, SumAdds
<1>6. AreWeights(Sum(F, S))
  BY <1>3, SumWeights DEF ArePositive
<1>7. \A k : Quantity(Sum(F, S), k) >= 0
  BY <1>3, SumPositive
<1>8. ArePositive(h[S])
  BY <1>5, <1>6, <1>7 DEF ArePositive, Quantity
<1> QED
  BY <1>1, <1>8

\* aggregateRequests never returns a negative quantity (dispatch_logic.go).
LEMMA RequestPositive ==
    ASSUME WellFormed, NEW a \in AppWrappers
    PROVE  ArePositive(AggregateRequests[a])
<1> DEFINE C == PodResources[a]
<1>1. /\ IsFiniteSet(DOMAIN C)
      /\ \A i \in DOMAIN C : C[i].replicas \in Nat /\ ArePositive(C[i]["requests"])
  BY DEF WellFormed
<1>2. AggregateRequests[a] = Aggregate(C, "requests")
  BY DEF WellFormed, AggregateRequests, Aggregate
<1> HIDE DEF C
<1> QED
  BY <1>1, <1>2, AggregatePositive

\* What the pods of an AppWrapper use is a sum of weights.
LEMMA UsageWeights ==
    ASSUME WellFormed, NEW a \in AppWrappers, NEW S, IsFiniteSet(S)
    PROVE  AreWeights(Total(LAMBDA p : NewWeightsForPod(PodSpec[a]), S))
<1> DEFINE w == NewWeightsForPod(PodSpec[a])
           F == [p \in S |-> w]
           Loop(g) ==
              g = [s \in SUBSET S |->
                     IF s = {} THEN Zero ELSE Plus(w, g[s \ {Pick(s)}])]
           h == CHOOSE g : Loop(g)
<1>1. AreWeights(w)
  BY DEF WellFormed
<1> HIDE DEF w
<1>2. Total(LAMBDA p : w, S) = h[S]
  BY DEF Total, MapThenFoldSet, Pick
<1>3. ASSUME NEW g PROVE Loop(g) <=> Adds(F, S, g)
  <2>1. \A s \in SUBSET S : s # {} => F[Pick(s)] = w
    BY DEF Pick
  <2> QED
    BY <2>1 DEF Adds
<1>4. \A p \in S : AreWeights(F[p])
  BY <1>1
<1> HIDE DEF F
<1>5. Adds(F, S, h)
  <2>1. \E g : Loop(g)
    BY <1>3, AddsExists
  <2>2. Loop(h)
    <3> HIDE DEF Loop
    <3> QED
      BY <2>1
  <2> QED
    BY <1>3, <2>2
<1> HIDE DEF h
<1>6. Total(LAMBDA p : w, S) = Sum(F, S)
  BY <1>2, <1>5, SumAdds
<1>7. AreWeights(Sum(F, S))
  BY <1>4, SumWeights
<1> QED
  BY <1>6, <1>7 DEF w

-----------------------------------------------------------------------------
(* The inductive invariant.                                                *)

\* The AppWrappers that hold resources.
Held == {a \in AppWrappers : store[a].ex = "live" /\ store[a].step # "Idle"}

\* What counts against a, which is selected: what is held at its priority and
\* above, and what is to be dispatched before it.
Plan(a) ==
    {b \in Held : Priority[b] >= Priority[a]}
        \cup {b \in todo : b = a \/ Before(b, a)}

\* What was selected some time ago still fits, a resource at a time.
Planned ==
    \A a \in todo : \A k \in DOMAIN AggregateRequests[a] :
        AggregateRequests[a][k] > 0 =>
            /\ k \in DOMAIN Capacity
            /\ Quantity(TotalRequest(Plan(a)), k) <= Capacity[k]

PodsFinite ==
    \A a \in AppWrappers :
        /\ IsFiniteSet(pods[a])
        /\ \A c \in Controllers : IsFiniteSet(podview[c][a])

CapacityInv ==
    /\ SInv
    /\ HandOff
    /\ PodsFinite
    /\ Planned
    /\ NoOvercommit

-----------------------------------------------------------------------------
(* What AppWrappers ask for together.                                      *)

\* Sums of requests: quantities are not negative, and more AppWrappers ask for
\* more.
LEMMA RequestSums ==
    ASSUME WellFormed, NEW S \in SUBSET AppWrappers, NEW k
    PROVE  /\ IsFiniteSet(S)
           /\ TotalRequest(S) = Sum(AggregateRequests, S)
           /\ Quantity(TotalRequest(S), k) \in Int
           /\ \A T \in SUBSET S :
                 /\ Quantity(TotalRequest(T), k) \in Int
                 /\ Quantity(TotalRequest(T), k) <= Quantity(TotalRequest(S), k)
<1>1. IsFiniteSet(S)
  BY FS_Subset DEF WellFormed
<1>2. \A T : TotalRequest(T) = Sum(AggregateRequests, T)
  BY TotalIsSum DEF TotalRequest
<1>3. \A a \in S : ArePositive(AggregateRequests[a])
  BY RequestPositive
<1>4. ASSUME NEW T \in SUBSET S
      PROVE  /\ Quantity(TotalRequest(T), k) \in Int
             /\ Quantity(TotalRequest(T), k) <= Quantity(TotalRequest(S), k)
  <2>1. IsFiniteSet(T) /\ \A a \in T : AreWeights(AggregateRequests[a])
    BY <1>1, <1>3, FS_Subset DEF ArePositive
  <2>2. Quantity(Sum(AggregateRequests, T), k) \in Int
    BY <2>1, SumQuantity
  <2>3. Quantity(Sum(AggregateRequests, T), k) <=
           Quantity(Sum(AggregateRequests, S), k)
    BY <1>1, <1>3, SumGrows
  <2> QED
    BY <1>2, <2>2, <2>3
<1>5. Quantity(TotalRequest(S), k) \in Int
  BY <1>4
<1> QED
  BY <1>1, <1>2, <1>4, <1>5

\* One more AppWrapper adds its request at most.
LEMMA RequestAdded ==
    ASSUME WellFormed, NEW S \in SUBSET AppWrappers, NEW a \in AppWrappers, NEW k
    PROVE  /\ Quantity(AggregateRequests[a], k) \in Int
           /\ Quantity(AggregateRequests[a], k) >= 0
           /\ Quantity(TotalRequest(S \cup {a}), k) <=
                 Quantity(TotalRequest(S), k) + Quantity(AggregateRequests[a], k)
           /\ a \notin S => Quantity(TotalRequest(S \cup {a}), k) =
                 Quantity(TotalRequest(S), k) + Quantity(AggregateRequests[a], k)
<1>1. /\ Quantity(AggregateRequests[a], k) \in Int
      /\ Quantity(AggregateRequests[a], k) >= 0
  BY RequestPositive, QuantityType DEF ArePositive
<1> DEFINE T == S \cup {a}
<1>2. T \in SUBSET AppWrappers
  OBVIOUS
<1>3. /\ TotalRequest(T) = Sum(AggregateRequests, T)
      /\ TotalRequest(S) = Sum(AggregateRequests, S)
      /\ IsFiniteSet(T)
      /\ Quantity(TotalRequest(S), k) \in Int
  <2> HIDE DEF T
  <2> QED
    BY <1>2, RequestSums
<1>4. CASE a \in S
  <2>1. TotalRequest(S \cup {a}) = TotalRequest(S)
    <3>1. S \cup {a} = S
      BY <1>4
    <3> QED
      BY <3>1
  <2>2. Quantity(TotalRequest(S \cup {a}), k) = Quantity(TotalRequest(S), k)
    BY <2>1
  <2> HIDE DEF T
  <2> QED
    BY <1>1, <1>3, <1>4, <2>2
<1>5. CASE a \notin S
  <2>1. T \ {a} = S /\ a \in T
    BY <1>5
  <2>2. \A b \in T : AreWeights(AggregateRequests[b])
    BY RequestPositive DEF ArePositive
  <2> HIDE DEF T
  <2>3. Quantity(Sum(AggregateRequests, T), k) =
           Quantity(AggregateRequests[a], k) + Quantity(Sum(AggregateRequests, T \ {a}), k)
    BY <1>3, <2>1, <2>2, SumQuantity
  <2>4. Quantity(TotalRequest(T), k) =
           Quantity(TotalRequest(S), k) + Quantity(AggregateRequests[a], k)
    <3>1. Sum(AggregateRequests, T \ {a}) = TotalRequest(S)
      BY <1>3, <2>1
    <3>2. Quantity(TotalRequest(T), k) =
             Quantity(AggregateRequests[a], k) + Quantity(TotalRequest(S), k)
      BY <1>3, <2>3, <3>1
    <3> QED
      BY <1>1, <1>3, <3>2
  <2>5. Quantity(TotalRequest(T), k) <=
           Quantity(TotalRequest(S), k) + Quantity(AggregateRequests[a], k)
    BY <1>1, <1>3, <2>4
  <2> QED
    BY <1>1, <2>4, <2>5 DEF T
<1> QED
  BY <1>4, <1>5

\* The AppWrappers in flight book at least what they ask for (dispatch_logic.go:98).
LEMMA BookedWeights ==
    ASSUME WellFormed, TypeOK, PodsFinite, NEW a \in InFlight
    PROVE  /\ a \in AppWrappers
           /\ ArePositive(Booked[a])
           /\ \A k : Quantity(AggregateRequests[a], k) <= Quantity(Booked[a], k)
<1>1. a \in AppWrappers
  BY DEF InFlight, Listed
<1> DEFINE P == {p \in PodView(D, a) : p.phase \in {"Scheduled", "Running"}}
           u == Total(LAMBDA p : NewWeightsForPod(PodSpec[a]), P)
<1>2. IsFiniteSet(P)
  <2>1. IsFiniteSet(PodView(D, a))
    BY <1>1, ControllersType DEF PodsFinite, PodView
  <2> QED
    BY <2>1, FS_Subset
<1>3. AreWeights(u)
  <2> HIDE DEF P
  <2> QED
    BY <1>1, <1>2, UsageWeights
<1>4. Booked[a] = Maximum(AggregateRequests[a], u)
  BY DEF Booked
<1>5. ArePositive(AggregateRequests[a]) /\ AreWeights(AggregateRequests[a])
  BY <1>1, RequestPositive DEF ArePositive
<1> HIDE DEF u
<1>6. ArePositive(Booked[a]) /\ AreWeights(Booked[a])
  BY <1>3, <1>4, <1>5, MaximumWeights DEF ArePositive
<1>7. ASSUME NEW k
      PROVE  Quantity(AggregateRequests[a], k) <= Quantity(Booked[a], k)
  <2>1. Quantity(Booked[a], k) >= Quantity(AggregateRequests[a], k)
    BY <1>3, <1>4, <1>5, MaximumWeights
  <2>2. Quantity(Booked[a], k) \in Int /\ Quantity(AggregateRequests[a], k) \in Int
    BY <1>5, <1>6, QuantityType
  <2> QED
    BY <2>1, <2>2
<1> QED
  BY <1>1, <1>6, <1>7

-----------------------------------------------------------------------------
(* Selection.                                                              *)

\* selectForDispatch leaves room for everything that holds resources at the
\* priority of a selected AppWrapper and above, and for what it selects before.
LEMMA SelectionFits ==
    ASSUME WellFormed, TypeOK, PodsFinite, InFlightAccounted,
           NEW S \in SUBSET AppWrappers, NEW a \in S,
           FitsCapacity(a, S, Capacity, Booked),
           NEW k \in DOMAIN AggregateRequests[a], AggregateRequests[a][k] > 0
    PROVE  /\ k \in DOMAIN Capacity
           /\ Quantity(TotalRequest({b \in Held : Priority[b] >= Priority[a]}
                          \cup {b \in S : b = a \/ Before(b, a)}), k) <= Capacity[k]
<1> DEFINE p == Priority[a]
           I == {b \in InFlight : Priority[b] >= p}
           B == {b \in S : Before(b, a)}
           all == {b \in Held : Priority[b] >= Priority[a]}
                     \cup {b \in S : b = a \/ Before(b, a)}
           q(w) == Quantity(w, k)
           need == AggregateRequests[a]
           left == Minus(Minus(Capacity, Reserved(Booked, p)), TotalRequest(B))
<1>1. I \in SUBSET AppWrappers /\ B \in SUBSET AppWrappers
  BY DEF InFlight, Listed
<1>2. q(need) = need[k] /\ q(need) \in Int /\ q(need) > 0
  BY RequestAdded DEF Quantity
<1>3. Fits(need, left)
  BY DEF FitsCapacity, Available
<1>4. k \in DOMAIN left /\ ~(need[k] > left[k])
  BY <1>2, <1>3 DEF Fits, Insufficient
<1>5. /\ Reserved(Booked, p) = Sum(Booked, I)
      /\ \A b \in I : ArePositive(Booked[b]) /\ AreWeights(Booked[b])
      /\ AreWeights(Reserved(Booked, p))
      /\ q(TotalRequest(I)) <= q(Reserved(Booked, p))
      /\ q(TotalRequest(I)) \in Int
  <2>1. DOMAIN Booked = InFlight
    BY DEF Booked
  <2>2. Reserved(Booked, p) = Sum(Booked, I)
    BY <2>1, TotalIsSum DEF Reserved
  <2>3. \A b \in I : ArePositive(Booked[b]) /\ AreWeights(Booked[b])
    BY BookedWeights DEF ArePositive
  <2>4. IsFiniteSet(I) /\ TotalRequest(I) = Sum(AggregateRequests, I)
        /\ q(TotalRequest(I)) \in Int
    BY <1>1, RequestSums
  <2>5. \A b \in I : AreWeights(AggregateRequests[b])
    BY <1>1, RequestPositive DEF ArePositive
  <2>6. \A b \in I : q(AggregateRequests[b]) <= q(Booked[b])
    BY BookedWeights
  <2> HIDE DEF I
  <2>7. q(Sum(AggregateRequests, I)) <= q(Sum(Booked, I))
    BY <2>3, <2>4, <2>5, <2>6, SumDominated
  <2>8. AreWeights(Sum(Booked, I))
    BY <2>3, <2>4, SumWeights
  <2> QED
    BY <2>2, <2>3, <2>4, <2>7, <2>8
<1>6. /\ AreWeights(TotalRequest(B))
      /\ q(TotalRequest(B)) \in Int
      /\ q(TotalRequest(B)) >= 0
      /\ q(TotalRequest(I)) >= 0
      /\ q(TotalRequest(I \cup B)) <= q(TotalRequest(I)) + q(TotalRequest(B))
  <2>1. /\ IsFiniteSet(B) /\ TotalRequest(B) = Sum(AggregateRequests, B)
        /\ q(TotalRequest(B)) \in Int
    BY <1>1, RequestSums
  <2>2. IsFiniteSet(I) /\ TotalRequest(I) = Sum(AggregateRequests, I)
    BY <1>1, RequestSums
  <2>3. TotalRequest(I \cup B) = Sum(AggregateRequests, I \cup B)
    BY TotalIsSum DEF TotalRequest
  <2>4. \A b \in I \cup B : /\ ArePositive(AggregateRequests[b])
                          /\ AreWeights(AggregateRequests[b])
    BY <1>1, RequestPositive DEF ArePositive
  <2> HIDE DEF I, B
  <2>5. AreWeights(Sum(AggregateRequests, B))
    BY <2>1, <2>4, SumWeights
  <2>6. q(Sum(AggregateRequests, B)) >= 0 /\ q(Sum(AggregateRequests, I)) >= 0
    BY <2>1, <2>2, <2>4, SumPositive
  <2>7. q(Sum(AggregateRequests, I \cup B)) <=
           q(Sum(AggregateRequests, I)) + q(Sum(AggregateRequests, B))
    BY <2>1, <2>2, <2>4, SumUnion
  <2> QED
    BY <2>1, <2>2, <2>3, <2>5, <2>6, <2>7
<1>7. all \subseteq (I \cup B) \cup {a}
  BY DEF Held, InFlightAccounted
<1>8. /\ q(TotalRequest(all)) <= q(TotalRequest((I \cup B) \cup {a}))
      /\ q(TotalRequest(all)) \in Int
      /\ q(TotalRequest((I \cup B) \cup {a})) \in Int
  <2> DEFINE W == (I \cup B) \cup {a}
  <2>1. W \in SUBSET AppWrappers
    BY <1>1
  <2> HIDE DEF W, all
  <2>2. all \in SUBSET W
    BY <1>7 DEF W
  <2>3. /\ q(TotalRequest(all)) <= q(TotalRequest(W))
        /\ q(TotalRequest(all)) \in Int
        /\ q(TotalRequest(W)) \in Int
    BY <2>1, <2>2, RequestSums
  <2> QED
    BY <2>3 DEF W
<1>9. /\ q(TotalRequest((I \cup B) \cup {a})) <= q(TotalRequest(I \cup B)) + q(need)
      /\ q(TotalRequest(I \cup B)) \in Int
  <2> DEFINE W == I \cup B
  <2>1. W \in SUBSET AppWrappers
    BY <1>1
  <2> HIDE DEF W
  <2>2. /\ q(TotalRequest(W \cup {a})) <= q(TotalRequest(W)) + q(need)
        /\ q(TotalRequest(W)) \in Int
    BY <2>1, RequestAdded, RequestSums
  <2> QED
    BY <2>2 DEF W
<1>10. /\ q(left) = (q(Capacity) - q(Reserved(Booked, p))) - q(TotalRequest(B))
       /\ left[k] = q(left)
       /\ q(Capacity) \in Int
       /\ q(Reserved(Booked, p)) \in Int
  <2>1. AreWeights(Capacity)
    BY DEF WellFormed
  <2> DEFINE m == Minus(Capacity, Reserved(Booked, p))
  <2>2. AreWeights(m) /\ q(m) = q(Capacity) - q(Reserved(Booked, p))
    BY <1>5, <2>1, MinusQuantity
  <2>3. left = Minus(m, TotalRequest(B))
    OBVIOUS
  <2> HIDE DEF m, left
  <2>4. q(left) = q(m) - q(TotalRequest(B))
    BY <1>6, <2>2, <2>3, MinusQuantity
  <2>5. left[k] = q(left)
    BY <1>4 DEF Quantity
  <2>6. q(Capacity) \in Int /\ q(Reserved(Booked, p)) \in Int
    BY <1>5, <2>1, QuantityType
  <2> QED
    BY <2>2, <2>4, <2>5, <2>6
<1> HIDE DEF I, B, all, need, left, q, p
<1>11. q(TotalRequest(all)) <= q(Capacity) /\ q(Capacity) > 0
  BY <1>2, <1>4, <1>5, <1>6, <1>8, <1>9, <1>10
<1>12. k \in DOMAIN Capacity /\ q(Capacity) = Capacity[k]
  BY <1>11 DEF q, Quantity
<1> QED
  BY <1>11, <1>12 DEF all, q

-----------------------------------------------------------------------------
(* Who comes to hold resources.                                            *)

\* An update of an AppWrapper that holds resources, or that does not come to hold
\* any.
LEMMA UpdateHolds ==
    ASSUME TypeOK, NEW a \in AppWrappers, NEW read, NEW new \in Object, NEW r,
           Update(a, read, new, r),
           new.step # "Idle" => read.ex = "live" /\ read.step # "Idle"
    PROVE  Held' \subseteq Held
<1>1. CASE Accepted(a, read, r)
  <2>1. /\ read = store[a]
        /\ store'[a] = Stored(new)
        /\ \A b \in AppWrappers \ {a} : store'[b] = store[b]
    BY <1>1 DEF Accepted, Update, TypeOK, ReconcilerTypeOK
  <2>2. Stored(new).step = new.step
    BY DEF Stored, Object
  <2> QED
    BY <2>1, <2>2 DEF Held
<1>2. CASE ~Accepted(a, read, r)
  BY <1>2 DEF Update, Held
<1> QED
  BY <1>1, <1>2

\* An AppWrapper comes to hold resources when it is dispatched, and only then.
LEMMA DispatcherHolds ==
    ASSUME SInv, NEW quota, DispatcherStep(Capacity, quota)
    PROVE  \/ Held' \subseteq Held /\ todo' \subseteq todo
           \/ \E r \in Outcomes : DDispatch(r)
           \/ \E paused \in SUBSET Requeued : DSelect(paused, Capacity, quota)
<1> DEFINE Goal == Held' \subseteq Held /\ todo' \subseteq todo
<1> USE ControllersType DEF SInv, IInv
<1>0. \A a \in AppWrappers : /\ DView(a) \in Object /\ view[D][a] = DView(a)
                             /\ QueuedIsIdle(DView(a))
  BY DEF DView, TypeOK, ReconcilerTypeOK, StatusesValid
<1>b. UNCHANGED <<store, todo>> => Goal
  BY DEF Held
<1>1. ASSUME NEW a \in AppWrappers,
             DMissing(a) \/ DStale(a) \/ DAwaitRunner(a) \/ DNothing(a)
      PROVE  Goal
  BY <1>1, <1>b DEF DMissing, DStale, AbortStale, DAwaitRunner, DNothing,
                    dispatcherVars
<1>2. ASSUME NEW a \in AppWrappers, NEW r \in Outcomes, DFinalize(a, r) PROVE Goal
  <2> DEFINE new == [DView(a) EXCEPT !.fin = @ \ {"dispatcher"}]
  <2>1. DView(a).ex = "live"
    BY <1>0, <1>2 DEF DFinalize, DReconciling, Reconciling
  <2>2. new \in Object /\ new.step = DView(a).step
    BY <1>0 DEF Object
  <2>3. UNCHANGED store \/ Update(a, DView(a), new, r)
    BY <1>2 DEF DFinalize
  <2>4. UNCHANGED todo
    BY <1>2 DEF DFinalize
  <2> HIDE DEF new
  <2> QED
    BY <1>b, <2>1, <2>2, <2>3, <2>4, UpdateHolds
<1>3. ASSUME NEW a \in AppWrappers, NEW r \in Outcomes, DAddFinalizers(a, r)
      PROVE  Goal
  <2> DEFINE new == WithFinalizers(DView(a))
  <2>1. DView(a).ex = "live"
    BY <1>0, <1>3 DEF DAddFinalizers, DReconciling, Reconciling
  <2>2. new \in Object /\ new.step = DView(a).step
    BY <1>0, ChangedObjectType DEF Object, WithFinalizers
  <2>3. UNCHANGED store \/ Update(a, DView(a), new, r)
    BY <1>3 DEF DAddFinalizers
  <2>4. UNCHANGED todo
    BY <1>3 DEF DAddFinalizers
  <2> HIDE DEF new
  <2> QED
    BY <1>b, <2>1, <2>2, <2>3, <2>4, UpdateHolds
<1>4. ASSUME NEW r \in Outcomes, DQueueNew(r) PROVE Goal
  <2> DEFINE a    == adding
             read == WithFinalizers(DView(a))
             new  == Transition(read, "Queued", "Idle")
  <2>1. a \in AppWrappers
    BY <1>4 DEF DQueueNew, TypeOK, DispatcherTypeOK
  <2>2. read \in Object
    BY <1>0, <2>1, ChangedObjectType
  <2>3. Update(a, read, new, r) /\ UNCHANGED todo
    BY <1>4 DEF DQueueNew, UpdateStatus
  <2> HIDE DEF a, read
  <2>4. new \in Object /\ new.step = "Idle"
    BY <2>2, TransitionType, TransitionKeeps DEF States, Steps
  <2> HIDE DEF new
  <2> QED
    BY <2>1, <2>3, <2>4, UpdateHolds
<1>5. ASSUME NEW a \in AppWrappers, NEW r \in Outcomes, DQueued(a, r) PROVE Goal
  <2> DEFINE new == [DView(a) EXCEPT !.cond = decisions[a]]
  <2>1. DView(a).ex = "live"
    BY <1>0, <1>5 DEF DQueued, DReconciling, Reconciling
  <2>2. decisions[a] \in Reasons
    BY DEF TypeOK, DispatcherTypeOK, QueuingDecision, Reasons
  <2>3. new \in Object /\ new.step = DView(a).step
    BY <1>0, <2>2 DEF Object
  <2>4. UNCHANGED store \/ Update(a, DView(a), new, r)
    BY <1>5 DEF DQueued
  <2>5. UNCHANGED todo
    BY <1>5 DEF DQueued
  <2> HIDE DEF new
  <2> QED
    BY <1>b, <2>1, <2>3, <2>4, <2>5, UpdateHolds
<1>6. ASSUME NEW a \in AppWrappers, NEW r \in Outcomes, DHandOver(a, r) PROVE Goal
  <2> DEFINE new == Transition(DView(a), "Running", "Accepting")
  <2>1. DView(a).ex = "live" /\ DView(a).step = "Dispatching"
    BY <1>0, <1>6 DEF DHandOver, DReconciling, Reconciling, DState
  <2>2. new \in Object
    BY <1>0, TransitionType DEF States, Steps
  <2>3. Update(a, DView(a), new, r) /\ UNCHANGED todo
    BY <1>6 DEF DHandOver, UpdateStatus, dispatcherVars
  <2> HIDE DEF new
  <2> QED
    BY <2>1, <2>2, <2>3, UpdateHolds
<1>7. ASSUME NEW a \in AppWrappers, NEW r \in Outcomes, DRequeue(a, r) PROVE Goal
  <2> DEFINE o   == RequeuedObject(DView(a))
             new == Transition(o, "Queued", "Idle")
  <2>1. Update(a, DView(a), new, r) /\ UNCHANGED todo
    BY <1>7 DEF DRequeue, UpdateStatus
  <2>2. o \in Object
    BY <1>0, ChangedObjectType
  <2> HIDE DEF o
  <2>3. new \in Object /\ new.step = "Idle"
    BY <2>2, TransitionType, TransitionKeeps DEF States, Steps
  <2> HIDE DEF new
  <2> QED
    BY <2>1, <2>3, UpdateHolds
<1>8. ASSUME NEW a \in AppWrappers, NEW r \in Outcomes, DFailed(a, r) PROVE Goal
  <2> DEFINE new == Transition(DView(a), "Failed", "Idle")
  <2>1. Update(a, DView(a), new, r) /\ UNCHANGED todo
    BY <1>8 DEF DFailed, UpdateStatus, dispatcherVars
  <2>2. new \in Object /\ new.step = "Idle"
    BY <1>0, TransitionType, TransitionKeeps DEF States, Steps
  <2> HIDE DEF new
  <2> QED
    BY <2>1, <2>2, UpdateHolds
<1>9. CASE DAbort
  BY <1>9 DEF DAbort, Held
<1> QED
  BY <1>1, <1>2, <1>3, <1>4, <1>5, <1>6, <1>7, <1>8, <1>9
     DEF DispatcherStep, DRequestStep, DReconcile

\* The other steps of the system only ever give resources back.
LEMMA OthersHold ==
    ASSUME SInv,
           \/ UserStep
           \/ \E c \in Controllers, a \in AppWrappers : Informer(c, a)
           \/ RunnerStep /\ UNCHANGED dispatcherVars
           \/ \E a \in AppWrappers : Cluster(a) /\ UNCHANGED <<dispatcherVars, runner>>
           \/ \E c \in Restartable : Restart(c)
           \/ UNCHANGED vars
    PROVE  Held' \subseteq Held /\ todo' \subseteq todo
<1> DEFINE Goal == Held' \subseteq Held /\ todo' \subseteq todo
<1> USE ControllersType DEF SInv, IInv
<1>1. CASE UserStep
  <2>1. PICK a \in AppWrappers : UserWrites(a)
    BY <1>1, UserMoves
  <2>2. store[a].ex = "new" => store[a].step = "Idle"
    BY DEF DispatcherSees
  <2>3. store[a].ex \in {"new", "live", "gone"}
    BY DEF TypeOK, ReconcilerTypeOK, Object
  <2>4. Held' \subseteq Held
    BY <2>1, <2>2, <2>3 DEF UserWrites, SameStatus, Held
  <2> QED
    BY <1>1, <2>4 DEF UserStep, dispatcherVars
<1>2. CASE \E c \in Controllers, a \in AppWrappers : Informer(c, a)
  BY <1>2 DEF Informer, Sync, dispatcherVars, Held
<1>4. CASE RunnerStep /\ UNCHANGED dispatcherVars
  <2>1. CASE Calm
    BY <1>4, <2>1 DEF Calm, dispatcherVars, Held
  <2>2. ASSUME NEW a \in AppWrappers, Writes(R, a) PROVE Goal
    <3>1. Transits(R, a) => store[a].ex = "live" /\ store[a].step # "Idle"
      BY DEF Transits, SameStatus, OwnSteps, D, R, RunnerSteps
    <3>2. SameStatus(store'[a], store[a]) /\ store'[a].ex = "live" =>
             store'[a].step = store[a].step /\ store[a].ex = "live"
      BY <2>2 DEF Writes, SameStatus
    <3>3. Held' \subseteq Held
      BY <2>2, <3>1, <3>2 DEF Writes, Held
    <3> QED
      BY <1>4, <3>3 DEF dispatcherVars
  <2> QED
    BY <1>4, <2>1, <2>2, RunnerMoves
<1>5. CASE \E a \in AppWrappers : Cluster(a) /\ UNCHANGED <<dispatcherVars, runner>>
  BY <1>5 DEF Cluster, ItemGone, ItemComplete, PodCreated, PodPhase, PodEvicted, PodSync,
              PodGone, reconcilerVars, dispatcherVars, Held
<1>6. CASE \E c \in Restartable : Restart(c)
  BY <1>6 DEF Restart, DispatcherRestart, RunnerRestart, RestartReconciler,
              dispatcherVars, Held
<1>7. CASE UNCHANGED vars
  BY <1>7 DEF vars, reconcilerVars, dispatcherVars, Held
<1> QED
  BY <1>1, <1>2, <1>4, <1>5, <1>6, <1>7

\* Either way.
LEMMA NextHolds ==
    ASSUME SInv, [AnyNext]_vars
    PROVE  \/ Held' \subseteq Held /\ todo' \subseteq todo
           \/ \E r \in Outcomes : DDispatch(r)
           \/ Selects
<1>1. CASE DStep
  BY <1>1, DispatcherHolds DEF DStep, Selects
<1>2. CASE ~DStep
  BY <1>2, OthersHold DEF AnyNext
<1> QED
  BY <1>1, <1>2

\* dispatch takes the next AppWrapper that was selected, or gives up.
LEMMA DispatchHolds ==
    ASSUME TypeOK, NEW r, DDispatch(r)
    PROVE  \E a \in todo : /\ a \in AppWrappers
                           /\ \A b \in todo \ {a} : Before(a, b)
                           /\ Held' \subseteq Held \cup {a}
                           /\ todo' \subseteq todo \ {a}
                           /\ \A b \in AppWrappers \ {a} : store'[b] = store[b]
<1>1. PICK a \in todo :
         /\ IsFirst(a, todo)
         /\ todo' = IF Succeeds(a, DView(a), r) THEN todo \ {a} ELSE {}
         /\ Update(a, DView(a),
                   Transition([DView(a) EXCEPT !.cond = "Dispatched"],
                              "Running", "Dispatching"), r)
  BY DEF DDispatch, UpdateStatus
<1>2. a \in AppWrappers
  BY DEF TypeOK, DispatcherTypeOK
<1>3. \A b \in AppWrappers \ {a} : store'[b] = store[b]
  BY <1>1, <1>2 DEF Update, TypeOK, ReconcilerTypeOK
<1>4. Held' \subseteq Held \cup {a}
  BY <1>3 DEF Held
<1> QED
  BY <1>1, <1>2, <1>3, <1>4 DEF IsFirst

-----------------------------------------------------------------------------
(* The invariant is preserved, part by part.                               *)

\* Informers list pods that there are, or were when they were last listed.
LEMMA PodsListed ==
    ASSUME TypeOK, [AnyNext]_vars, NEW c \in Controllers, NEW a \in AppWrappers
    PROVE  podview'[c][a] \in {podview[c][a], pods[a]}
<1>0. podview \in [Controllers -> [AppWrappers -> SUBSET Pod]]
  BY DEF TypeOK, ResourceTypeOK
<1>1. CASE RunnerStep
  <2>1. ASSUME NEW force, RDeleteAgain(force) PROVE UNCHANGED podview
    BY <2>1 DEF RDeleteAgain, ForceDelete, ForceDeleteItems, resourceVars
  <2> QED
    BY <1>1, <2>1, ZenonT(40)
       DEF RunnerStep, RReconcile, RMissing, RStale, RForget, RConvert, RAccept,
           RCreate, RSucceed, RUnhealthy, RHealthy, RDelete, RNothing, RCreated,
           RCreateFailed, RDeleted, RCreateItem, RDeleteItem, resourceVars
<1>2. ASSUME NEW b \in AppWrappers, Cluster(b)
      PROVE  podview'[c][a] \in {podview[c][a], pods[a]}
  <2>1. ASSUME NEW d \in Controllers, PodSync(d, b)
        PROVE  podview'[c][a] \in {podview[c][a], pods[a]}
    BY <1>0, <2>1 DEF PodSync
  <2>2. ASSUME ~ \E d \in Controllers : PodSync(d, b) PROVE UNCHANGED podview
    BY <1>2, <2>2
       DEF Cluster, ItemGone, ItemComplete, PodCreated, PodPhase, PodEvicted, PodGone
  <2> QED
    BY <2>1, <2>2
<1>3. ASSUME NEW d \in Controllers, PodRelist(d)
      PROVE  podview'[c][a] \in {podview[c][a], pods[a]}
  BY <1>0, <1>3 DEF PodRelist
<1> QED
  BY <1>1, <1>2, <1>3, ControllersType
     DEF AnyNext, UserStep, Informer, DStep, DispatcherStep, Restart, DispatcherRestart,
         RunnerRestart, vars, resourceVars

\* At most one pod of an AppWrapper is new.
LEMMA PodsFiniteNext ==
    ASSUME TypeOK, PodsFinite, [AnyNext]_vars
    PROVE  PodsFinite'
<1> SUFFICES ASSUME NEW a \in AppWrappers PROVE IsFiniteSet(pods'[a])
  BY PodsListed DEF PodsFinite
<1>0. IsFiniteSet(pods[a]) /\ pods \in [AppWrappers -> SUBSET Pod]
  BY DEF PodsFinite, TypeOK, ResourceTypeOK
<1>1. ASSUME NEW p, pods'[a] \subseteq pods[a] \cup {p} PROVE IsFiniteSet(pods'[a])
  BY <1>0, <1>1, FS_AddElement, FS_Subset
<1>2. CASE UNCHANGED pods
  BY <1>0, <1>2
<1>3. ASSUME NEW b \in AppWrappers, NEW i \in Items, PodCreated(b, i)
      PROVE  IsFiniteSet(pods'[a])
  <2>1. PICK p : pods' = [pods EXCEPT ![b] = @ \cup {p}]
    BY <1>3 DEF PodCreated
  <2> QED
    BY <1>0, <1>1, <2>1
<1>4. ASSUME NEW b \in AppWrappers, NEW q, NEW phase,
             PodPhase(b, q, phase) \/ PodEvicted(b, q) \/ PodGone(b, q)
      PROVE  IsFiniteSet(pods'[a])
  <2>1. CASE PodPhase(b, q, phase)
    <3>1. PICK p : pods' = [pods EXCEPT ![b] = (@ \ {q}) \cup {p}]
      BY <2>1 DEF PodPhase
    <3> QED
      BY <1>0, <1>1, <3>1
  <2>2. CASE PodEvicted(b, q)
    <3>1. PICK p : pods' = [pods EXCEPT ![b] = (@ \ {q}) \cup {p}]
      BY <2>2 DEF PodEvicted
    <3> QED
      BY <1>0, <1>1, <3>1
  <2>3. CASE PodGone(b, q)
    BY <1>0, <1>1, <2>3 DEF PodGone
  <2> QED
    BY <1>4, <2>1, <2>2, <2>3
<1>5. ASSUME NEW force, RDeleteAgain(force) PROVE IsFiniteSet(pods'[a])
  <2>1. PICK listed : \/ ForceDelete(runner.aw, listed)
                      \/ UNCHANGED pods
    BY <1>5 DEF RDeleteAgain, resourceVars
  <2>2. CASE ForceDelete(runner.aw, listed) /\ listed # {}
    <3>1. PICK kept : pods' = [pods EXCEPT ![runner.aw] =
                         {p \in @ : ~ \E q \in listed \ kept : SameName(p, q)}]
      BY <2>2 DEF ForceDelete
    <3>2. pods'[a] \subseteq pods[a]
      BY <1>0, <3>1, SMTT(20)
    <3> QED
      BY <1>0, <3>2, FS_Subset
  <2> QED
    BY <1>2, <2>1, <2>2 DEF ForceDelete, ForceDeleteItems
<1>6. CASE RunnerStep
  BY <1>2, <1>5, <1>6, ZenonT(40)
     DEF RunnerStep, RReconcile, RMissing, RStale, RForget, RConvert, RAccept,
         RCreate, RSucceed, RUnhealthy, RHealthy, RDelete, RNothing, RCreated,
         RCreateFailed, RDeleted, RCreateItem, RDeleteItem, resourceVars
<1>7. ASSUME NEW b \in AppWrappers, Cluster(b) PROVE IsFiniteSet(pods'[a])
  BY <1>2, <1>3, <1>4, <1>7 DEF Cluster, ItemGone, ItemComplete, PodSync
<1> QED
  BY <1>2, <1>6, <1>7
     DEF AnyNext, UserStep, Informer, DStep, DispatcherStep, Restart, DispatcherRestart,
         RunnerRestart, PodRelist, vars, resourceVars

\* What counts against a selected AppWrapper only ever shrinks.
LEMMA PlanShrinks ==
    ASSUME WellFormed, TypeOK, Planned, todo' \subseteq todo,
           \A a \in todo' : Plan(a)' \subseteq Plan(a)
    PROVE  Planned'
<1> SUFFICES ASSUME NEW a \in todo', NEW k \in DOMAIN AggregateRequests[a],
                    AggregateRequests[a][k] > 0
             PROVE  /\ k \in DOMAIN Capacity
                    /\ Quantity(TotalRequest(Plan(a)'), k) <= Capacity[k]
  BY DEF Planned
<1>1. /\ k \in DOMAIN Capacity
      /\ Quantity(TotalRequest(Plan(a)), k) <= Capacity[k]
  BY DEF Planned
<1>2. Plan(a) \in SUBSET AppWrappers
  BY DEF Plan, Held, TypeOK, DispatcherTypeOK
<1>3. /\ Quantity(TotalRequest(Plan(a)), k) \in Int
      /\ Quantity(TotalRequest(Plan(a)'), k) \in Int
      /\ Quantity(TotalRequest(Plan(a)'), k) <= Quantity(TotalRequest(Plan(a)), k)
  BY <1>2, RequestSums
<1>4. Capacity[k] \in Int
  BY <1>1 DEF WellFormed, AreWeights
<1> QED
  BY <1>1, <1>3, <1>4

\* Every step preserves Planned: others only give back what they hold, and what is
\* dispatched was counted already.
LEMMA PlannedNext ==
    ASSUME WellFormed, SInv, PodsFinite, Planned, InFlightAccounted, [AnyNext]_vars
    PROVE  Planned'
<1> USE DEF SInv, IInv
<1>1. CASE Held' \subseteq Held /\ todo' \subseteq todo
  <2>1. \A a \in todo' : Plan(a)' \subseteq Plan(a)
    BY <1>1 DEF Plan
  <2> QED
    BY <1>1, <2>1, PlanShrinks
<1>2. ASSUME NEW r \in Outcomes, DDispatch(r) PROVE Planned'
  <2>1. PICK a \in todo : /\ a \in AppWrappers
                          /\ \A b \in todo \ {a} : Before(a, b)
                          /\ Held' \subseteq Held \cup {a}
                          /\ todo' \subseteq todo \ {a}
    BY <1>2, DispatchHolds
  <2>2. \A b \in todo' : Plan(b)' \subseteq Plan(b)
    BY <2>1 DEF Plan
  <2> QED
    BY <2>1, <2>2, PlanShrinks
<1>3. ASSUME NEW paused \in SUBSET Requeued, NEW quota, DSelect(paused, Capacity, quota)
      PROVE  Planned'
  <2>1. PICK S \in SUBSET Candidates(paused) :
           /\ IsSelection(S, Candidates(paused), Capacity, Booked, quota)
           /\ todo' = S
    BY <1>3 DEF DSelect
  <2>2. Held' = Held
    BY <1>3 DEF DSelect, reconcilerVars, Held
  <2>3. S \in SUBSET AppWrappers
    BY DEF Candidates, IdleCandidates, Listed
  <2>4. ASSUME NEW a \in S PROVE FitsCapacity(a, S, Capacity, Booked)
    BY <2>1 DEF IsSelection
  <2> SUFFICES ASSUME NEW a \in S, NEW k \in DOMAIN AggregateRequests[a],
                      AggregateRequests[a][k] > 0
               PROVE  /\ k \in DOMAIN Capacity
                      /\ Quantity(TotalRequest(Plan(a)'), k) <= Capacity[k]
    BY <2>1 DEF Planned
  <2>5. Plan(a)' = {b \in Held : Priority[b] >= Priority[a]}
                      \cup {b \in S : b = a \/ Before(b, a)}
    BY <2>1, <2>2 DEF Plan
  <2>6. FitsCapacity(a, S, Capacity, Booked)
    BY <2>4
  <2> QED
    BY <2>3, <2>5, <2>6, SelectionFits
<1> QED
  BY <1>1, <1>2, <1>3, NextHolds DEF Selects

\* The AppWrappers of the highest priority.
Top == {a \in AppWrappers : \A b \in AppWrappers : Priority[a] >= Priority[b]}

\* NoOvercommit, a resource at a time.
LEMMA NoOvercommitQuantities ==
    NoOvercommit <=>
        \A k : Quantity(TotalRequest(Top \cap Held), k) > 0 =>
                  /\ k \in DOMAIN Capacity
                  /\ ~(Quantity(TotalRequest(Top \cap Held), k) > Capacity[k])
<1>1. {a \in Top : store[a].ex = "live" /\ store[a].step # "Idle"} = Top \cap Held
  BY DEF Top, Held
<1>2. NoOvercommit <=> Fits(TotalRequest(Top \cap Held), Capacity)
  BY <1>1 DEF NoOvercommit, Top
<1> QED
  BY <1>2, FitsQuantities

\* Every step preserves NoOvercommit.
LEMMA NoOvercommitNext ==
    ASSUME WellFormed, SInv, Planned, NoOvercommit, [AnyNext]_vars
    PROVE  NoOvercommit'
<1> USE DEF SInv, IInv
<1>0. Top \cap Held \in SUBSET AppWrappers
  BY DEF Top
<1> DEFINE Within(k) ==
             Quantity(TotalRequest((Top \cap Held)'), k) > 0 =>
                /\ k \in DOMAIN Capacity
                /\ ~(Quantity(TotalRequest((Top \cap Held)'), k) > Capacity[k])
<1>5. ASSUME \A k : Within(k) PROVE NoOvercommit'
  <2>1. {a \in Top : store[a].ex = "live" /\ store[a].step # "Idle"}' = (Top \cap Held)'
    BY DEF Top, Held
  <2>2. NoOvercommit' <=> Fits(TotalRequest((Top \cap Held)'), Capacity)
    BY <2>1 DEF NoOvercommit, Top
  <2> QED
    BY <1>5, <2>2, FitsQuantities
<1>1. ASSUME NEW k, Quantity(TotalRequest((Top \cap Held)'), k) <=
                       Quantity(TotalRequest(Top \cap Held), k),
             Quantity(TotalRequest((Top \cap Held)'), k) > 0
      PROVE  /\ k \in DOMAIN Capacity
             /\ ~(Quantity(TotalRequest((Top \cap Held)'), k) > Capacity[k])
  <2>1. (Top \cap Held)' \in SUBSET AppWrappers
    BY DEF Top
  <2>2. /\ Quantity(TotalRequest(Top \cap Held), k) \in Int
        /\ Quantity(TotalRequest((Top \cap Held)'), k) \in Int
    BY <1>0, <2>1, RequestSums
  <2>3. /\ k \in DOMAIN Capacity
        /\ ~(Quantity(TotalRequest(Top \cap Held), k) > Capacity[k])
    BY <1>1, <2>2, NoOvercommitQuantities
  <2>4. Capacity[k] \in Int
    BY <2>3 DEF WellFormed, AreWeights
  <2> QED
    BY <1>1, <2>2, <2>3, <2>4
<1>2. CASE Held' \subseteq Held
  <2>1. (Top \cap Held)' \in SUBSET (Top \cap Held)
    BY <1>2 DEF Top
  <2>2. \A k : Quantity(TotalRequest((Top \cap Held)'), k) <=
                 Quantity(TotalRequest(Top \cap Held), k)
    BY <1>0, <2>1, RequestSums
  <2>3. \A k : Quantity(TotalRequest((Top \cap Held)'), k) > 0 =>
                  /\ k \in DOMAIN Capacity
                  /\ ~(Quantity(TotalRequest((Top \cap Held)'), k) > Capacity[k])
    BY <1>1, <2>2
  <2> QED
    BY <2>3, <1>5
<1>3. ASSUME NEW r \in Outcomes, DDispatch(r) PROVE NoOvercommit'
  <2>1. PICK a \in todo : a \in AppWrappers /\ Held' \subseteq Held \cup {a}
    BY <1>3, DispatchHolds
  <2> DEFINE old == Top \cap Held
             new == (Top \cap Held)'
  <2>2. CASE a \notin Top
    <3>1. new \in SUBSET old
      BY <2>1, <2>2 DEF Top
    <3>2. \A k : Quantity(TotalRequest(new), k) <= Quantity(TotalRequest(old), k)
      <4> HIDE DEF new, old
      <4>1. old \in SUBSET AppWrappers
        BY <1>0 DEF old
      <4> QED
        BY <4>1, <3>1, RequestSums
    <3>3. \A k : Within(k)
      BY <1>1, <3>2
    <3> QED
      BY <3>3, <1>5
  <2>3. CASE a \in Top
    <3>1. new \in SUBSET Plan(a) /\ Plan(a) \in SUBSET AppWrappers
      BY <2>1, <2>3 DEF Top, Plan, Held, TypeOK, DispatcherTypeOK
    <3>2. new \in SUBSET (old \cup {a}) /\ old \cup {a} \in SUBSET AppWrappers
      BY <2>1 DEF Top
    <3> SUFFICES ASSUME NEW k, Quantity(TotalRequest(new), k) > 0
                 PROVE  /\ k \in DOMAIN Capacity
                        /\ ~(Quantity(TotalRequest(new), k) > Capacity[k])
      BY <1>5
    <3>3. /\ Quantity(AggregateRequests[a], k) \in Int
          /\ Quantity(AggregateRequests[a], k) >= 0
          /\ Quantity(TotalRequest(old \cup {a}), k) <=
                Quantity(TotalRequest(old), k) + Quantity(AggregateRequests[a], k)
      BY <1>0, <2>1, RequestAdded
    <3>4. /\ Quantity(TotalRequest(new), k) \in Int
          /\ Quantity(TotalRequest(old \cup {a}), k) \in Int
          /\ Quantity(TotalRequest(new), k) <= Quantity(TotalRequest(old \cup {a}), k)
      <4> DEFINE W == old \cup {a}
      <4> HIDE DEF new, W
      <4>1. new \in SUBSET W /\ W \in SUBSET AppWrappers
        BY <3>2 DEF W
      <4>2. /\ Quantity(TotalRequest(new), k) \in Int
            /\ Quantity(TotalRequest(W), k) \in Int
            /\ Quantity(TotalRequest(new), k) <= Quantity(TotalRequest(W), k)
        BY <4>1, RequestSums
      <4> QED
        BY <4>2 DEF W
    <3>5. CASE Quantity(AggregateRequests[a], k) = 0
      <4>1. Quantity(TotalRequest(old), k) \in Int
        BY <1>0, RequestSums
      <4>2. Quantity(TotalRequest(new), k) <= Quantity(TotalRequest(old), k)
        <5> HIDE DEF new, old
        <5> QED
          BY <3>3, <3>4, <3>5, <4>1
      <4> QED
        BY <1>1, <4>2
    <3>6. CASE Quantity(AggregateRequests[a], k) > 0
      <4>1. k \in DOMAIN AggregateRequests[a] /\ AggregateRequests[a][k] > 0
        BY <3>6 DEF Quantity
      <4>2. /\ k \in DOMAIN Capacity
            /\ Quantity(TotalRequest(Plan(a)), k) <= Capacity[k]
        BY <2>1, <4>1 DEF Planned
      <4>3. /\ Quantity(TotalRequest(Plan(a)), k) \in Int
            /\ Quantity(TotalRequest(new), k) <= Quantity(TotalRequest(Plan(a)), k)
        <5> HIDE DEF new
        <5> QED
          BY <3>1, RequestSums
      <4>4. Capacity[k] \in Int
        BY <4>2 DEF WellFormed, AreWeights
      <4> HIDE DEF new
      <4> QED
        BY <3>4, <4>2, <4>3, <4>4
    <3> QED
      BY <3>3, <3>5, <3>6
  <2> QED
    BY <2>2, <2>3
<1>4. ASSUME NEW paused, NEW quota, DSelect(paused, Capacity, quota) PROVE Held' \subseteq Held
  BY <1>4 DEF DSelect, reconcilerVars, Held
<1> QED
  BY <1>2, <1>3, <1>4, NextHolds DEF Selects

\* The initial states satisfy the invariant: nothing is held or selected.
LEMMA CapacityInvInit ==
    ASSUME WellFormed, Init
    PROVE  CapacityInv
<1>1. SInv /\ HandOff
  BY SInvInit, HandOffInit
<1>2. PodsFinite
  BY FS_EmptySet DEF Init, ResourceInit, PodsFinite
<1>3. Planned
  BY DEF Init, DispatcherInit, Planned
<1>4. \A a \in AppWrappers : store[a].step = "Idle"
  BY DEF Init, ReconcilerInit, LegacyObject, NewObject
<1>5. Top \cap Held = {}
  BY <1>4 DEF Held
<1>6. \A k : Quantity(TotalRequest({}), k) = 0
  <2>1. TotalRequest({}) = Sum(AggregateRequests, {})
    BY TotalIsSum DEF TotalRequest
  <2> QED
    BY <2>1, FS_EmptySet, SumQuantity
<1>7. NoOvercommit
  BY <1>5, <1>6, NoOvercommitQuantities
<1> QED
  BY <1>1, <1>2, <1>3, <1>7 DEF CapacityInv

\* A step preserves it.
LEMMA CapacityInvNext ==
    ASSUME WellFormed, Reliable, CapacityInv, [AnyNext]_vars
    PROVE  CapacityInv'
<1> USE DEF CapacityInv
<1>1. IInv /\ TypeOK
  BY DEF SInv, IInv
<1>2. SInv' /\ HandOff'
  BY <1>1, SInvNext, HandOffNext
<1>3. InFlightAccounted
  BY <1>1, HandOffBooks
<1> QED
  BY <1>1, <1>2, <1>3, PodsFiniteNext, PlannedNext, NoOvercommitNext

\* selectForDispatch, which decides on copies of objects and dispatches one by one
\* what it decided on, never commits more than the capacity to the AppWrappers of
\* the highest priority ("available cluster capacity", dispatch_logic.go:189).
THEOREM CapacityIsRespected ==
    ASSUME WellFormed, Reliable
    PROVE  Spec => []NoOvercommit
<1>1. Init => CapacityInv
  BY CapacityInvInit
<1>2. CapacityInv /\ [AnyNext]_vars => CapacityInv'
  BY CapacityInvNext
<1>3. CapacityInv => NoOvercommit
  BY DEF CapacityInv
<1> QED
  BY <1>1, <1>2, <1>3, NextIsAny, PTL DEF Spec

-----------------------------------------------------------------------------
(* The lifecycle.  Of a deletion, the Runner and its resources may be told *)
(* late, but not wrongly.                                                  *)

DelSeen == \A a \in AppWrappers : RView(a).del => store[a].del

TerminatingSeen ==
    \A a \in AppWrappers, i \in Items :
        res[a][i] = "terminating" => store[a].del \/ store[a].step = "Deleting"

\* The inductive invariant of the refinement.
LInv ==
    /\ CapacityInv
    /\ RInv
    /\ DelSeen
    /\ TerminatingSeen

\* A step changes resources of one AppWrapper, if any, and then no object.
Changes(a) ==
    /\ store' = store
    /\ \A b \in AppWrappers \ {a} : res'[b] = res[b]
    /\ \/ /\ Deploying(a)
          /\ \A i \in Items : res'[a][i] \in {res[a][i], "live"}
       \/ /\ runner.op = "delete" /\ runner.aw = a
          /\ \A i \in Items : \/ res'[a][i] = res[a][i]
                              \/ Exists(a, i) /\ res'[a][i] = "terminating"
       \/ \A i \in Items : \/ res'[a][i] = res[a][i]
                           \/ res[a][i] = "terminating" /\ res'[a][i] = "none"
                           \/ res[a][i] = "live" /\ res'[a][i] = "complete"

\* What the Runner does to resources, call by call (resource_manager.go).
LEMMA RunnerChanges ==
    ASSUME TypeOK, RunnerStep
    PROVE  res' = res \/ \E a \in AppWrappers : Changes(a)
<1>0. res \in [AppWrappers -> [Items -> ResourceStates]]
  BY DEF TypeOK, ResourceTypeOK
<1>1. CASE RCreateItem
  <2>1. runner.aw \in AppWrappers /\ runner.next \in Items /\ Deploying(runner.aw)
    BY <1>1 DEF RCreateItem, Deploying, TypeOK, RunnerTypeOK, RunnerState, Items
  <2>2. PICK r : CreateItem(runner.aw, runner.next, r)
    BY <1>1 DEF RCreateItem
  <2>3. /\ \A b \in AppWrappers \ {runner.aw} : res'[b] = res[b]
        /\ \A i \in Items : res'[runner.aw][i] \in {res[runner.aw][i], "live"}
    BY <1>0, <2>1, <2>2 DEF CreateItem
  <2> QED
    BY <2>1, <2>3 DEF Changes, Deploying, reconcilerVars
<1>2. CASE RDeleteItem
  <2>1. /\ runner.aw \in AppWrappers /\ runner.next \in Items
        /\ runner.op = "delete" /\ store' = store
    BY <1>2 DEF RDeleteItem, TypeOK, RunnerTypeOK, RunnerState, Items, reconcilerVars
  <2>2. PICK r \in DeleteOutcomes(runner.aw, runner.next) :
           DeleteItem(runner.aw, runner.next, r)
    BY <1>2 DEF RDeleteItem
  <2>3. r \in {"ok", "lost"} => Exists(runner.aw, runner.next)
    BY DEF DeleteOutcomes
  <2>4. /\ \A b \in AppWrappers \ {runner.aw} : res'[b] = res[b]
        /\ \A i \in Items : \/ res'[runner.aw][i] = res[runner.aw][i]
                            \/ /\ Exists(runner.aw, i)
                               /\ res'[runner.aw][i] = "terminating"
    BY <1>0, <2>1, <2>2, <2>3 DEF DeleteItem
  <2> QED
    BY <2>1, <2>4 DEF Changes
<1>3. ASSUME NEW force, RDeleteAgain(force)
      PROVE  res' = res \/ \E a \in AppWrappers : Changes(a)
  <2>1. /\ runner.aw \in AppWrappers
        /\ runner.op = "delete" /\ store' = store
    BY <1>3 DEF RDeleteAgain, TypeOK, RunnerTypeOK, RunnerState
  <2>2. PICK listed : \/ ForceDelete(runner.aw, listed)
                      \/ UNCHANGED resourceVars
    BY <1>3 DEF RDeleteAgain
  <2>3. CASE ForceDelete(runner.aw, listed) /\ res' # res
    <3>1. /\ \A b \in AppWrappers \ {runner.aw} : res'[b] = res[b]
          /\ \A i \in Items : \/ res'[runner.aw][i] = res[runner.aw][i]
                              \/ /\ Exists(runner.aw, i)
                                 /\ res'[runner.aw][i] = "terminating"
      <4>1. PICK kept : res' = [res EXCEPT ![runner.aw] =
                           [i \in Items |-> IF Exists(runner.aw, i) /\ i \notin kept
                                            THEN "terminating" ELSE res[runner.aw][i]]]
        BY <2>3 DEF ForceDelete, ForceDeleteItems
      <4> QED
        BY <1>0, <2>1, <4>1 DEF Exists
    <3> QED
      BY <2>1, <3>1 DEF Changes
  <2> QED
    BY <2>2, <2>3 DEF resourceVars
<1> QED
  BY <1>1, <1>2, <1>3, ZenonT(40)
     DEF RunnerStep, RReconcile, RMissing, RStale, RForget, RConvert, RAccept,
         RCreate, RSucceed, RUnhealthy, RHealthy, RDelete, RNothing, RCreated,
         RCreateFailed, RDeleted, resourceVars

\* What any step does to resources.
LEMMA NextChanges ==
    ASSUME TypeOK, [AnyNext]_vars
    PROVE  res' = res \/ \E a \in AppWrappers : Changes(a)
<1>0. res \in [AppWrappers -> [Items -> ResourceStates]]
  BY DEF TypeOK, ResourceTypeOK
<1>1. ASSUME NEW a \in AppWrappers, Cluster(a)
      PROVE  res' = res \/ Changes(a)
  <2>1. ASSUME NEW i \in Items, ItemGone(a, i) \/ ItemComplete(a, i)
        PROVE  Changes(a)
    <3>1. store' = store
      BY <2>1 DEF ItemGone, ItemComplete, reconcilerVars
    <3>2. /\ \A b \in AppWrappers \ {a} : res'[b] = res[b]
          /\ \A j \in Items : \/ res'[a][j] = res[a][j]
                              \/ res[a][j] = "terminating" /\ res'[a][j] = "none"
                              \/ res[a][j] = "live" /\ res'[a][j] = "complete"
      BY <1>0, <2>1 DEF ItemGone, ItemComplete
    <3> QED
      BY <3>1, <3>2 DEF Changes
  <2> QED
    BY <1>1, <2>1 DEF Cluster, PodCreated, PodPhase, PodEvicted, PodGone, PodSync
<1> QED
  BY <1>1, RunnerChanges
     DEF AnyNext, UserStep, Informer, DStep, DispatcherStep, Restart, DispatcherRestart,
         RunnerRestart, PodRelist, resourceVars, vars

\* Nothing takes a deletion back.
LEMMA DelSeenNext ==
    ASSUME LInv, [AnyNext]_vars
    PROVE  DelSeen'
<1> USE ControllersType DEF LInv, RInv, SInv, IInv
<1> SUFFICES ASSUME NEW a \in AppWrappers, RView(a)'.del
             PROVE  store'[a].del
  BY DEF DelSeen
<1>0. store[a] \in Object
  BY DEF TypeOK, ReconcilerTypeOK
<1>1. store[a].del => store'[a].del
  <2>1. CASE Owned(a)
    BY <1>0, <2>1 DEF Owned, Stored, Object
  <2>2. CASE Edits(a)
    BY <1>0, <2>2, ZenonT(40)
       DEF Edits, WithFinalizers, Stored, Object
  <2>3. CASE Transitions(a)
    BY <1>0, <2>3, TransitionsKeep
  <2> QED
    BY <2>1, <2>2, <2>3, NextEvolves DEF Evolves
<1> QED
  BY <1>1, ViewNext DEF DelSeen, RView

\* The status the Runner acts on, in its loops, is the one that is stored.
LEMMA RunnerIsCurrent ==
    ASSUME LInv, NEW a \in AppWrappers, runner.op # "idle", runner.aw = a,
           RView(a).step \in RunnerSteps
    PROVE  SameStatus(RView(a), store[a])
<1> USE ControllersType DEF LInv, CapacityInv, RInv, SInv, IInv
<1>1. ~Behind(R, a)
  BY DEF RunnerBusy, IsStale
<1>2. view[R][a].tc = store[a].tc
  BY <1>1 DEF HandOff, CachedStep, LatestCount, RView
<1> QED
  BY <1>2 DEF CopiesFollow, Follows, RView

\* Resources are deleted because the AppWrapper is, or is torn down.
LEMMA TerminatingSeenNext ==
    ASSUME LInv, [AnyNext]_vars
    PROVE  TerminatingSeen'
<1> USE ControllersType DEF LInv, RInv, SInv, IInv
<1> DEFINE Seen(o) == o.del \/ o.step = "Deleting"
<1> SUFFICES ASSUME NEW a \in AppWrappers, NEW i \in Items,
                    res'[a][i] = "terminating"
             PROVE  Seen(store'[a])
  BY DEF TerminatingSeen
<1> DEFINE o == store[a]
           n == store'[a]
<1>0. o \in Object /\ ValidObject(a, o)
  BY DEF TypeOK, ReconcilerTypeOK, ObjectsValid
<1>1. CASE res[a][i] = "terminating" /\ Draining(a)
  <2>1. Seen(o) /\ Occupied(a) /\ ~Drained(a)
    BY <1>1, DrainedIsEmpty DEF TerminatingSeen, Occupied, Exists
  <2>2. CASE Owned(a)
    BY <1>0, <2>1, <2>2 DEF Owned, Stored, Object
  <2>3. CASE Edits(a)
    <3>1. n.step = o.step
      BY <1>0, <2>3, EditsKeep DEF SameStatus
    <3>2. o.del => n.del
      <4> HIDE DEF LInv, RInv, SInv, IInv
      <4> QED
        BY <1>0, <2>3, ZenonT(40)
           DEF Edits, Stored, Object
    <3> QED
      BY <2>1, <3>1, <3>2
  <2>4. CASE Transitions(a)
    <3>1. n.del = o.del
      BY <1>0, <2>4, TransitionsKeep
    <3>2. o.step # "Deleting"
      BY <1>0, <2>1, <2>4
         DEF Transitions, DispatcherTransition, RunnerAdvance, GiveUp, TornDown,
             ValidObject, Statuses
    <3> QED
      BY <2>1, <3>1, <3>2
  <2> QED
    BY <2>1, <2>2, <2>3, <2>4, NextEvolves DEF Evolves
<1>2. CASE res[a][i] = "terminating" /\ Deploying(a)
  BY <1>2 DEF TerminatingSeen, Deploying, reconcilerVars
<1>3. CASE res[a][i] # "terminating"
  <2>1. PICK b \in AppWrappers : Changes(b)
    BY <1>3, NextChanges
  <2>2. b = a /\ runner.op = "delete" /\ runner.aw = a /\ store' = store
    BY <1>3, <2>1 DEF Changes
  <2>3. CASE RView(a).del
    BY <2>2, <2>3 DEF DelSeen
  <2>4. CASE ~RView(a).del
    <3>1. RView(a).step = "Deleting"
      BY <2>2, <2>4 DEF RunnerValid, RState
    <3> QED
      BY <2>2, <3>1, RunnerIsCurrent DEF RunnerSteps, SameStatus
  <2> QED
    BY <2>3, <2>4
<1> QED
  BY <1>1, <1>2, <1>3, NextDrains

\* The initial states satisfy the invariant.
LEMMA LInvInit ==
    ASSUME WellFormed, Init
    PROVE  LInv
<1>1. CapacityInv /\ RInv
  BY CapacityInvInit, RInvInit
<1>2. DelSeen
  BY ControllersType DEF Init, ReconcilerInit, NewObject, LegacyObject, DelSeen, RView
<1>3. TerminatingSeen
  BY DEF Init, ResourceInit, TerminatingSeen
<1> QED
  BY <1>1, <1>2, <1>3 DEF LInv

\* Every step preserves it.
LEMMA LInvNext ==
    ASSUME WellFormed, Reliable, "delete" \notin Faults, LInv, [AnyNext]_vars
    PROVE  LInv'
<1>1. CapacityInv' /\ RInv'
  BY CapacityInvNext, RInvNext DEF LInv
<1> QED
  BY <1>1, DelSeenNext, TerminatingSeenNext DEF LInv

-----------------------------------------------------------------------------
(* The refinement, a step at a time.                                       *)

\* The variables of the lifecycle, as Mcad maps them.
Life == [a \in AppWrappers |->
            IF store[a].ex = "live" /\ store[a].del THEN "deleting"
            ELSE store[a].ex]

Status == [a \in AppWrappers |-> <<store[a].state, store[a].step>>]

Restarts == [a \in AppWrappers |-> store[a].restarts]

Deployed == [a \in AppWrappers |-> \E i \in Items : Exists(a, i)]

\* The operators on weights mean the same in the lifecycle.
LEMMA LifecycleOperators ==
    /\ \A S : Lifecycle!TotalRequest(S) = TotalRequest(S)
    /\ \A w, r : Lifecycle!Fits(w, r) <=> Fits(w, r)
    /\ \A w, r : Lifecycle!Minus(w, r) = Minus(w, r)
    /\ Lifecycle!AggregateRequests = AggregateRequests
<1> USE DEF Lifecycle!AggregateRequests, AggregateRequests, Lifecycle!Total, Total,
            Lifecycle!MapThenFoldSet, MapThenFoldSet, Lifecycle!Plus, Plus,
            Lifecycle!Scale, Scale, Lifecycle!Zero, Zero,
            Lifecycle!Quantity, Quantity
<1>1. \A S : Lifecycle!TotalRequest(S) = TotalRequest(S)
  BY DEF Lifecycle!TotalRequest, TotalRequest
<1>2. Lifecycle!AggregateRequests = AggregateRequests
  OBVIOUS
<1>3. \A w, r : Lifecycle!Fits(w, r) <=> Fits(w, r)
  BY DEF Lifecycle!Fits, Fits, Lifecycle!Insufficient, Insufficient
<1>4. \A w, r : Lifecycle!Minus(w, r) = Minus(w, r)
  BY DEF Lifecycle!Minus, Minus
<1> QED
  BY <1>1, <1>2, <1>3, <1>4

\* The object of a changes, and nothing else that the lifecycle knows of.
Alone(a) ==
    /\ res' = res
    /\ \A b \in AppWrappers \ {a} : store'[b] = store[b]

\* What is deployed depends on the resources alone, ...
LEMMA DeployedKept ==
    ASSUME res' = res
    PROVE  Deployed' = Deployed
BY DEF Deployed, Exists

\* ... the life of an AppWrapper on its existence and its deletion, ...
LEMMA LifeKept ==
    ASSUME NEW a \in AppWrappers, Alone(a), store'[a].ex = store[a].ex,
           store'[a].del = store[a].del
    PROVE  Life' = Life
<1>1. \A b \in AppWrappers : store'[b].ex = store[b].ex /\ store'[b].del = store[b].del
  BY DEF Alone
<1> QED
  BY <1>1 DEF Life

\* ... its status on the state and the step, ...
LEMMA StatusKept ==
    ASSUME NEW a \in AppWrappers, Alone(a), SameStatus(store'[a], store[a])
    PROVE  Status' = Status
<1>1. \A b \in AppWrappers : /\ store'[b].state = store[b].state
                             /\ store'[b].step = store[b].step
  BY DEF Alone, SameStatus
<1> QED
  BY <1>1 DEF Status

\* ... and its restarts on the counter.
LEMMA RestartsKept ==
    ASSUME NEW a \in AppWrappers, Alone(a), store'[a].restarts = store[a].restarts
    PROVE  Restarts' = Restarts
<1>1. \A b \in AppWrappers : store'[b].restarts = store[b].restarts
  BY DEF Alone
<1> QED
  BY <1>1 DEF Restarts

\* A transition of the object is a transition of the state diagram.
LEMMA MoveMaps ==
    ASSUME NEW a \in AppWrappers, Alone(a), store[a].ex = "live",
           NEW state, NEW step, store[a].state = state, store[a].step = step,
           NEW state2, NEW step2, store'[a].state = state2, store'[a].step = step2
    PROVE  Lifecycle!Move(a, <<state, step>>, <<state2, step2>>)
<1>1. Life[a] \in {"live", "deleting"}
  BY DEF Life
<1>2. Status[a] = <<state, step>>
  BY DEF Status
<1>3. Status' = [Status EXCEPT ![a] = <<state2, step2>>]
  BY DEF Status, Alone
<1> QED
  BY <1>1, <1>2, <1>3 DEF Lifecycle!Move, Life, Status

\* What holds resources is the same in both specifications.
LEMMA HoldingMaps ==
    ASSUME TypeOK, NEW b \in AppWrappers
    PROVE  Lifecycle!Holding(b) <=> b \in Held
<1>1. store[b].ex \in {"new", "live", "gone"}
  BY DEF TypeOK, ReconcilerTypeOK, Object
<1>2. Life[b] \in {"live", "deleting"} <=> store[b].ex = "live"
  BY <1>1 DEF Life
<1>3. Status[b][2] = store[b].step
  BY DEF Status
<1>4. Lifecycle!Holding(b) <=> Life[b] \in {"live", "deleting"} /\ Status[b][2] # "Idle"
  BY DEF Lifecycle!Holding, Life, Status
<1> QED
  BY <1>2, <1>3, <1>4 DEF Held

\* What is dispatched fits at that moment, not only when it was selected.
LEMMA DispatchFits ==
    ASSUME WellFormed, TypeOK, Planned, NEW a \in todo, a \notin Held
    PROVE  Fits(AggregateRequests[a],
                Minus(Capacity,
                      TotalRequest({b \in Held : Priority[b] >= Priority[a]})))
<1> DEFINE H == {b \in Held : Priority[b] >= Priority[a]}
           m == Minus(Capacity, TotalRequest(H))
<1>1. /\ a \in AppWrappers
      /\ H \in SUBSET AppWrappers
      /\ Plan(a) \in SUBSET AppWrappers
      /\ H \cup {a} \in SUBSET Plan(a)
      /\ a \notin H
  BY DEF TypeOK, DispatcherTypeOK, Held, Plan
<1> SUFFICES ASSUME NEW k \in DOMAIN AggregateRequests[a], AggregateRequests[a][k] > 0
             PROVE  k \in DOMAIN m /\ ~(AggregateRequests[a][k] > m[k])
  BY DEF Fits, Insufficient
<1>2. /\ k \in DOMAIN Capacity
      /\ Quantity(TotalRequest(Plan(a)), k) <= Capacity[k]
  BY DEF Planned
<1>3. Capacity[k] \in Int
  BY <1>2 DEF WellFormed, AreWeights
<1>4. Quantity(AggregateRequests[a], k) = AggregateRequests[a][k]
  BY DEF Quantity
<1>5. k \in DOMAIN m /\ m[k] = Capacity[k] - Quantity(TotalRequest(H), k)
  BY <1>2 DEF Minus, Quantity
<1> HIDE DEF H, m
<1>6. /\ Quantity(AggregateRequests[a], k) \in Int
      /\ Quantity(TotalRequest(H \cup {a}), k) =
            Quantity(TotalRequest(H), k) + Quantity(AggregateRequests[a], k)
  BY <1>1, RequestAdded
<1>7. /\ Quantity(TotalRequest(H), k) \in Int
      /\ Quantity(TotalRequest(Plan(a)), k) \in Int
  BY <1>1, RequestSums
<1>8. Quantity(TotalRequest(H \cup {a}), k) <= Quantity(TotalRequest(Plan(a)), k)
  <2> DEFINE P == H \cup {a}
  <2>1. P \in SUBSET Plan(a)
    BY <1>1
  <2> HIDE DEF P
  <2>2. Quantity(TotalRequest(P), k) <= Quantity(TotalRequest(Plan(a)), k)
    BY <1>1, <2>1, RequestSums
  <2> QED
    BY <2>2 DEF P
<1> QED
  BY <1>2, <1>3, <1>4, <1>5, <1>6, <1>7, <1>8

\* dispatch (dispatcher.go) takes an AppWrapper out of the queue, and it fits.
LEMMA DispatchMaps ==
    ASSUME WellFormed, LInv, [AnyNext]_vars, NEW a \in AppWrappers, Alone(a),
           store[a].ex = "live", store[a].state = "Queued",
           store'[a] = Transition([store[a] EXCEPT !.cond = "Dispatched"],
                                  "Running", "Dispatching")
    PROVE  Lifecycle!Dispatch(a)
<1> USE DEF LInv, CapacityInv, RInv, SInv, IInv
<1>0. store[a] \in Object
  BY DEF TypeOK, ReconcilerTypeOK
<1>1. store[a].step = "Idle" /\ a \notin Held
  BY DEF StatusesValid, QueuedIsIdle, Held
<1>2. /\ store'[a].ex = "live" /\ store'[a].del = store[a].del
      /\ store'[a].restarts = store[a].restarts
      /\ store'[a].state = "Running" /\ store'[a].step = "Dispatching"
  BY <1>0 DEF Transition, Object
<1>3. a \in Held'
  BY <1>2 DEF Held
<1>4. PICK r \in Outcomes : DDispatch(r)
  <2>1. ASSUME NEW paused, NEW quota, DSelect(paused, Capacity, quota) PROVE Held' = Held
    BY <2>1 DEF DSelect, reconcilerVars, Held
  <2> QED
    BY <1>1, <1>3, <2>1, NextHolds DEF Selects
<1>5. a \in todo
  BY <1>1, <1>3, <1>4, DispatchHolds
<1>6. Fits(AggregateRequests[a],
           Minus(Capacity, TotalRequest({b \in Held : Priority[b] >= Priority[a]})))
  BY <1>1, <1>5, DispatchFits
<1>7. {b \in AppWrappers : Lifecycle!Holding(b) /\ Priority[b] >= Priority[a]}
         = {b \in Held : Priority[b] >= Priority[a]}
  <2>1. Held \subseteq AppWrappers
    BY DEF Held
  <2> QED
    BY <2>1, HoldingMaps
<1>8. Lifecycle!Fits(Lifecycle!AggregateRequests[a],
                     Lifecycle!Minus(Capacity, Lifecycle!Load(a)))
  <2>1. Lifecycle!Load(a) = TotalRequest({b \in Held : Priority[b] >= Priority[a]})
    BY <1>7, LifecycleOperators DEF Lifecycle!Load
  <2> QED
    BY <1>6, <2>1, LifecycleOperators
<1>9. Lifecycle!Move(a, <<"Queued", "Idle">>, <<"Running", "Dispatching">>)
  BY <1>1, <1>2, MoveMaps
<1>10. Life' = Life /\ Restarts' = Restarts /\ Deployed' = Deployed
  BY <1>2, LifeKept, RestartsKept, DeployedKept DEF Alone
<1> QED
  BY <1>8, <1>9, <1>10 DEF Lifecycle!Dispatch, Life, Restarts, Deployed

\* The other transitions of the Dispatcher.
LEMMA DispatcherMaps ==
    ASSUME WellFormed, LInv, [AnyNext]_vars, NEW a \in AppWrappers, Alone(a),
           store[a].ex = "live", DispatcherTransition(store[a], store'[a])
    PROVE  Lifecycle!Dispatch(a) \/ Lifecycle!Advance(a) \/ Lifecycle!Requeue(a)
<1> USE DEF LInv, CapacityInv, RInv, SInv, IInv
<1> DEFINE o == store[a]
           n == store'[a]
<1>0. o \in Object
  BY DEF TypeOK, ReconcilerTypeOK
<1>1. CASE o.state = "Queued"
  BY <1>0, <1>1, DispatchMaps DEF DispatcherTransition
<1>2. CASE o.state = "Running" /\ o.step = "Deleted"
  <2>1. n = Transition(RequeuedObject(o), "Queued", "Idle")
    BY <1>2 DEF DispatcherTransition
  <2>2. /\ n.ex = o.ex /\ n.del = o.del /\ n.restarts = o.restarts + 1
        /\ n.state = "Queued" /\ n.step = "Idle"
    BY <1>0, <2>1 DEF Transition, RequeuedObject, Object
  <2>3. Lifecycle!Move(a, <<"Running", "Deleted">>, <<"Queued", "Idle">>)
    BY <1>2, <2>2, MoveMaps
  <2>4. Restarts' = [Restarts EXCEPT ![a] = @ + 1]
    BY <2>2 DEF Restarts, Alone
  <2>5. Life' = Life /\ Deployed' = Deployed
    BY <2>2, LifeKept, DeployedKept DEF Alone
  <2> QED
    BY <2>3, <2>4, <2>5 DEF Lifecycle!Requeue, Life, Restarts, Deployed
<1>3. ASSUME NEW state, NEW step, n = Transition(o, state, step)
      PROVE  /\ Lifecycle!Move(a, <<o.state, o.step>>, <<state, step>>)
             /\ Life' = Life /\ Restarts' = Restarts /\ Deployed' = Deployed
  <2>1. /\ n.ex = o.ex /\ n.del = o.del /\ n.restarts = o.restarts
        /\ n.state = state /\ n.step = step
    BY <1>0, <1>3, TransitionKeeps
  <2>2. Lifecycle!Move(a, <<o.state, o.step>>, <<state, step>>)
    BY <2>1, MoveMaps
  <2>3. Life' = Life /\ Restarts' = Restarts /\ Deployed' = Deployed
    BY <2>1, LifeKept, RestartsKept, DeployedKept DEF Alone
  <2> QED
    BY <2>2, <2>3
<1>4. CASE o.state # "Queued" /\ ~(o.state = "Running" /\ o.step = "Deleted")
  <2>1. \/ Lifecycle!Move(a, <<"Empty", "Idle">>, <<"Queued", "Idle">>)
        \/ Lifecycle!Move(a, <<"Running", "Dispatching">>, <<"Running", "Accepting">>)
        \/ Lifecycle!Move(a, <<"Failed", "Deleted">>, <<"Failed", "Idle">>)
    BY <1>3, <1>4 DEF DispatcherTransition
  <2>2. Life' = Life /\ Restarts' = Restarts /\ Deployed' = Deployed
    BY <1>3, <1>4 DEF DispatcherTransition
  <2> QED
    BY <2>1, <2>2 DEF Lifecycle!Advance, Life, Restarts, Deployed
<1> QED
  BY <1>1, <1>2, <1>4

\* The transitions of the Runner.
LEMMA RunnerMaps ==
    ASSUME LInv, NEW a \in AppWrappers, Alone(a), store[a].ex = "live",
           \/ RunnerAdvance(a, store[a], store'[a])
           \/ GiveUp(a, store[a], store'[a])
           \/ TornDown(a, store[a], store'[a])
    PROVE  Lifecycle!Advance(a) \/ Lifecycle!RequeueOrFail(a) \/ Lifecycle!Deleted(a)
<1> USE DEF LInv, CapacityInv, RInv, SInv, IInv
<1> DEFINE o == store[a]
           n == store'[a]
<1>0. o \in Object
  BY DEF TypeOK, ReconcilerTypeOK
<1>1. ASSUME NEW state, NEW step, n = Transition(o, state, step)
      PROVE  /\ Lifecycle!Move(a, <<o.state, o.step>>, <<state, step>>)
             /\ Life' = Life /\ Restarts' = Restarts /\ Deployed' = Deployed
  <2>1. /\ n.ex = o.ex /\ n.del = o.del /\ n.restarts = o.restarts
        /\ n.state = state /\ n.step = step
    BY <1>0, <1>1, TransitionKeeps
  <2>2. Lifecycle!Move(a, <<o.state, o.step>>, <<state, step>>)
    BY <2>1, MoveMaps
  <2>3. Life' = Life /\ Restarts' = Restarts /\ Deployed' = Deployed
    BY <2>1, LifeKept, RestartsKept, DeployedKept DEF Alone
  <2> QED
    BY <2>2, <2>3
<1>2. Life' = Life /\ Restarts' = Restarts /\ Deployed' = Deployed
  BY <1>1 DEF RunnerAdvance, GiveUp, TornDown
<1>3. CASE RunnerAdvance(a, o, n)
  <2>1. \/ Lifecycle!Move(a, <<"Running", "Accepting">>, <<"Running", "Creating">>)
        \/ Lifecycle!Move(a, <<"Running", "Creating">>, <<"Running", "Created">>)
        \/ Lifecycle!Move(a, <<"Running", "Created">>, <<"Succeeded", "Idle">>)
    BY <1>1, <1>3 DEF RunnerAdvance
  <2> QED
    BY <1>2, <2>1 DEF Lifecycle!Advance, Life, Restarts, Deployed
<1>4. CASE GiveUp(a, o, n)
  <2>1. PICK step \in {"Creating", "Created"} : o.state = "Running" /\ o.step = step
    BY <1>4 DEF GiveUp
  <2>2. MaxNumRequeuings[a] \in Nat /\ Restarts[a] = o.restarts
    BY MaxNumRequeuingsAssumption DEF Restarts
  <2>3. \/ /\ MinAvailable[a] < 0
           /\ Lifecycle!Move(a, <<"Running", step>>, <<"Failed", step>>)
        \/ /\ MinAvailable[a] >= 0
           /\ Lifecycle!Move(a, <<"Running", step>>, <<"Failed", "Deleting">>)
        \/ /\ MinAvailable[a] >= 0
           /\ MaxNumRequeuings[a] = 0 \/ Restarts[a] < MaxNumRequeuings[a]
           /\ Lifecycle!Move(a, <<"Running", step>>, <<"Running", "Deleting">>)
    BY <1>1, <1>4, <2>1, <2>2 DEF GiveUp
  <2> QED
    BY <1>2, <2>3 DEF Lifecycle!RequeueOrFail, Life, Restarts, Deployed
<1>5. CASE TornDown(a, o, n)
  <2>1. ~Deployed[a]
    BY <1>5, DrainedIsEmpty DEF TornDown, Occupied, Deployed
  <2>2. \/ Lifecycle!Move(a, <<"Running", "Deleting">>, <<"Running", "Deleted">>)
        \/ Lifecycle!Move(a, <<"Failed", "Deleting">>, <<"Failed", "Deleted">>)
    BY <1>1, <1>5 DEF TornDown
  <2> QED
    BY <1>2, <2>1, <2>2 DEF Lifecycle!Deleted, Life, Restarts, Deployed
<1> QED
  BY <1>3, <1>4, <1>5

\* An AppWrapper without the runner finalizer, or whose delete loop has ended, has
\* nothing deployed.
LEMMA NothingDeployed ==
    ASSUME LInv, NEW a \in AppWrappers, "runner" \notin store[a].fin \/ Drained(a)
    PROVE  ~Deployed[a]
BY DrainedIsEmpty DEF LInv, RInv, OccupiedValid, Occupied, Deployed

\* Its owner creates or deletes the AppWrapper, or it goes away.
LEMMA OwnMaps ==
    ASSUME LInv, NEW a \in AppWrappers, Alone(a),
           SameStatus(store'[a], store[a]), store'[a].restarts = store[a].restarts,
           \/ Life[a] = "new" /\ Life'[a] = "live"
           \/ Life[a] = "live" /\ Life'[a] = "deleting"
           \/ /\ Life[a] \in {"live", "deleting"} /\ Life'[a] = "gone"
              /\ ~Deployed[a]
    PROVE  Lifecycle!Own(a)
<1>1. Life' = [Life EXCEPT ![a] = Life'[a]]
  BY DEF Life, Alone
<1>2. Status' = Status /\ Restarts' = Restarts /\ Deployed' = Deployed
  BY StatusKept, RestartsKept, DeployedKept DEF Alone
<1>3. \/ Life[a] = "new" /\ Life' = [Life EXCEPT ![a] = "live"]
      \/ Life[a] = "live" /\ Life' = [Life EXCEPT ![a] = "deleting"]
      \/ /\ Life[a] \in {"live", "deleting"}
         /\ ~Deployed[a]
         /\ Life' = [Life EXCEPT ![a] = "gone"]
  BY <1>1
<1> QED
  BY <1>2, <1>3 DEF Lifecycle!Own, Life, Status, Restarts, Deployed

\* What its owner, or a change of finalizers, does to an object.
LEMMA OwnedMaps ==
    ASSUME LInv, NEW a \in AppWrappers, Alone(a), Owned(a) \/ Edits(a)
    PROVE  \/ Lifecycle!Own(a)
           \/ UNCHANGED <<Life, Status, Restarts, Deployed>>
<1> USE DEF LInv, CapacityInv, RInv, SInv, IInv
<1> DEFINE o == store[a]
           n == store'[a]
<1>0. o \in Object /\ ValidObject(a, o)
  BY DEF TypeOK, ReconcilerTypeOK, ObjectsValid
<1>1. SameStatus(n, o) /\ n.restarts = o.restarts
  BY <1>0, OwnedKeeps, EditsKeep
<1>2. CASE n.ex = o.ex /\ n.del = o.del
  BY <1>1, <1>2, LifeKept, StatusKept, RestartsKept, DeployedKept DEF Alone
<1>3. CASE o.ex = "new"
  <2>1. n = [o EXCEPT !.ex = "live"] /\ ~o.del
    BY <1>0, <1>3 DEF Owned, Edits, ValidObject
  <2>2. n.ex = "live" /\ ~n.del
    BY <1>0, <2>1 DEF Object
  <2>3. Life[a] = "new" /\ Life'[a] = "live"
    BY <1>3, <2>2 DEF Life
  <2> QED
    BY <1>1, <2>3, OwnMaps
<1>4. CASE o.ex = "live" /\ n.ex = "live" /\ n.del # o.del
  <2>1. ~o.del /\ n.del
    BY <1>0, <1>4 DEF Owned, Edits, Stored, WithFinalizers, Object
  <2>2. Life[a] = "live" /\ Life'[a] = "deleting"
    BY <1>4, <2>1 DEF Life
  <2> QED
    BY <1>1, <2>2, OwnMaps
<1>5. CASE o.ex = "live" /\ n.ex # "live"
  <2>1. n.ex = "gone" /\ ("runner" \notin o.fin \/ Drained(a))
    <3>1. CASE Owned(a)
      BY <1>0, <1>5, <3>1 DEF Owned, Stored, Object
    <3>2. CASE Edits(a)
      <4>1. CASE n = WithFinalizers(o)
        BY <1>0, <1>5, <4>1 DEF WithFinalizers, Object
      <4>2. CASE n = [o EXCEPT !.fin = (@ \cup {"dispatcher", "runner"}) \ {"legacy"}]
        BY <1>0, <1>5, <4>2 DEF Object
      <4>3. CASE \E reason : n = [o EXCEPT !.cond = reason]
        BY <1>0, <1>5, <4>3 DEF Object
      <4>4. ASSUME NEW f, n = Stored([o EXCEPT !.fin = f]) PROVE n.ex = "gone"
        BY <1>0, <1>5, <4>4 DEF Stored, Object
      <4> QED
        BY <3>2, <4>1, <4>2, <4>3, <4>4 DEF Edits
    <3> QED
      BY <3>1, <3>2
  <2>2. Life[a] \in {"live", "deleting"} /\ Life'[a] = "gone"
    BY <1>5, <2>1 DEF Life
  <2>3. ~Deployed[a]
    BY <2>1, NothingDeployed
  <2> QED
    BY <1>1, <2>2, <2>3, OwnMaps
<1> QED
  BY <1>0, <1>2, <1>3, <1>4, <1>5 DEF Owned, Edits

\* The first resource appears, or the last one disappears.
LEMMA ResourcesMap ==
    ASSUME LInv, NEW a \in AppWrappers, Changes(a)
    PROVE  \/ Lifecycle!Deploy(a) \/ Lifecycle!Undeploy(a)
           \/ UNCHANGED <<Life, Status, Restarts, Deployed>>
<1> USE ControllersType DEF LInv, CapacityInv, RInv, SInv, IInv
<1>1. Life' = Life /\ Status' = Status /\ Restarts' = Restarts
  BY DEF Changes, Life, Status, Restarts
<1>2. \A b \in AppWrappers \ {a} : Deployed'[b] = Deployed[b]
  BY DEF Changes, Deployed, Exists
<1>3. Deployed[a] \in BOOLEAN /\ Deployed'[a] \in BOOLEAN
  BY DEF Deployed
<1>4. CASE Deployed'[a] = Deployed[a]
  <2>1. Deployed' = Deployed
    BY <1>2, <1>4 DEF Deployed
  <2> QED
    BY <1>1, <2>1
<1>5. CASE ~Deployed[a] /\ Deployed'[a]
  <2>1. Deploying(a)
    BY <1>5 DEF Changes, Deployed, Exists
  <2>2. store[a].ex = "live"
    BY <2>1, DeployingIsValid
  <2>3. store[a].state = "Running" /\ store[a].step = "Creating"
    <3>1. RView(a).state = "Running" /\ RView(a).step = "Creating"
      BY <2>1 DEF Deploying, RunnerValid, RState
    <3> QED
      BY <2>1, <3>1, RunnerIsCurrent DEF Deploying, RunnerSteps, SameStatus
  <2>4. Deployed' = [Deployed EXCEPT ![a] = TRUE]
    BY <1>2, <1>5 DEF Deployed
  <2>5. Life[a] \in {"live", "deleting"} /\ Status[a] = <<"Running", "Creating">>
    BY <2>2, <2>3 DEF Life, Status
  <2>6. ~Deployed[a]
    BY <1>5
  <2> QED
    BY <1>1, <2>4, <2>5, <2>6 DEF Lifecycle!Deploy, Life, Status, Restarts, Deployed
<1>6. CASE Deployed[a] /\ ~Deployed'[a]
  <2>1. PICK i \in Items : Exists(a, i) /\ ~Exists(a, i)'
    BY <1>6 DEF Deployed
  <2>2. res[a][i] = "terminating"
    BY <2>1 DEF Changes, Exists
  <2>3. store[a].ex = "live"
    BY <2>1 DEF OccupiedValid, Occupied
  <2>4. Life[a] = "deleting" \/ Status[a][2] = "Deleting"
    BY <2>2, <2>3 DEF TerminatingSeen, Life, Status
  <2>5. Deployed' = [Deployed EXCEPT ![a] = FALSE]
    BY <1>2, <1>6 DEF Deployed
  <2>6. Deployed[a]
    BY <1>6
  <2> QED
    BY <1>1, <2>4, <2>5, <2>6 DEF Lifecycle!Undeploy, Life, Status, Restarts, Deployed
<1> QED
  BY <1>3, <1>4, <1>5, <1>6

\* A step changes one object at most, and then no resource.
LEMMA OneAtATime ==
    ASSUME IInv, [AnyNext]_vars, store' # store
    PROVE  \E a \in AppWrappers : Alone(a)
<1>1. res' = res
  BY NextChanges DEF Changes, IInv
<1>2. \E a \in AppWrappers : \A b \in AppWrappers \ {a} : store'[b] = store[b]
  BY NextMoves DEF Calm, Writes, UserWrites, Sync, RestartReconciler
<1> QED
  BY <1>1, <1>2 DEF Alone

\* Every step of the controllers, of users and of the cluster is a step of the
\* lifecycle or changes nothing that the lifecycle knows of.
LEMMA StepRefines ==
    ASSUME WellFormed, LInv, [AnyNext]_vars
    PROVE  [Lifecycle!Next]_(Lifecycle!vars)
<1> USE DEF LInv, RInv, SInv, IInv
<1> SUFFICES \/ Lifecycle!Next
             \/ UNCHANGED <<Life, Status, Restarts, Deployed>>
  BY DEF Lifecycle!vars, Life, Status, Restarts, Deployed
<1>1. CASE store' = store
  <2>1. CASE res' = res
    BY <1>1, <2>1 DEF Life, Status, Restarts, Deployed, Exists
  <2>2. ASSUME NEW a \in AppWrappers, Changes(a)
        PROVE  \/ Lifecycle!Next
               \/ UNCHANGED <<Life, Status, Restarts, Deployed>>
    BY <2>2, ResourcesMap DEF Lifecycle!Next
  <2> QED
    BY <2>1, <2>2, NextChanges
<1>2. CASE store' # store
  <2>1. PICK a \in AppWrappers : Alone(a)
    BY <1>2, OneAtATime
  <2>2. CASE store'[a] = store[a]
    <3>1. \A b \in AppWrappers : store'[b] = store[b]
      BY <2>1, <2>2 DEF Alone
    <3> QED
      BY <2>1, <3>1 DEF Alone, Life, Status, Restarts, Deployed, Exists
  <2>3. CASE Owned(a) \/ Edits(a)
    BY <2>1, <2>3, OwnedMaps DEF Lifecycle!Next
  <2>4. CASE Transitions(a)
    <3>1. store[a].ex = "live"
      BY <2>4 DEF Transitions
    <3>2. \/ Lifecycle!Dispatch(a) \/ Lifecycle!Advance(a) \/ Lifecycle!Requeue(a)
          \/ Lifecycle!RequeueOrFail(a) \/ Lifecycle!Deleted(a)
      BY <2>1, <2>4, <3>1, DispatcherMaps, RunnerMaps DEF Transitions
    <3> QED
      BY <3>2 DEF Lifecycle!Next
  <2> QED
    BY <2>2, <2>3, <2>4, NextEvolves DEF Evolves
<1> QED
  BY <1>1, <1>2

\* Initially AppWrappers are new, or queued by MCAD 2.2, and nothing is deployed.
LEMMA InitRefines == Init => Lifecycle!Init
<1> SUFFICES ASSUME Init PROVE Lifecycle!Init
  OBVIOUS
<1>1. \A a \in AppWrappers :
         /\ store[a].ex \in {"new", "live"} /\ ~store[a].del
         /\ store[a].restarts = 0 /\ store[a].step = "Idle"
         /\ store[a].state = IF store[a].ex = "new" THEN "Empty" ELSE "Queued"
  BY DEF Init, ReconcilerInit, NewObject, LegacyObject
<1>2. Life \in [AppWrappers -> {"new", "live"}]
  BY <1>1 DEF Life
<1>3. Status = [a \in AppWrappers |->
                   IF Life[a] = "new" THEN <<"Empty", "Idle">>
                   ELSE <<"Queued", "Idle">>]
  BY <1>1 DEF Status, Life
<1>4. Restarts = [a \in AppWrappers |-> 0]
  BY <1>1 DEF Restarts
<1>5. Deployed = [a \in AppWrappers |-> FALSE]
  BY DEF Init, ResourceInit, Deployed, Exists
<1> QED
  BY <1>2, <1>3, <1>4, <1>5 DEF Lifecycle!Init, Life, Status, Restarts, Deployed

\* MCAD implements the lifecycle of docs/state-diagram.md: for any number of
\* AppWrappers and of wrapped resources, whatever the controllers' informers lag
\* and wherever the controllers are restarted, what happens to an AppWrapper is what
\* a single controller would do that sees everything and acts at once.
THEOREM LifecycleIsImplemented ==
    ASSUME WellFormed, Reliable, "delete" \notin Faults
    PROVE  Spec => ImplementsLifecycle
<1>1. Init => LInv /\ Lifecycle!Init
  BY LInvInit, InitRefines
<1>2. LInv /\ [AnyNext]_vars => LInv'
  BY LInvNext
<1>3. LInv /\ [AnyNext]_vars => [Lifecycle!Next]_(Lifecycle!vars)
  BY StepRefines
<1> QED
  BY <1>1, <1>2, <1>3, NextIsAny, PTL DEF Spec, ImplementsLifecycle, Lifecycle!Spec
=============================================================================
