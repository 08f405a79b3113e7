-------------------------- MODULE ControllerProofs --------------------------
(***************************************************************************)
(* What TLAPS proves of the two controllers, wherever they run: their      *)
(* steps keep the types, for any AppWrappers, wrapped resources,           *)
(* capacities, priorities and faults.                                      *)
(***************************************************************************)
EXTENDS Deployment, TLAPS

-----------------------------------------------------------------------------
(* The operators of AppWrapperReconciler return objects and cache entries. *)

\* What updateStatus sends is an AppWrapper.
LEMMA TransitionType ==
    ASSUME NEW o \in Object, NEW state \in States, NEW step \in Steps
    PROVE  Transition(o, state, step) \in Object
<1>1. o.tc + 1 \in Nat
  BY DEF Object
<1> QED
  BY <1>1 DEF Transition, Object

\* What the API server keeps of an update is an AppWrapper.
LEMMA StoredType ==
    ASSUME NEW o \in Object
    PROVE  Stored(o) \in Object
BY DEF Stored, Object

\* What addCachedAW (cache.go) stores is a cache entry.
LEMMA EntryType ==
    ASSUME NEW o \in Object
    PROVE  Entry(o) \in CacheEntry
BY DEF Entry, Object, CacheEntry

\* An AppWrapper without an entry in the cache is represented by an entry.
LEMMA NoEntryType == NoEntry \in CacheEntry
BY DEF NoEntry, CacheEntry, States, Steps

\* What isStale (cache.go) leaves when it answers false is a cache entry.
LEMMA FreshEntryType ==
    ASSUME ReconcilerTypeOK, NEW c \in Controllers, NEW a \in AppWrappers
    PROVE  FreshEntry(c, a) \in CacheEntry
BY EntryType, NoEntryType DEF FreshEntry, ReconcilerTypeOK

\* What isStale (cache.go) leaves when it answers true is a cache entry.
LEMMA StaleEntryType ==
    ASSUME ReconcilerTypeOK, NEW c \in Controllers, NEW a \in AppWrappers,
           NEW timedOut
    PROVE  StaleEntry(c, a, timedOut) \in CacheEntry
<1>1. cache[c][a] \in CacheEntry
  BY DEF ReconcilerTypeOK
<1>2. [cache[c][a] EXCEPT !.conflict = TRUE] \in CacheEntry
  BY <1>1 DEF CacheEntry
<1> QED
  BY <1>2, NoEntryType DEF StaleEntry

\* One entry of a controller's cache is replaced.
LEMMA CacheUpdateType ==
    ASSUME cache \in [Controllers -> [AppWrappers -> CacheEntry]],
           NEW c \in Controllers, NEW a \in AppWrappers, NEW e \in CacheEntry
    PROVE  [cache EXCEPT ![c][a] = e]
              \in [Controllers -> [AppWrappers -> CacheEntry]]
OBVIOUS

\* The API server stores AppWrappers only.
LEMMA UpdateType ==
    ASSUME store \in [AppWrappers -> Object], NEW a \in AppWrappers,
           NEW read, NEW new \in Object, NEW r, Update(a, read, new, r)
    PROVE  store' \in [AppWrappers -> Object]
BY StoredType DEF Update

\* updateStatus leaves AppWrappers in the store and entries in the cache.
LEMMA UpdateStatusType ==
    ASSUME ReconcilerTypeOK, NEW c \in Controllers, NEW a \in AppWrappers,
           NEW read, NEW o \in Object, NEW state \in States,
           NEW step \in Steps, NEW r,
           UpdateStatus(c, a, read, o, state, step, r)
    PROVE  /\ store' \in [AppWrappers -> Object]
           /\ cache' \in [Controllers -> [AppWrappers -> CacheEntry]]
<1> DEFINE new == Transition(o, state, step)
<1>1. new \in Object
  BY TransitionType
<1>2. store' \in [AppWrappers -> Object]
  BY <1>1, UpdateType DEF UpdateStatus, ReconcilerTypeOK
<1>3. (IF Succeeds(a, read, r) THEN Entry(new) ELSE FreshEntry(c, a))
         \in CacheEntry
  BY <1>1, EntryType, FreshEntryType
<1> QED
  BY <1>2, <1>3, CacheUpdateType DEF UpdateStatus, ReconcilerTypeOK

\* The end of a request leaves AppWrappers in the workqueues.
LEMMA ReconciledType ==
    ASSUME queue \in [Controllers -> SUBSET AppWrappers],
           NEW c \in Controllers, NEW a \in AppWrappers, NEW retry,
           Reconciled(c, a, retry)
    PROVE  queue' \in [Controllers -> SUBSET AppWrappers]
BY DEF Reconciled

\* Controllers only ever send AppWrappers with these changes.
LEMMA ChangedObjectType ==
    ASSUME NEW o \in Object
    PROVE  /\ \A fin \in SUBSET Finalizers : [o EXCEPT !.fin = fin] \in Object
           /\ \A cond \in Reasons : [o EXCEPT !.cond = cond] \in Object
           /\ RequeuedObject(o) \in Object
           /\ WithFinalizers(o) \in Object
<1>1. o.restarts + 1 \in Nat
  BY DEF Object
<1>2. o.fin \cup {"dispatcher", "runner"} \in SUBSET Finalizers
  BY DEF Object, Finalizers
<1>3. RequeuedObject(o) \in Object
  BY <1>1 DEF RequeuedObject, Object, Reasons
<1>4. WithFinalizers(o) \in Object
  BY <1>2 DEF WithFinalizers, Object
<1> QED
  BY <1>3, <1>4 DEF Object

\* Dispatcher and Runner are the controllers.
LEMMA ControllersType == D \in Controllers /\ R \in Controllers
BY DEF D, R, Controllers

-----------------------------------------------------------------------------
(* Type correctness, one step per action.                                  *)

\* Forgetting a queuing decision leaves a map of queuing decisions.
LEMMA ForgottenDecisionType ==
    ASSUME DispatcherTypeOK, NEW a \in AppWrappers
    PROVE  [decisions EXCEPT ![a] = "none"] \in [AppWrappers -> QueuingDecision]
BY DEF DispatcherTypeOK, QueuingDecision

\* selectForDispatch gives one of its two reasons.
LEMMA ReasonType ==
    ASSUME NEW a, NEW S, NEW capacity, NEW booked
    PROVE  Reason(a, S, capacity, booked) \in QueuingDecision
BY DEF Reason, QueuingDecision

\* Every step of the Dispatcher (dispatcher.go) preserves the types.
LEMMA DispatcherStepType ==
    ASSUME TypeOK, NEW quota, DispatcherStep(Capacity, quota)
    PROVE  ReconcilerTypeOK' /\ DispatcherTypeOK'
<1> DEFINE Goal == ReconcilerTypeOK' /\ DispatcherTypeOK'
<1> USE ControllersType DEF TypeOK
<1>0. \A a \in AppWrappers : DView(a) \in Object
  BY DEF DView, ReconcilerTypeOK
<1>1. ASSUME NEW a \in AppWrappers, DMissing(a) PROVE Goal
  BY <1>1, ReconciledType DEF DMissing, ReconcilerTypeOK, DispatcherTypeOK
<1>2. ASSUME NEW a \in AppWrappers, DStale(a) PROVE Goal
  BY <1>2, StaleEntryType, CacheUpdateType
     DEF DStale, AbortStale, dispatcherVars, ReconcilerTypeOK, DispatcherTypeOK
<1>3. ASSUME NEW a \in AppWrappers, DAwaitRunner(a) PROVE Goal
  BY <1>3, FreshEntryType, CacheUpdateType, ReconciledType
     DEF DAwaitRunner, dispatcherVars, ReconcilerTypeOK, DispatcherTypeOK
<1>4. ASSUME NEW a \in AppWrappers, NEW r, DFinalize(a, r) PROVE Goal
  <2>1. [DView(a) EXCEPT !.fin = @ \ {"dispatcher"}] \in Object
    BY <1>0 DEF Object
  <2>2. store' \in [AppWrappers -> Object]
    BY <1>4, <2>1, UpdateType DEF DFinalize, ReconcilerTypeOK
  <2>3. PICK e \in CacheEntry : cache' = [cache EXCEPT ![D][a] = e]
    BY <1>4, FreshEntryType, NoEntryType DEF DFinalize
  <2>4. cache' \in [Controllers -> [AppWrappers -> CacheEntry]]
    BY <2>3, CacheUpdateType DEF ReconcilerTypeOK
  <2>5. queue' \in [Controllers -> SUBSET AppWrappers]
    BY <1>4, ReconciledType DEF DFinalize, ReconcilerTypeOK
  <2>6. decisions' \in [AppWrappers -> QueuingDecision]
    BY <1>4, ForgottenDecisionType DEF DFinalize, DispatcherTypeOK
  <2> QED
    BY <1>4, <2>2, <2>4, <2>5, <2>6
       DEF DFinalize, ReconcilerTypeOK, DispatcherTypeOK
<1>5. ASSUME NEW a \in AppWrappers, NEW r, DAddFinalizers(a, r) PROVE Goal
  <2>1. store' \in [AppWrappers -> Object]
    BY <1>0, <1>5, UpdateType, ChangedObjectType
       DEF DAddFinalizers, ReconcilerTypeOK
  <2> QED
    BY <1>5, <2>1, FreshEntryType, CacheUpdateType, ReconciledType
       DEF DAddFinalizers, ReconcilerTypeOK, DispatcherTypeOK
<1>6. ASSUME NEW r, DQueueNew(r) PROVE Goal
  <2>1. adding \in AppWrappers
    BY <1>6 DEF DQueueNew, DispatcherTypeOK
  <2>2. WithFinalizers(DView(adding)) \in Object
    BY <1>0, <2>1, ChangedObjectType
  <2>3. /\ store' \in [AppWrappers -> Object]
        /\ cache' \in [Controllers -> [AppWrappers -> CacheEntry]]
    BY <1>6, <2>1, <2>2, UpdateStatusType DEF DQueueNew, States, Steps
  <2> QED
    BY <1>6, <2>1, <2>3, ReconciledType
       DEF DQueueNew, ReconcilerTypeOK, DispatcherTypeOK
<1>7. ASSUME NEW a \in AppWrappers, NEW r, DQueued(a, r) PROVE Goal
  <2>1. decisions[a] \in Reasons
    BY DEF DispatcherTypeOK, QueuingDecision, Reasons
  <2>2. [DView(a) EXCEPT !.cond = decisions[a]] \in Object
    BY <1>0, <2>1, ChangedObjectType
  <2>3. store' \in [AppWrappers -> Object]
    BY <1>7, <2>2, UpdateType DEF DQueued, ReconcilerTypeOK
  <2>4. decisions' \in [AppWrappers -> QueuingDecision]
    BY <1>7, ForgottenDecisionType DEF DQueued, DispatcherTypeOK
  <2>5. trigger' \in BOOLEAN
    BY <1>7 DEF DQueued
  <2> QED
    BY <1>7, <2>3, <2>4, <2>5, FreshEntryType, CacheUpdateType, ReconciledType
       DEF DQueued, ReconcilerTypeOK, DispatcherTypeOK
<1>8. ASSUME NEW a \in AppWrappers, NEW r, DHandOver(a, r) PROVE Goal
  <2>1. /\ store' \in [AppWrappers -> Object]
        /\ cache' \in [Controllers -> [AppWrappers -> CacheEntry]]
    BY <1>0, <1>8, UpdateStatusType DEF DHandOver, States, Steps
  <2> QED
    BY <1>8, <2>1, ReconciledType
       DEF DHandOver, dispatcherVars, ReconcilerTypeOK, DispatcherTypeOK
<1>9. ASSUME NEW a \in AppWrappers, NEW r, DRequeue(a, r) PROVE Goal
  <2>1. /\ store' \in [AppWrappers -> Object]
        /\ cache' \in [Controllers -> [AppWrappers -> CacheEntry]]
    BY <1>0, <1>9, UpdateStatusType, ChangedObjectType
       DEF DRequeue, States, Steps
  <2>2. decisions' \in [AppWrappers -> QueuingDecision]
    BY <1>9, ForgottenDecisionType DEF DRequeue, DispatcherTypeOK
  <2> QED
    BY <1>9, <2>1, <2>2, ReconciledType
       DEF DRequeue, ReconcilerTypeOK, DispatcherTypeOK
<1>10. ASSUME NEW a \in AppWrappers, NEW r, DFailed(a, r) PROVE Goal
  <2>1. /\ store' \in [AppWrappers -> Object]
        /\ cache' \in [Controllers -> [AppWrappers -> CacheEntry]]
    BY <1>0, <1>10, UpdateStatusType DEF DFailed, States, Steps
  <2> QED
    BY <1>10, <2>1, ReconciledType
       DEF DFailed, dispatcherVars, ReconcilerTypeOK, DispatcherTypeOK
<1>11. ASSUME NEW a \in AppWrappers, DNothing(a) PROVE Goal
  BY <1>11, FreshEntryType, CacheUpdateType, ReconciledType
     DEF DNothing, ReconcilerTypeOK, DispatcherTypeOK
<1>12. ASSUME NEW paused, DSelect(paused, Capacity, quota) PROVE Goal
  <2>1. Candidates(paused) \subseteq AppWrappers
    BY DEF Candidates, IdleCandidates, Listed
  <2>2. PICK S \in SUBSET Candidates(paused) :
           /\ todo' = S
           /\ decisions' = [a \in AppWrappers |->
                               IF a \in Candidates(paused) \ S
                               THEN Reason(a, S, Capacity, Booked)
                               ELSE decisions[a]]
           /\ trigger' = (S = {})
    BY <1>12 DEF DSelect
  <2>3. \A a \in AppWrappers :
           /\ Reason(a, S, Capacity, Booked) \in QueuingDecision
           /\ decisions[a] \in QueuingDecision
    BY ReasonType DEF DispatcherTypeOK
  <2>4. decisions' \in [AppWrappers -> QueuingDecision]
    BY <2>2, <2>3
  <2>5. todo' \subseteq AppWrappers /\ trigger' \in BOOLEAN
    BY <2>1, <2>2
  <2> QED
    BY <1>12, <2>4, <2>5
       DEF DSelect, reconcilerVars, ReconcilerTypeOK, DispatcherTypeOK
<1>13. ASSUME DAbort PROVE Goal
  <2>1. PICK a \in todo, e \in CacheEntry : cache' = [cache EXCEPT ![D][a] = e]
    BY <1>13, FreshEntryType, StaleEntryType DEF DAbort, DispatcherTypeOK
  <2> QED
    BY <1>13, <2>1, CacheUpdateType DEF DAbort, ReconcilerTypeOK, DispatcherTypeOK
<1>14. ASSUME NEW r, DDispatch(r) PROVE Goal
  <2> PICK a \in todo :
         /\ UpdateStatus(D, a, DView(a), [DView(a) EXCEPT !.cond = "Dispatched"],
                         "Running", "Dispatching", r)
         /\ todo' \subseteq todo
         /\ trigger' = (todo' = {})
         /\ UNCHANGED <<view, queue, decisions, adding>>
    BY <1>14 DEF DDispatch
  <2>1. a \in AppWrappers
    BY DEF DispatcherTypeOK
  <2>2. [DView(a) EXCEPT !.cond = "Dispatched"] \in Object
    BY <1>0, <2>1, ChangedObjectType DEF Reasons
  <2>3. /\ store' \in [AppWrappers -> Object]
        /\ cache' \in [Controllers -> [AppWrappers -> CacheEntry]]
    BY <2>1, <2>2, UpdateStatusType DEF States, Steps
  <2> QED
    BY <2>3 DEF ReconcilerTypeOK, DispatcherTypeOK
<1> QED
  BY <1>1, <1>2, <1>3, <1>4, <1>5, <1>6, <1>7, <1>8, <1>9, <1>10, <1>11, <1>12,
     <1>13, <1>14 DEF DispatcherStep, DRequestStep, DReconcile

\* What requeueOrFail writes is a state and a step.
LEMMA RequeueOrFailStatusType ==
    ASSUME TypeOK, NEW a \in AppWrappers, NEW fatal
    PROVE  RequeueOrFailStatus(a, fatal) \in States \X Steps
<1>1. RView(a).step \in Steps
  BY ControllersType DEF RView, TypeOK, ReconcilerTypeOK, Object
<1> QED
  BY <1>1 DEF RequeueOrFailStatus, TeardownStatus, States, Steps

\* requeueOrFail (runner.go) preserves the types of what it writes.
LEMMA RequeueOrFailType ==
    ASSUME TypeOK, NEW a \in AppWrappers, NEW fatal, NEW r,
           RequeueOrFail(a, fatal, r)
    PROVE  /\ store' \in [AppWrappers -> Object]
           /\ cache' \in [Controllers -> [AppWrappers -> CacheEntry]]
<1>1. PICK state \in States, step \in Steps :
         UpdateStatus(R, a, RView(a), RView(a), state, step, r)
  BY RequeueOrFailStatusType DEF RequeueOrFail
<1>2. RView(a) \in Object
  BY ControllersType DEF RView, TypeOK, ReconcilerTypeOK
<1> QED
  BY <1>1, <1>2, ControllersType, UpdateStatusType DEF TypeOK

\* The end of a request of the Runner leaves its worker idle.
LEMMA FinishedType ==
    ASSUME queue \in [Controllers -> SUBSET AppWrappers],
           NEW a \in AppWrappers, NEW retry, Finished(a, retry)
    PROVE  /\ queue' \in [Controllers -> SUBSET AppWrappers]
           /\ RunnerTypeOK'
<1>1. Idle \in RunnerState
  BY ResourceAssumption DEF Idle, RunnerState
<1> QED
  BY <1>1, ControllersType DEF Finished, RunnerTypeOK, Idle

\* The Runner's worker takes an AppWrapper on.
LEMMA BusyType ==
    ASSUME NEW a \in AppWrappers, NEW op \in {"create", "delete", "fail"},
           NEW fatal \in BOOLEAN,
           \/ runner' = [Idle EXCEPT !.op = op, !.aw = a, !.fatal = fatal]
           \/ runner' = [Idle EXCEPT !.op = op, !.aw = a]
    PROVE  RunnerTypeOK'
<1>1. 1 \in 1 .. NItems + 1
  BY ResourceAssumption
<1>2. PICK f \in BOOLEAN :
         runner' = [op |-> op, aw |-> a, next |-> 1, remaining |-> 0, fatal |-> f]
  BY DEF Idle
<1>3. runner' \in RunnerState
  BY <1>1, <1>2 DEF RunnerState
<1> QED
  BY <1>2, <1>3, NoAppWrapperAssumption DEF RunnerTypeOK

\* Resources are created and deleted, not made up.
LEMMA ItemStepType ==
    ASSUME ResourceTypeOK, NEW a \in AppWrappers, NEW i, NEW r,
           CreateItem(a, i, r) \/ DeleteItem(a, i, r)
    PROVE  res' \in [AppWrappers -> [Items -> ResourceStates]]
<1>1. \A v \in ResourceStates :
         [res EXCEPT ![a][i] = v] \in [AppWrappers -> [Items -> ResourceStates]]
  BY DEF ResourceTypeOK
<1> QED
  BY <1>1 DEF CreateItem, DeleteItem, ResourceTypeOK, ResourceStates

\* Forced deletion (resource_manager.go) preserves the types.
LEMMA ForceDeleteType ==
    ASSUME ResourceTypeOK, NEW a \in AppWrappers, NEW listed,
           ForceDelete(a, listed)
    PROVE  ResourceTypeOK'
<1>1. CASE listed # {}
  <2>1. PICK kept : /\ pods' = [pods EXCEPT ![a] =
                          {p \in @ : ~ \E q \in listed \ kept : SameName(p, q)}]
                    /\ UNCHANGED <<res, podview>>
    BY <1>1 DEF ForceDelete
  <2> QED
    BY <2>1 DEF ResourceTypeOK
<1>2. CASE listed = {}
  <2>1. PICK kept : res' = [res EXCEPT ![a] =
                       [i \in Items |-> IF Exists(a, i) /\ i \notin kept
                                        THEN "terminating" ELSE res[a][i]]]
    BY <1>2 DEF ForceDelete, ForceDeleteItems
  <2>2. UNCHANGED <<pods, podview>>
    BY <1>2 DEF ForceDelete, ForceDeleteItems
  <2> QED
    BY <2>1, <2>2 DEF ResourceTypeOK, ResourceStates
<1> QED
  BY <1>1, <1>2

\* Every step of the Runner (runner.go) preserves the types.
LEMMA RunnerStepType ==
    ASSUME TypeOK, RunnerStep
    PROVE  ReconcilerTypeOK' /\ ResourceTypeOK' /\ RunnerTypeOK'
<1> DEFINE Goal == ReconcilerTypeOK' /\ ResourceTypeOK' /\ RunnerTypeOK'
<1> USE ControllersType, ResourceAssumption DEF TypeOK
<1>0. \A a \in AppWrappers : RView(a) \in Object
  BY DEF RView, ReconcilerTypeOK
<1>1. ASSUME NEW a \in AppWrappers, RMissing(a) PROVE Goal
  BY <1>1, ReconciledType
     DEF RMissing, resourceVars, ReconcilerTypeOK, ResourceTypeOK, RunnerTypeOK
<1>2. ASSUME NEW a \in AppWrappers, RStale(a) PROVE Goal
  BY <1>2, StaleEntryType, CacheUpdateType
     DEF RStale, AbortStale, resourceVars, ReconcilerTypeOK, ResourceTypeOK,
         RunnerTypeOK
<1>3. ASSUME NEW a \in AppWrappers, RForget(a) PROVE Goal
  BY <1>3, NoEntryType, CacheUpdateType, ReconciledType
     DEF RForget, resourceVars, ReconcilerTypeOK, ResourceTypeOK, RunnerTypeOK
<1>4. ASSUME NEW a \in AppWrappers, NEW r, RConvert(a, r) PROVE Goal
  <2>1. [RView(a) EXCEPT !.fin = (@ \cup {"dispatcher", "runner"}) \ {"legacy"}]
           \in Object
    BY <1>0 DEF Object, Finalizers
  <2>2. store' \in [AppWrappers -> Object]
    BY <1>4, <2>1, UpdateType DEF RConvert, ReconcilerTypeOK
  <2> QED
    BY <1>4, <2>2, FreshEntryType, CacheUpdateType, ReconciledType
       DEF RConvert, resourceVars, ReconcilerTypeOK, ResourceTypeOK, RunnerTypeOK
<1>5. ASSUME NEW a \in AppWrappers, NEW r, RAccept(a, r) PROVE Goal
  <2>1. /\ store' \in [AppWrappers -> Object]
        /\ cache' \in [Controllers -> [AppWrappers -> CacheEntry]]
    BY <1>0, <1>5, UpdateStatusType DEF RAccept, States, Steps
  <2> QED
    BY <1>5, <2>1, ReconciledType
       DEF RAccept, resourceVars, ReconcilerTypeOK, ResourceTypeOK, RunnerTypeOK
<1>6. ASSUME NEW a \in AppWrappers, RCreate(a) PROVE Goal
  <2>1. RunnerTypeOK'
    BY <1>6, BusyType DEF RCreate
  <2> QED
    BY <1>6, <2>1, FreshEntryType, CacheUpdateType, ReconciledType
       DEF RCreate, resourceVars, ReconcilerTypeOK, ResourceTypeOK
<1>7. ASSUME NEW a \in AppWrappers, NEW r, RSucceed(a, r) PROVE Goal
  <2>1. /\ store' \in [AppWrappers -> Object]
        /\ cache' \in [Controllers -> [AppWrappers -> CacheEntry]]
    BY <1>0, <1>7, UpdateStatusType DEF RSucceed, States, Steps
  <2> QED
    BY <1>7, <2>1, ReconciledType
       DEF RSucceed, resourceVars, ReconcilerTypeOK, ResourceTypeOK, RunnerTypeOK
<1>8. ASSUME NEW a \in AppWrappers, NEW r, RUnhealthy(a, r) PROVE Goal
  BY <1>8, RequeueOrFailType, ReconciledType
     DEF RUnhealthy, resourceVars, ReconcilerTypeOK, ResourceTypeOK, RunnerTypeOK
<1>9. ASSUME NEW a \in AppWrappers, RHealthy(a) PROVE Goal
  BY <1>9, FreshEntryType, CacheUpdateType, ReconciledType
     DEF RHealthy, resourceVars, ReconcilerTypeOK, ResourceTypeOK, RunnerTypeOK
<1>10. ASSUME NEW a \in AppWrappers, RDelete(a) PROVE Goal
  <2>1. RunnerTypeOK'
    BY <1>10, BusyType DEF RDelete
  <2> QED
    BY <1>10, <2>1, FreshEntryType, CacheUpdateType, ReconciledType
       DEF RDelete, resourceVars, ReconcilerTypeOK, ResourceTypeOK
<1>11. ASSUME NEW a \in AppWrappers, RNothing(a) PROVE Goal
  BY <1>11, FreshEntryType, CacheUpdateType, ReconciledType
     DEF RNothing, resourceVars, ReconcilerTypeOK, ResourceTypeOK, RunnerTypeOK
<1>12. runner.op # "idle" => runner.aw \in AppWrappers
  BY DEF RunnerTypeOK, RunnerState
<1>13. ASSUME RCreateItem PROVE Goal
  <2>1. PICK r : /\ CreateItem(runner.aw, runner.next, r)
                 /\ runner' = IF r = "ok"
                              THEN [runner EXCEPT !.next = runner.next + 1]
                              ELSE [Idle EXCEPT !.op = "fail", !.aw = runner.aw,
                                                !.fatal = (r = "fatal")]
    BY <1>13 DEF RCreateItem
  <2>2. runner.aw \in AppWrappers /\ runner.next + 1 \in 1 .. NItems + 1
    BY <1>12, <1>13 DEF RCreateItem, RunnerTypeOK, RunnerState
  <2>3. RunnerTypeOK'
    <3>1. CASE r = "ok"
      BY <2>1, <2>2, <3>1 DEF RunnerTypeOK, RunnerState
    <3>2. CASE r # "ok"
      BY <2>1, <2>2, <3>2, BusyType
    <3> QED
      BY <3>1, <3>2
  <2> QED
    BY <1>13, <2>1, <2>2, <2>3, ItemStepType
       DEF RCreateItem, reconcilerVars, ReconcilerTypeOK, ResourceTypeOK
<1>14. ASSUME NEW r, RCreated(r) PROVE Goal
  <2>1. runner.aw \in AppWrappers
    BY <1>12, <1>14 DEF RCreated
  <2>2. /\ store' \in [AppWrappers -> Object]
        /\ cache' \in [Controllers -> [AppWrappers -> CacheEntry]]
    BY <1>0, <1>14, <2>1, UpdateStatusType DEF RCreated, States, Steps
  <2> QED
    BY <1>14, <2>1, <2>2, FinishedType
       DEF RCreated, resourceVars, ReconcilerTypeOK, ResourceTypeOK
<1>15. ASSUME NEW r, RCreateFailed(r) PROVE Goal
  <2>1. runner.aw \in AppWrappers
    BY <1>12, <1>15 DEF RCreateFailed
  <2> QED
    BY <1>15, <2>1, RequeueOrFailType, FinishedType
       DEF RCreateFailed, resourceVars, ReconcilerTypeOK, ResourceTypeOK
<1>16. ASSUME RDeleteItem PROVE Goal
  <2>1. PICK r : /\ DeleteItem(runner.aw, runner.next, r)
                 /\ runner' = [runner EXCEPT
                                 !.next = runner.next + 1,
                                 !.remaining = IF r = "ok" THEN @ + 1 ELSE @]
    BY <1>16 DEF RDeleteItem
  <2>2. /\ runner.aw \in AppWrappers
        /\ runner.next + 1 \in 1 .. NItems + 1
        /\ runner.remaining + 1 \in Nat
    BY <1>12, <1>16 DEF RDeleteItem, RunnerTypeOK, RunnerState
  <2>3. RunnerTypeOK'
    BY <2>1, <2>2 DEF RunnerTypeOK, RunnerState
  <2> QED
    BY <1>16, <2>1, <2>2, <2>3, ItemStepType
       DEF RDeleteItem, reconcilerVars, ReconcilerTypeOK, ResourceTypeOK
<1>17. ASSUME NEW r, RDeleted(r) PROVE Goal
  <2>1. runner.aw \in AppWrappers /\ RView(runner.aw) \in Object
    BY <1>0, <1>12, <1>17 DEF RDeleted
  <2>2. /\ store' \in [AppWrappers -> Object]
        /\ cache' \in [Controllers -> [AppWrappers -> CacheEntry]]
    <3>1. CASE RView(runner.aw).del
      <4>1. [RView(runner.aw) EXCEPT !.fin = @ \ {"runner"}] \in Object
        BY <2>1 DEF Object
      <4>2. store' \in [AppWrappers -> Object]
        BY <1>17, <2>1, <3>1, <4>1, UpdateType DEF RDeleted, ReconcilerTypeOK
      <4>3. PICK e \in CacheEntry :
               cache' = [cache EXCEPT ![R][runner.aw] = e]
        BY <1>17, <2>1, <3>1, FreshEntryType, NoEntryType DEF RDeleted
      <4> QED
        BY <2>1, <4>2, <4>3, CacheUpdateType DEF ReconcilerTypeOK
    <3>2. CASE ~RView(runner.aw).del
      BY <1>17, <2>1, <3>2, UpdateStatusType DEF RDeleted, Object, Steps
    <3> QED
      BY <3>1, <3>2
  <2> QED
    BY <1>17, <2>1, <2>2, FinishedType
       DEF RDeleted, resourceVars, ReconcilerTypeOK, ResourceTypeOK
<1>18. ASSUME NEW force, RDeleteAgain(force) PROVE Goal
  <2>1. runner.aw \in AppWrappers
    BY <1>12, <1>18 DEF RDeleteAgain
  <2>2. ResourceTypeOK'
    BY <1>18, <2>1, ForceDeleteType
       DEF RDeleteAgain, resourceVars, ResourceTypeOK
  <2> QED
    BY <1>18, <2>1, <2>2, FinishedType DEF RDeleteAgain, ReconcilerTypeOK
<1> QED
  BY <1>1, <1>2, <1>3, <1>4, <1>5, <1>6, <1>7, <1>8, <1>9, <1>10, <1>11, <1>13,
     <1>14, <1>15, <1>16, <1>17, <1>18 DEF RunnerStep, RReconcile

\* What the cluster does with resources and pods preserves the types.
LEMMA ClusterStepType ==
    ASSUME TypeOK, NEW a \in AppWrappers, Cluster(a)
    PROVE  ReconcilerTypeOK' /\ ResourceTypeOK'
<1> DEFINE Goal == ReconcilerTypeOK' /\ ResourceTypeOK'
<1> USE ControllersType DEF TypeOK
<1>1. ASSUME NEW i \in Items, ItemGone(a, i) PROVE Goal
  BY <1>1 DEF ItemGone, reconcilerVars, ReconcilerTypeOK, ResourceTypeOK,
              ResourceStates
<1>2. ASSUME NEW i \in Items, ItemComplete(a, i) PROVE Goal
  <2>1. queue' \in [Controllers -> SUBSET AppWrappers]
    BY <1>2, ReconciledType DEF ItemComplete, ReconcilerTypeOK, R
  <2> QED
    BY <1>2, <2>1 DEF ItemComplete, ReconcilerTypeOK, ResourceTypeOK,
                      ResourceStates
<1>3. ASSUME NEW i \in Items, PodCreated(a, i) PROVE Goal
  <2>1. [item |-> i, run |-> store[a].restarts, phase |-> "Pending",
         del |-> FALSE] \in Pod
    BY DEF ReconcilerTypeOK, Object, Pod, Phases
  <2> QED
    BY <1>3, <2>1 DEF PodCreated, reconcilerVars, ReconcilerTypeOK, ResourceTypeOK
<1>4. ASSUME NEW p \in pods[a], NEW phase \in Phases, PodPhase(a, p, phase)
      PROVE Goal
  <2>1. [p EXCEPT !.phase = phase] \in Pod
    BY DEF ResourceTypeOK, Pod
  <2>2. queue' \in [Controllers -> SUBSET AppWrappers]
    BY <1>4, ReconciledType DEF PodPhase, PodEvent, ReconcilerTypeOK, R
  <2> QED
    BY <1>4, <2>1, <2>2 DEF PodPhase, ReconcilerTypeOK, ResourceTypeOK
<1>5. ASSUME NEW p \in pods[a], PodEvicted(a, p) PROVE Goal
  <2>0. p \in Pod
    BY DEF ResourceTypeOK
  <2>1. [p EXCEPT !.del = TRUE] \in Pod
    BY <2>0 DEF Pod
  <2> QED
    BY <1>5, <2>1 DEF PodEvicted, reconcilerVars, ReconcilerTypeOK, ResourceTypeOK
<1>6. ASSUME NEW p \in pods[a], PodGone(a, p) PROVE Goal
  BY <1>6 DEF PodGone, reconcilerVars, ReconcilerTypeOK, ResourceTypeOK
<1>7. ASSUME NEW c \in Controllers, PodSync(c, a) PROVE Goal
  <2>1. queue' \in [Controllers -> SUBSET AppWrappers]
    BY <1>7, ReconciledType DEF PodSync, PodEvent, ReconcilerTypeOK, R
  <2> QED
    BY <1>7, <2>1 DEF PodSync, ReconcilerTypeOK, ResourceTypeOK
<1> QED
  BY <1>1, <1>2, <1>3, <1>4, <1>5, <1>6, <1>7 DEF Cluster

\* Informers list pods.
LEMMA PodRelistType ==
    ASSUME ResourceTypeOK, NEW c, PodRelist(c)
    PROVE  ResourceTypeOK'
BY DEF PodRelist, ResourceTypeOK

\* Restarts preserve the types.
LEMMA RestartType ==
    ASSUME TypeOK, NEW c \in Controllers, RestartReconciler(c)
    PROVE  ReconcilerTypeOK'
BY NoEntryType DEF RestartReconciler, TypeOK, ReconcilerTypeOK

\* The controllers start well typed.
LEMMA ControllersInitType ==
    ASSUME ReconcilerInit, ResourceInit, DispatcherInit, RunnerInit
    PROVE  TypeOK
<1>1. NewObject \in Object /\ LegacyObject \in Object
  <2>1. NewObject \in Object
    BY DEF NewObject, Object, States, Steps, Reasons
  <2>2. {"legacy"} \in SUBSET Finalizers /\ "Queued" \in States
    BY DEF Finalizers, States
  <2>3. LegacyObject \in Object
    BY <2>1, <2>2 DEF LegacyObject, Object
  <2> QED
    BY <2>1, <2>3
<1>2. ReconcilerTypeOK
  BY <1>1, NoEntryType, LegacyAssumption DEF ReconcilerInit, ReconcilerTypeOK
<1>3. ResourceTypeOK
  BY DEF ResourceInit, ResourceTypeOK, ResourceStates
<1>4. DispatcherTypeOK
  BY DEF DispatcherInit, DispatcherTypeOK, QueuingDecision
<1>5. RunnerTypeOK
  <2>1. 1 \in 1 .. NItems + 1
    BY ResourceAssumption
  <2> QED
    BY <2>1 DEF RunnerInit, RunnerTypeOK, RunnerState, Idle
<1> QED
  BY <1>2, <1>3, <1>4, <1>5 DEF TypeOK

-----------------------------------------------------------------------------
(* What updates do to an object.                                           *)

\* Of objects and of cache entries.
SameStatus(x, y) == x.tc = y.tc /\ x.state = y.state /\ x.step = y.step

\* x is y or an earlier version of it.
Follows(x, y) == x.tc <= y.tc /\ (x.tc = y.tc => SameStatus(x, y))

\* The API server stores as it is an object that is not being deleted, or that
\* still has a finalizer.
LEMMA StoredAsSent ==
    ASSUME NEW o, ~o.del \/ o.fin # {}
    PROVE  Stored(o) = o
BY DEF Stored

\* A transition leaves alone what is not the status.
LEMMA TransitionKeeps ==
    ASSUME NEW o \in Object, NEW state, NEW step
    PROVE  /\ Transition(o, state, step).del = o.del
           /\ Transition(o, state, step).fin = o.fin
           /\ Transition(o, state, step).ex = o.ex
           /\ Transition(o, state, step).cond = o.cond
           /\ Transition(o, state, step).restarts = o.restarts
           /\ Transition(o, state, step).tc = o.tc + 1
           /\ Transition(o, state, step).state = state
           /\ Transition(o, state, step).step = step
BY DEF Transition, Object
=============================================================================
