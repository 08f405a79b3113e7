----------------------------- MODULE Dispatcher -----------------------------
(***************************************************************************)
(* dispatcher.go.  One worker handles both kinds of requests:              *)
(* "namespace/name" reconciles one AppWrapper, "*/*" selects queued        *)
(* AppWrappers and dispatches them one by one.  Every call to the API      *)
(* server is a step of its own, so that anything may happen between two of *)
(* them; the informer copies are read when a request starts.  The requests *)
(* that multi-cluster mode handles in more steps are in MultiCluster.      *)
(***************************************************************************)
EXTENDS ResourceManager, DispatchLogic

CONSTANTS
    MultiClusterMode,   \* the Dispatcher is in a cluster of its own, the hub
    PodSpec             \* PodSpec[a]: the specification of the pods of a

ASSUME ModeAssumption == MultiClusterMode \in BOOLEAN

VARIABLES
    decisions,      \* decisions[a]: the reason in Decisions, "none" without one
    todo,           \* the AppWrappers selected and not dispatched yet
    adding,         \* the new AppWrapper that has its finalizers, not its status
    trigger         \* a "*/*" request is in the workqueue or in Events

dispatcherVars == <<decisions, todo, adding, trigger>>

D == "Dispatcher"

\* The reasons selectForDispatch gives.
QueuingDecision == {"none", "InsufficientResources", "InsufficientQuota"}

DispatcherIdle == todo = {} /\ adding = NoAppWrapper

\* The informer copy of a, as read at the start of the reconciliation.
DView(a) == view[D][a]

DReconciling(a) == DispatcherIdle /\ Reconciling(D, a)

\* Status of the AppWrapper being reconciled, and not being deleted.
DState(a, state, step) ==
    ~DView(a).del /\ DView(a).state = state /\ DView(a).step = step

-----------------------------------------------------------------------------
(* Reconcile, one AppWrapper.                                              *)

\* No such AppWrapper.
DMissing(a) ==
    /\ DispatcherIdle
    /\ a \in queue[D]
    /\ DView(a).ex # "live"
    /\ trigger' = TRUE
    /\ Reconciled(D, a, FALSE)
    /\ UNCHANGED <<store, view, cache, decisions, todo, adding>>

DStale(a) ==
    /\ DispatcherIdle
    /\ AbortStale(D, a)
    /\ UNCHANGED dispatcherVars

\* "wait for the runner to remove its finalizer before we remove ours"
DAwaitRunner(a) ==
    /\ DReconciling(a)
    /\ DView(a).del
    /\ "runner" \in DView(a).fin
    /\ cache' = [cache EXCEPT ![D][a] = FreshEntry(D, a)]
    /\ Reconciled(D, a, TRUE)
    /\ UNCHANGED <<store, view, dispatcherVars>>

\* Remove the dispatcher finalizer if it is there, then forget the AppWrapper.
DFinalize(a, r) ==
    LET read == DView(a)
        had  == "dispatcher" \in read.fin
        ok   == ~had \/ Succeeds(a, read, r)
    IN  /\ DReconciling(a)
        /\ read.del
        /\ "runner" \notin read.fin
        /\ IF had
           THEN Update(a, read, [read EXCEPT !.fin = @ \ {"dispatcher"}], r)
           ELSE UNCHANGED store
        /\ cache' = [cache EXCEPT ![D][a] =
                        IF ok THEN NoEntry ELSE FreshEntry(D, a)]
        /\ decisions' = IF ok THEN [decisions EXCEPT ![a] = "none"] ELSE decisions
        /\ Reconciled(D, a, ~ok)
        /\ UNCHANGED <<view, todo, adding, trigger>>

\* Mutant: the runner finalizer is forgotten.
WithDispatchFinalizer(o) == [o EXCEPT !.fin = @ \cup {"dispatcher"}]

\* The new AppWrapper with its finalizers.  In multi-cluster mode the Runner adds
\* its own, to the copy in the cluster it runs in.
WithFinalizers(o) ==
    [o EXCEPT !.fin = @ \cup (IF MultiClusterMode THEN {"dispatcher"}
                              ELSE {"dispatcher", "runner"})]

\* A new AppWrapper: add the finalizers ...
DAddFinalizers(a, r) ==
    LET read == DView(a)
        ok   == WithFinalizers(read) = read \/ Succeeds(a, read, r)
    IN  /\ DReconciling(a)
        /\ DState(a, "Empty", "Idle")
        /\ IF WithFinalizers(read) # read
           THEN Update(a, read, WithFinalizers(read), r) ELSE UNCHANGED store
        /\ cache' = [cache EXCEPT ![D][a] = FreshEntry(D, a)]
        /\ adding' = IF ok THEN a ELSE NoAppWrapper
        /\ Reconciled(D, a, ~ok)
        /\ UNCHANGED <<view, decisions, todo, trigger>>

\* ... and "set queued/idle status only after adding finalizers"
DQueueNew(r) ==
    LET a    == adding
        read == WithFinalizers(DView(a))
    IN  /\ adding # NoAppWrapper
        /\ UpdateStatus(D, a, read, read, "Queued", "Idle", r)
        /\ Reconciled(D, a, ~Succeeds(a, read, r))
        /\ adding' = NoAppWrapper
        /\ UNCHANGED <<view, decisions, todo, trigger>>

\* A queued AppWrapper: propagate the latest queuing decision, whatever comes
\* of the update, and ask for a dispatch if it has no Queued condition yet.
DQueued(a, r) ==
    LET read == DView(a)
        new  == [read EXCEPT !.cond = decisions[a]]
        told == decisions[a] # "none"
    IN  /\ DReconciling(a)
        /\ DState(a, "Queued", "Idle")
        /\ IF told THEN Update(a, read, new, r) ELSE UNCHANGED store
        /\ decisions' = IF told /\ Succeeds(a, read, r)
                        THEN [decisions EXCEPT ![a] = "none"] ELSE decisions
        /\ trigger' = (trigger \/ (~told /\ read.cond = "none"))
        /\ cache' = [cache EXCEPT ![D][a] = FreshEntry(D, a)]
        /\ Reconciled(D, a, TRUE)
        /\ UNCHANGED <<view, todo, adding>>

\* Running/Dispatching: hand the AppWrapper over to the Runner.
DHandOver(a, r) ==
    LET read == DView(a) IN
    /\ DReconciling(a)
    /\ DState(a, "Running", "Dispatching")
    /\ UpdateStatus(D, a, read, read, "Running", "Accepting", r)
    /\ Reconciled(D, a, ~Succeeds(a, read, r))
    /\ UNCHANGED <<view, dispatcherVars>>

\* Mutant: the Queued condition is left as it was.
RestartedObject(o) == [o EXCEPT !.restarts = @ + 1]

\* One more restart, and the Queued condition says so.
RequeuedObject(o) == [o EXCEPT !.restarts = @ + 1, !.cond = "Requeued"]

\* Running/Deleted: count the restart and queue the AppWrapper again.
DRequeue(a, r) ==
    LET read == DView(a)
        ok   == Succeeds(a, read, r)
    IN  /\ DReconciling(a)
        /\ DState(a, "Running", "Deleted")
        /\ UpdateStatus(D, a, read, RequeuedObject(read), "Queued", "Idle", r)
        /\ decisions' = IF ok THEN [decisions EXCEPT ![a] = "none"] ELSE decisions
        /\ trigger' = (trigger \/ ok)
        /\ Reconciled(D, a, ~ok)
        /\ UNCHANGED <<view, todo, adding>>

\* Failed/Deleted: nothing of the AppWrapper is left in the cluster.
DFailed(a, r) ==
    LET read == DView(a) IN
    /\ DReconciling(a)
    /\ DState(a, "Failed", "Deleted")
    /\ UpdateStatus(D, a, read, read, "Failed", "Idle", r)
    /\ Reconciled(D, a, ~Succeeds(a, read, r))
    /\ UNCHANGED <<view, dispatcherVars>>

\* A finished AppWrapper gave its resources back: dispatch another one.  In all
\* other states the Dispatcher has nothing to do.
DNothing(a) ==
    /\ DReconciling(a)
    /\ ~DView(a).del
    /\ <<DView(a).state, DView(a).step>> \notin
          {<<"Empty", "Idle">>, <<"Queued", "Idle">>,
           <<"Running", "Dispatching">>, <<"Running", "Deleted">>,
           <<"Failed", "Deleted">>}
    /\ trigger' = (trigger \/ DView(a).step = "Idle")
    /\ cache' = [cache EXCEPT ![D][a] = FreshEntry(D, a)]
    /\ Reconciled(D, a, FALSE)
    /\ UNCHANGED <<store, view, decisions, todo, adding>>

-----------------------------------------------------------------------------
(* dispatch, the "*/*" request.                                            *)

\* AppWrappers the informer lists.
Listed == {a \in AppWrappers : DView(a).ex = "live"}

\* buildQueue: those whose step says that they hold resources, ...
InFlight == {a \in Listed : CachedStep(D, a) # "Idle"}

\* ... what they book: their request, or that of the pods listed on nodes if it
\* is more, ...
Booked ==
    [a \in InFlight |->
        Maximum(AggregateRequests[a],
                Total(LAMBDA p : NewWeightsForPod(PodSpec[a]),
                      {p \in PodView(D, a) : p.phase \in {"Scheduled", "Running"}}))]

\* ... those that hold nothing, and whose pause after a restart is over ...
IdleCandidates(paused) == Listed \ (InFlight \cup paused)

\* ... and among them the queued ones.
Candidates(paused) ==
    {a \in IdleCandidates(paused) : CachedState(D, a) = "Queued"}

\* PauseTimeInSeconds may not be over for AppWrappers that were requeued.
Requeued == {a \in Listed : DView(a).restarts > 0}

\* selectForDispatch for the capacity and the quotas the informers report: one
\* queuing decision for each candidate that does not fit.  With nothing to
\* dispatch the request ends, to be retried after dispatchDelay.
DSelect(paused, capacity, quota) ==
    /\ DispatcherIdle
    /\ trigger
    /\ \E S \in SUBSET Candidates(paused) :
          /\ IsSelection(S, Candidates(paused), capacity, Booked, quota)
          /\ todo' = S
          /\ decisions' = [a \in AppWrappers |->
                              IF a \in Candidates(paused) \ S
                              THEN Reason(a, S, capacity, Booked)
                              ELSE decisions[a]]
          /\ trigger' = (S = {})
    /\ UNCHANGED <<reconcilerVars, adding>>

\* The copy of a that was selected is stale, or not queued after all.
NotDispatchable(a) == IsStale(D, a) \/ DView(a).state # "Queued"

\* Give up this dispatch and ask for another one.
DAbort ==
    /\ \E a \in todo :
          /\ IsFirst(a, todo)
          /\ NotDispatchable(a)
          /\ \E timedOut \in {FALSE} \cup {"timeout" \in Faults} :
                cache' = [cache EXCEPT ![D][a] =
                            IF IsStale(D, a) THEN StaleEntry(D, a, timedOut)
                            ELSE FreshEntry(D, a)]
    /\ todo' = {}
    /\ trigger' = TRUE
    /\ UNCHANGED <<store, view, queue, decisions, adding>>

\* Dispatch the next AppWrapper.  An error ends the dispatch, to be retried.
DDispatch(r) ==
    \E a \in todo :
        LET read == DView(a)
            new  == [read EXCEPT !.cond = "Dispatched"]
            rest == IF Succeeds(a, read, r) THEN todo \ {a} ELSE {}
        IN  /\ IsFirst(a, todo)
            /\ ~NotDispatchable(a)
            /\ UpdateStatus(D, a, read, new, "Running", "Dispatching", r)
            /\ todo' = rest
            /\ trigger' = (rest = {})
            /\ UNCHANGED <<view, queue, decisions, adding>>

-----------------------------------------------------------------------------

\* Everything the Dispatcher does for AppWrapper a when calls end with r.
DReconcile(a, r) ==
    \/ DMissing(a)
    \/ DStale(a)
    \/ DAwaitRunner(a)
    \/ DFinalize(a, r)
    \/ DAddFinalizers(a, r)
    \/ DQueued(a, r)
    \/ DHandOver(a, r)
    \/ DRequeue(a, r)
    \/ DFailed(a, r)
    \/ DNothing(a)

\* The steps of the Dispatcher but for the selection.
DRequestStep ==
    \/ \E r \in Outcomes :
          \/ \E a \in AppWrappers : DReconcile(a, r)
          \/ DQueueNew(r)
          \/ DDispatch(r)
    \/ DAbort

\* The steps of the Dispatcher.  It writes AppWrappers only.
DispatcherStep(capacity, quota) ==
    /\ \/ DRequestStep
       \/ \E paused \in SUBSET Requeued : DSelect(paused, capacity, quota)
    /\ UNCHANGED resourceVars

\* The process starts again; SetupWithManager triggers the first dispatch.
DispatcherRestart ==
    /\ RestartReconciler(D)
    /\ decisions' = [a \in AppWrappers |-> "none"]
    /\ todo' = {}
    /\ adding' = NoAppWrapper
    /\ trigger' = TRUE
    /\ PodRelist(D)

DispatcherInit ==
    /\ decisions = [a \in AppWrappers |-> "none"]
    /\ todo = {}
    /\ adding = NoAppWrapper
    /\ trigger = TRUE

DispatcherTypeOK ==
    /\ decisions \in [AppWrappers -> QueuingDecision]
    /\ todo \subseteq AppWrappers
    /\ adding \in AppWrappers \cup {NoAppWrapper}
    /\ trigger \in BOOLEAN
=============================================================================
