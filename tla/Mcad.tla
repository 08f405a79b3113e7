-------------------------------- MODULE Mcad --------------------------------
(***************************************************************************)
(* MCAD in single-cluster mode: the Dispatcher and the Runner, the users   *)
(* who create and delete AppWrappers, the API server and the informers in  *)
(* between, and the cluster the wrapped resources live in.  The capacity   *)
(* of the cluster is fixed and there are no ResourceQuotas: Admission adds *)
(* the latter, and ClusterInfo is about how the capacity changes.          *)
(***************************************************************************)
EXTENDS Deployment

ASSUME McadAssumption == ~MultiClusterMode

vars == <<reconcilerVars, resourceVars, dispatcherVars, runner>>

Init ==
    /\ ReconcilerInit
    /\ ResourceInit
    /\ DispatcherInit
    /\ RunnerInit

UserStep ==
    /\ \/ \E a \in AppWrappers : Create(a)
       \/ \E a \in Deletable : Delete(a)
    /\ UNCHANGED <<resourceVars, dispatcherVars, runner>>

\* A controller reads its informer at the start of a request only.  What the
\* informer receives during a request may therefore be delivered at its end.
Idling(c) == IF c = D THEN DispatcherIdle ELSE runner = Idle

Informer(c, a) ==
    /\ Idling(c)
    /\ Sync(c, a)
    /\ UNCHANGED <<resourceVars, dispatcherVars, runner>>

Restart(c) ==
    \/ c = D /\ DispatcherRestart /\ UNCHANGED runner
    \/ c = R /\ RunnerRestart /\ UNCHANGED dispatcherVars

Next ==
    \/ UserStep
    \/ \E c \in Controllers, a \in AppWrappers : Informer(c, a)
    \/ DispatcherStep(Capacity, NoQuota) /\ UNCHANGED runner
    \/ RunnerStep /\ UNCHANGED dispatcherVars
    \/ \E a \in AppWrappers : Cluster(a) /\ UNCHANGED <<dispatcherVars, runner>>
    \/ \E c \in Restartable : Restart(c)

Spec == Init /\ [][Next]_vars

-----------------------------------------------------------------------------
(* Fairness.  Each controller has one worker that takes requests off a     *)
(* first-in first-out queue, so a request that is always there again is    *)
(* handled again and again; a call that is retried for ever succeeds once  *)
(* in a while; every delay ends; informers and the cluster's garbage       *)
(* collection make progress.  Users need not do anything, controllers need *)
(* not restart, and pods need neither finish nor go away by themselves.    *)

OnlyDispatcher == UNCHANGED <<resourceVars, runner>>

OnlyRunner == UNCHANGED dispatcherVars

\* What ends a request that takes several steps.
DFollowUp == DQueueNew("ok") \/ DDispatch("ok") \/ DAbort

RFollowUp == RCreated("ok") \/ RCreateFailed("ok") \/ RDeleted("ok")

DispatcherFairness ==
    /\ \A a \in AppWrappers : WF_vars(DReconcile(a, "ok") /\ OnlyDispatcher)
    /\ SF_vars(DFollowUp /\ OnlyDispatcher)

RunnerFairness ==
    /\ \A a \in AppWrappers : WF_vars(RReconcile(a, "ok") /\ OnlyRunner)
    /\ WF_vars((RCreateItem \/ RDeleteItem) /\ OnlyRunner)
    /\ SF_vars(RFollowUp /\ OnlyRunner)
    /\ SF_vars(RDeleteAgain(TRUE) /\ OnlyRunner)

EnvironmentFairness ==
    /\ \A c \in Controllers : SF_vars(\E a \in AppWrappers : Informer(c, a))
    /\ \A a \in AppWrappers, i \in Items :
          WF_vars(ItemGone(a, i) /\ UNCHANGED <<dispatcherVars, runner>>)
    /\ \A c \in LaggingPods, a \in AppWrappers :
          WF_vars(PodSync(c, a) /\ UNCHANGED <<dispatcherVars, runner>>)

FairSpec ==
    /\ Spec
    /\ WF_vars(DSelect({}, Capacity, NoQuota) /\ OnlyDispatcher)
    /\ DispatcherFairness
    /\ RunnerFairness
    /\ EnvironmentFairness

-----------------------------------------------------------------------------

(* Safety.                                                                 *)

\* isStale never finds "something wrong with our cache" (cache.go:97): when the
\* informer and a controller's own cache count as many transitions of an
\* AppWrapper, they agree on its state and step.
CacheSound == \A c \in Controllers, a \in AppWrappers : ~CacheConflict(c, a)

DispatcherSteps == {"Idle", "Dispatching", "Deleted"}

RunnerSteps == {"Accepting", "Creating", "Created", "Deleting"}

LatestCount(c, a) ==
    IF Behind(c, a) THEN cache[c][a].tc ELSE view[c][a].tc

\* The controllers pass each AppWrapper back and forth like a baton.  If the
\* latest step a controller knows of is one that it alone may leave, then it
\* knows of every transition there was: stale informer reads, conflicting
\* updates, API errors and restarts notwithstanding.
HandOff ==
    \A a \in AppWrappers :
        /\ CachedStep(D, a) \in DispatcherSteps
              => LatestCount(D, a) = store[a].tc
        /\ CachedStep(R, a) \in RunnerSteps
              => LatestCount(R, a) = store[a].tc

\* buildQueue books resources for every AppWrapper that holds some: "get
\* AppWrapper from cache if available as reconciler cache may be lagging"
\* (dispatch_logic.go:90).
InFlightAccounted ==
    \A a \in AppWrappers :
        store[a].ex = "live" /\ store[a].step # "Idle" => a \in InFlight

\* dispatch never meets a selected AppWrapper that passes isStale and is not
\* queued, the "Internal error" of dispatcher.go:269.
SelectedAreQueued ==
    \A a \in todo : IsStale(D, a) \/ DView(a).state = "Queued"

\* Wrapped resources exist only while the status says so: they are created in
\* Running/Creating and gone before Deleted is reported, so an AppWrapper that is
\* queued, dispatched or requeued has none ("Resources are not deployed",
\* appwrapper_types.go:148).  A successful AppWrapper keeps its resources.
ResourcesTracked ==
    \A a \in AppWrappers, i \in Items :
        Exists(a, i) => \/ store[a].step \in {"Creating", "Created", "Deleting"}
                        \/ store[a].state = "Succeeded"

\* While a wrapped resource exists the runner finalizer keeps its AppWrapper:
\* nobody can remove the AppWrapper and leave the resource behind.
ResourcesGuarded ==
    \A a \in AppWrappers, i \in Items :
        Exists(a, i) => store[a].ex = "live" /\ "runner" \in store[a].fin

\* buildQueue books resources for every AppWrapper that has resources in the
\* cluster, until it succeeds: even when the reply to a status update is lost or
\* the informer lags for longer than cacheConflictTimeout, which may leave an
\* AppWrapper unbooked that was just dispatched (dispatch_logic.go:90).
DeployedBooked ==
    \A a \in AppWrappers, i \in Items :
        Exists(a, i) => a \in InFlight \/ store[a].state = "Succeeded"

\* The Queued condition never contradicts the state, although decisions reach it
\* later and through another reconciliation than the one that made them.
ConditionTruthful ==
    \A a \in AppWrappers :
        /\ store[a].state = "Queued" => store[a].cond # "Dispatched"
        /\ store[a].state = "Queued" /\ store[a].restarts > 0
              => store[a].cond # "none"
        /\ store[a].state \in {"Running", "Succeeded", "Failed"}
              => store[a].cond = "Dispatched"

\* requeueOrFail bounds the number of restarts.
RestartLimit ==
    \A a \in AppWrappers :
        MaxNumRequeuings[a] > 0 => store[a].restarts <= MaxNumRequeuings[a]

\* AppWrappers of the highest priority, against which nothing of lower priority
\* counts, never hold more than the capacity: "available cluster capacity =
\* total capacity reported in cluster info - capacity reserved by AppWrappers"
\* (dispatch_logic.go:189).
NoOvercommit ==
    LET top == {a \in AppWrappers :
                  \A b \in AppWrappers : Priority[a] >= Priority[b]}
    IN  Fits(TotalRequest({a \in top : /\ store[a].ex = "live"
                                       /\ store[a].step # "Idle"}),
             Capacity)

-----------------------------------------------------------------------------
(* Liveness.                                                               *)

\* An AppWrapper that is being deleted goes away, whatever state it is in and
\* whatever the controllers were doing with it.
DeletionCompletes ==
    \A a \in AppWrappers :
        store[a].ex = "live" /\ store[a].del ~> store[a].ex = "gone"

\* An AppWrapper that is requeued or that failed gets rid of its resources, even
\* if its pods never terminate by themselves (forced deletion).
TeardownCompletes ==
    \A a \in AppWrappers :
        store[a].ex = "live" /\ store[a].step = "Deleting"
            ~> store[a].ex = "gone" \/ store[a].step = "Idle"

\* An AppWrapper that fits is dispatched, the first time and after each restart.
QueuedIsDispatched ==
    \A a \in AppWrappers :
        store[a].ex = "live" /\ store[a].state \in {"Empty", "Queued"}
            ~> store[a].ex = "gone" \/ store[a].state \notin {"Empty", "Queued"}

-----------------------------------------------------------------------------
(* Refinement.                                                             *)

Lifecycle ==
    INSTANCE AppWrapperLifecycle WITH
        life     <- [a \in AppWrappers |->
                       IF store[a].ex = "live" /\ store[a].del THEN "deleting"
                       ELSE store[a].ex],
        status   <- [a \in AppWrappers |-> <<store[a].state, store[a].step>>],
        restarts <- [a \in AppWrappers |-> store[a].restarts],
        deployed <- [a \in AppWrappers |-> \E i \in Items : Exists(a, i)]

\* The two controllers together, each acting on its own stale view, implement
\* the lifecycle: every step of the system is a transition it allows.
ImplementsLifecycle == Lifecycle!Spec
=============================================================================
