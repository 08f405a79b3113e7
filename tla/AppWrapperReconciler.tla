------------------------ MODULE AppWrapperReconciler ------------------------
(***************************************************************************)
(* What the two AppWrapper controllers, Dispatcher and Runner, have in     *)
(* common: the AppWrapper object they both write through the API server,   *)
(* the informer copy ("reconciler cache") each of them reads, the small    *)
(* cache of its own writes each keeps beside the informer (cache.go), its  *)
(* workqueue, and updateStatus (appwrapper_controller.go).                 *)
(*                                                                         *)
(* The API server and the informers are not MCAD code.  They are modelled  *)
(* from how the code uses them: a write succeeds only on the version that  *)
(* was read (resourceVersion), and an informer copy lags behind the store  *)
(* by any amount but never goes back.                                      *)
(***************************************************************************)
EXTENDS Naturals

CONSTANTS
    AppWrappers,    \* the AppWrapper objects a user may create (one UID each)
    NoAppWrapper,   \* not an AppWrapper
    Legacy,         \* those created by MCAD 2.2 or earlier, before the upgrade
    Faults          \* the failures of the environment a run allows:
                    \*   "error"   an API call fails and changes nothing
                    \*   "lost"    an update is stored but its reply is lost
                    \*   "timeout" an informer lags beyond cacheConflictTimeout
                    \*   "delete"  deleting a wrapped resource fails
                    \*   "list"    listing pods fails

ASSUME NoAppWrapperAssumption == NoAppWrapper \notin AppWrappers

ASSUME LegacyAssumption == Legacy \subseteq AppWrappers

ASSUME FaultsAssumption ==
    Faults \subseteq {"error", "lost", "timeout", "delete", "list"}

VARIABLES
    store,          \* the AppWrapper objects in etcd
    view,           \* view[c][a]: the informer copy of a that controller c reads
    cache,          \* cache[c][a]: controller c's own cache (cache.go)
    queue           \* queue[c]: the AppWrappers c has yet to reconcile

reconcilerVars == <<store, view, cache, queue>>

Controllers == {"Dispatcher", "Runner"}

-----------------------------------------------------------------------------
(* The AppWrapper object, reduced to the fields the controllers act on.    *)

States == {"Empty", "Queued", "Running", "Succeeded", "Failed"}

Steps == {"Idle", "Dispatching", "Accepting", "Creating", "Created",
          "Deleting", "Deleted"}

Finalizers == {"legacy", "dispatcher", "runner"}

\* The reason of the Queued condition ("none": there is no such condition).
Reasons ==
    {"none", "InsufficientResources", "InsufficientQuota", "Requeued", "Dispatched"}

Object ==
    [ex       : {"new", "live", "gone"},   \* not created yet, stored, removed
     del      : BOOLEAN,                   \* DeletionTimestamp is set
     fin      : SUBSET Finalizers,
     state    : States,
     step     : Steps,
     tc       : Nat,                       \* TransitionCount
     restarts : Nat,
     cond     : Reasons]

NewObject ==
    [ex |-> "new", del |-> FALSE, fin |-> {}, state |-> "Empty",
     step |-> "Idle", tc |-> 0, restarts |-> 0, cond |-> "none"]

\* An AppWrapper queued by MCAD 2.2, which used one finalizer and no condition.
LegacyObject ==
    [NewObject EXCEPT !.ex = "live", !.fin = {"legacy"},
                      !.state = "Queued", !.tc = 1]

CacheEntry ==
    [has : BOOLEAN, state : States, step : Steps, tc : Nat, conflict : BOOLEAN]

NoEntry ==
    [has |-> FALSE, state |-> "Empty", step |-> "Idle", tc |-> 0,
     conflict |-> FALSE]

\* The entry addCachedAW stores for an AppWrapper.
Entry(o) ==
    [has |-> TRUE, state |-> o.state, step |-> o.step, tc |-> o.tc,
     conflict |-> FALSE]

-----------------------------------------------------------------------------
(* cache.go: which of the two copies is newer.                             *)

\* The controller's own writes are ahead of the informer copy.
Behind(c, a) == cache[c][a].has /\ cache[c][a].tc > view[c][a].tc

\* getCachedAW
CachedState(c, a) ==
    IF Behind(c, a) THEN cache[c][a].state ELSE view[c][a].state

\* Mutant: buildQueue reads the informer copy alone.
InformerStep(c, a) == view[c][a].step

CachedStep(c, a) ==
    IF Behind(c, a) THEN cache[c][a].step ELSE view[c][a].step

\* As many transitions in both copies, yet not the same state: "cache conflict".
CacheConflict(c, a) ==
    /\ cache[c][a].has
    /\ cache[c][a].tc = view[c][a].tc
    /\ \/ cache[c][a].state # view[c][a].state
       \/ cache[c][a].step # view[c][a].step

IsStale(c, a) == Behind(c, a) \/ CacheConflict(c, a)

\* The cache entry isStale leaves when it answers true.  It drops the entry on
\* a cache conflict, and when the informer has been behind for longer than
\* cacheConflictTimeout; otherwise it remembers when the conflict started.
StaleEntry(c, a, timedOut) ==
    IF CacheConflict(c, a) \/ (cache[c][a].conflict /\ timedOut)
    THEN NoEntry
    ELSE [cache[c][a] EXCEPT !.conflict = TRUE]

\* The cache entry isStale leaves when it answers false: an entry that was
\* behind is brought up to date, an entry in sync loses its conflict time.
FreshEntry(c, a) == IF cache[c][a].has THEN Entry(view[c][a]) ELSE NoEntry

\* "abort and requeue reconciliation if reconciler cache is stale"
AbortStale(c, a) ==
    /\ a \in queue[c]
    /\ view[c][a].ex = "live"
    /\ IsStale(c, a)
    /\ \E timedOut \in {FALSE} \cup {"timeout" \in Faults} :
          cache' = [cache EXCEPT ![c][a] = StaleEntry(c, a, timedOut)]
    /\ UNCHANGED <<store, view, queue>>

\* The common start of a reconciliation of a that is not aborted.
Reconciling(c, a) ==
    /\ a \in queue[c]
    /\ view[c][a].ex = "live"
    /\ ~IsStale(c, a)

-----------------------------------------------------------------------------
(* The API server (external).                                              *)

\* How a call ends, from the caller's point of view and the server's.
Outcomes == {"ok"} \cup (Faults \cap {"error", "lost"})

\* An object marked for deletion goes away with its last finalizer.
Stored(o) == IF o.del /\ o.fin = {} THEN [o EXCEPT !.ex = "gone"] ELSE o

\* The server accepts an update only of the version that was read.  An update
\* that changes an object gives it a value it never had, so comparing the object
\* read with the object stored is comparing their resourceVersions.  (An update
\* of what the model leaves out, the message of a condition, may cause one more
\* conflict: the caller sees an error and nothing else happens.)
Accepted(a, read, r) == read = store[a] /\ r \in {"ok", "lost"}

\* The caller sees no error.
Succeeds(a, read, r) == read = store[a] /\ r = "ok"

Update(a, read, new, r) ==
    store' = IF Accepted(a, read, r)
             THEN [store EXCEPT ![a] = Stored(new)] ELSE store

-----------------------------------------------------------------------------
(* appwrapper_controller.go                                                *)

\* Mutant: updateStatus does not count the transition.
UncountedTransition(o, state, step) ==
    [o EXCEPT !.state = state, !.step = step]

\* The object updateStatus sends: one more transition, the new state and step.
Transition(o, state, step) ==
    [o EXCEPT !.tc = @ + 1, !.state = state, !.step = step]

\* Mutant: updateStatus does not cache what it wrote.
UncachedUpdateStatus(c, a, read, o, state, step, r) ==
    /\ Update(a, read, Transition(o, state, step), r)
    /\ cache' = [cache EXCEPT ![c][a] = FreshEntry(c, a)]

\* updateStatus of the object read, changed to o by the caller.  On success the
\* new status is cached; on an error the cache stays as isStale left it.
UpdateStatus(c, a, read, o, state, step, r) ==
    LET new == Transition(o, state, step) IN
    /\ Update(a, read, new, r)
    /\ cache' = [cache EXCEPT ![c][a] =
                    IF Succeeds(a, read, r) THEN Entry(new)
                    ELSE FreshEntry(c, a)]

\* Mutant: a request that failed is not retried.
ReconciledForGood(c, a, retry) ==
    queue' = [queue EXCEPT ![c] = @ \ {a}]

\* The reconciliation of a by c ends.  The request leaves the workqueue unless
\* it is to be retried: Requeue, RequeueAfter or an error.
Reconciled(c, a, retry) ==
    queue' = [queue EXCEPT ![c] = IF retry THEN @ \cup {a} ELSE @ \ {a}]

-----------------------------------------------------------------------------
(* The users and the informers (external).                                 *)

Create(a) ==
    /\ store[a].ex = "new"
    /\ store' = [store EXCEPT ![a].ex = "live"]
    /\ UNCHANGED <<view, cache, queue>>

Delete(a) ==
    /\ store[a].ex = "live"
    /\ ~store[a].del
    /\ store' = [store EXCEPT ![a] = Stored([@ EXCEPT !.del = TRUE])]
    /\ UNCHANGED <<view, cache, queue>>

\* The informer of c catches up on a and its event handler enqueues a.
Sync(c, a) ==
    /\ view[c][a] # store[a]
    /\ view' = [view EXCEPT ![c][a] = store[a]]
    /\ queue' = [queue EXCEPT ![c] = @ \cup {a}]
    /\ UNCHANGED <<store, cache>>

\* Controller c is restarted: its memory is gone, its informer lists the
\* objects afresh and every object listed is enqueued.
RestartReconciler(c) ==
    /\ view' = [view EXCEPT ![c] = store]
    /\ cache' = [cache EXCEPT ![c] = [a \in AppWrappers |-> NoEntry]]
    /\ queue' = [queue EXCEPT ![c] = {a \in AppWrappers : store[a].ex = "live"}]
    /\ UNCHANGED store

ReconcilerInit ==
    /\ store = [a \in AppWrappers |->
                  IF a \in Legacy THEN LegacyObject ELSE NewObject]
    /\ view = [c \in Controllers |-> store]
    /\ cache = [c \in Controllers |-> [a \in AppWrappers |-> NoEntry]]
    /\ queue = [c \in Controllers |-> Legacy]

ReconcilerTypeOK ==
    /\ store \in [AppWrappers -> Object]
    /\ view \in [Controllers -> [AppWrappers -> Object]]
    /\ cache \in [Controllers -> [AppWrappers -> CacheEntry]]
    /\ queue \in [Controllers -> SUBSET AppWrappers]
=============================================================================
