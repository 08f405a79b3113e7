-------------------------- MODULE ResourceManager --------------------------
(***************************************************************************)
(* The wrapped resources of the AppWrappers and their pods: what           *)
(* resource_manager.go creates, counts and deletes, and what the cluster   *)
(* (external) does with them in the meantime.                              *)
(***************************************************************************)
EXTENDS AppWrapperReconciler, Integers, FiniteSets

CONSTANTS
    NItems,             \* number of GenericItems of every AppWrapper
    MinAvailable,       \* MinAvailable[a]: Spec.Scheduling.MinAvailable
    CompletionStatus,   \* CompletionStatus[a]: the items with a completionstatus
    Unparsable,         \* AppWrappers with an item parseResource rejects
    Invalid,            \* Invalid[a]: the items the API server may reject
    Podless,            \* the items that have no pods, such as services
    ForceDeletion,      \* AppWrappers with ForceDeletionTimeInSeconds > 0
    LaggingPods         \* the controllers whose informer of pods lags

ASSUME ResourceAssumption ==
    /\ NItems \in Nat
    /\ MinAvailable \in [AppWrappers -> Int]
    /\ CompletionStatus \in [AppWrappers -> SUBSET (1 .. NItems)]
    /\ Unparsable \subseteq AppWrappers
    /\ Invalid \in [AppWrappers -> SUBSET (1 .. NItems)]
    /\ Podless \subseteq 1 .. NItems
    /\ ForceDeletion \subseteq AppWrappers
    /\ LaggingPods \subseteq Controllers

VARIABLES
    res,        \* res[a][i]: item i of AppWrapper a in the cluster
    pods,       \* pods[a]: the pods that carry the name and namespace of a
    podview     \* podview[c][a]: those the informer of a lagging c lists

resourceVars == <<res, pods, podview>>

Items == 1 .. NItems

\* "complete": the item has a condition that matches its completionstatus.
ResourceStates == {"none", "live", "complete", "terminating"}

\* "Scheduled" is the Pending of a pod that has been assigned to a node.
Phases == {"Pending", "Scheduled", "Running", "Succeeded", "Failed"}

\* run: how many times the AppWrapper had been restarted when the pod was made.
\* A pod is named for its item and run.
Pod == [item : Items, run : Nat, phase : Phases, del : BOOLEAN]

SameName(p, q) == p.item = q.item /\ p.run = q.run

Exists(a, i) == res[a][i] # "none"

\* The pods of a that the informer of controller c lists.
PodView(c, a) == IF c \in LaggingPods THEN podview[c][a] ELSE pods[a]

-----------------------------------------------------------------------------
(* createResources and deleteResources, one item at a time.                *)

\* How creating item i ends, an error of the server included: "ok" also if it
\* exists already.  The error is fatal if the server takes the item for invalid
\* or does not know its kind.
CreateOutcomes(a, i) ==
    Outcomes \cup (IF i \in Invalid[a] THEN {"fatal"} ELSE {})

CreateItem(a, i, r) ==
    res' = IF ~Exists(a, i) /\ r \in {"ok", "lost"}
           THEN [res EXCEPT ![a][i] = "live"] ELSE res

\* How deleting item i ends: "ok" if the item was found and the call went
\* through, "notfound", or an error, whether or not the server deleted the item.
DeleteOutcomes(a, i) ==
    IF ~Exists(a, i) THEN {"notfound"}
    ELSE {"ok"} \cup (IF "delete" \in Faults THEN {"error", "lost"} ELSE {})

DeleteItem(a, i, r) ==
    res' = IF r \in {"ok", "lost"}
           THEN [res EXCEPT ![a][i] = "terminating"] ELSE res

\* The pods deleteResources lists, which are those of the informer, and none if
\* the call fails, which is ignored.
ListedPods(a) ==
    {PodView("Runner", a)} \cup (IF "list" \in Faults THEN {{}} ELSE {})

\* Mutant: items found by the loop do not count as remaining.
DeletionRequested(a, remaining, listed) ==
    a \in ForceDeletion => listed = {}

\* deleteResources returns true after a loop that found this many items.
DeletionComplete(a, remaining, listed) ==
    remaining = 0 /\ (a \in ForceDeletion => listed = {})

\* Which members of S may survive a loop that deletes each and ignores errors.
Survivors(S) == IF "delete" \in Faults THEN SUBSET S ELSE {{}}

\* The second half of forced deletion (on its own, a mutant: pods are spared).
ForceDeleteItems(a, listed) ==
    /\ \E kept \in Survivors(Items) :
          res' = [res EXCEPT ![a] =
                     [i \in Items |-> IF Exists(a, i) /\ i \notin kept
                                      THEN "terminating" ELSE res[a][i]]]
    /\ UNCHANGED <<pods, podview>>

\* The forced deletion once ForceDeletionTimeInSeconds is over: of the pods if
\* any are listed (by name and with no grace period), else of the wrapped
\* resources.
ForceDelete(a, listed) ==
    IF listed # {}
    THEN /\ \E kept \in Survivors(listed) :
               pods' = [pods EXCEPT ![a] =
                          {p \in @ : ~ \E q \in listed \ kept : SameName(p, q)}]
         /\ UNCHANGED <<res, podview>>
    ELSE ForceDeleteItems(a, listed)

-----------------------------------------------------------------------------
(* countPods and isSuccessful                                              *)

SucceededPods(a) == {p \in PodView("Runner", a) : p.phase = "Succeeded"}

RunningPods(a) == {p \in PodView("Runner", a) : p.phase = "Running" /\ ~p.del}

OtherPods(a) == PodView("Runner", a) \ (SucceededPods(a) \cup RunningPods(a))

PodsDone(a) ==
    RunningPods(a) = {} /\ OtherPods(a) = {} /\ SucceededPods(a) # {}

\* The items whose completionstatus is not matched.
Unmatched(a) == {i \in CompletionStatus[a] : res[a][i] # "complete"}

\* isSuccessful returns an error: the first such item cannot be fetched.
CompletionError(a) ==
    /\ PodsDone(a)
    /\ \E i \in Unmatched(a) :
          ~Exists(a, i) /\ \A j \in Unmatched(a) : i <= j

\* isSuccessful returns true.
IsSuccessful(a) ==
    /\ PodsDone(a)
    /\ Unmatched(a) = {}
    /\ \/ CompletionStatus[a] # {}
       \/ /\ MinAvailable[a] >= 0
          /\ Cardinality(SucceededPods(a)) >= MinAvailable[a]

-----------------------------------------------------------------------------
(* The cluster (external): controllers, scheduler, kubelets and the        *)
(* garbage collector act on the wrapped resources and pods, and informers  *)
(* list pods.                                                              *)

\* The last finalizer of a deleted item is gone.
ItemGone(a, i) ==
    /\ res[a][i] = "terminating"
    /\ res' = [res EXCEPT ![a][i] = "none"]
    /\ UNCHANGED <<pods, podview, reconcilerVars>>

\* The item reports completion; for a job, jobMapFunc enqueues its AppWrapper.
ItemComplete(a, i) ==
    /\ i \in CompletionStatus[a]
    /\ res[a][i] = "live"
    /\ \E p \in pods[a] : p.item = i /\ p.phase = "Succeeded"
    /\ res' = [res EXCEPT ![a][i] = "complete"]
    /\ Reconciled("Runner", a, TRUE)
    /\ UNCHANGED <<pods, podview, store, view, cache>>

\* The controller of item i creates its pod.
PodCreated(a, i) ==
    /\ i \notin Podless
    /\ res[a][i] = "live"
    /\ ~ \E p \in pods[a] : p.item = i /\ p.run = store[a].restarts
    /\ pods' = [pods EXCEPT ![a] = @ \cup
                   {[item |-> i, run |-> store[a].restarts,
                     phase |-> "Pending", del |-> FALSE]}]
    /\ UNCHANGED <<res, podview, reconcilerVars>>

\* podMapFunc: an event in the Runner's informer about a pod that succeeded
\* enqueues its AppWrapper.
PodEvent(a, changed) ==
    IF \E p \in changed : p.phase = "Succeeded" THEN Reconciled("Runner", a, TRUE)
    ELSE UNCHANGED queue

\* A pod changes phase.
PodPhase(a, p, phase) ==
    /\ p \in pods[a]
    /\ ~p.del
    /\ \/ p.phase = "Pending" /\ phase = "Scheduled"
       \/ p.phase = "Scheduled" /\ phase \in {"Running", "Failed"}
       \/ p.phase = "Running" /\ phase \in {"Succeeded", "Failed"}
    /\ pods' = [pods EXCEPT ![a] = (@ \ {p}) \cup {[p EXCEPT !.phase = phase]}]
    /\ IF "Runner" \in LaggingPods THEN UNCHANGED queue
       ELSE PodEvent(a, {[p EXCEPT !.phase = phase]})
    /\ UNCHANGED <<res, podview, store, view, cache>>

\* A pod is evicted, or collected because its item is being or has been deleted.
PodEvicted(a, p) ==
    /\ p \in pods[a]
    /\ ~p.del
    /\ pods' = [pods EXCEPT ![a] = (@ \ {p}) \cup {[p EXCEPT !.del = TRUE]}]
    /\ UNCHANGED <<res, podview, reconcilerVars>>

PodGone(a, p) ==
    /\ p \in pods[a]
    /\ p.del
    /\ pods' = [pods EXCEPT ![a] = @ \ {p}]
    /\ UNCHANGED <<res, podview, reconcilerVars>>

\* The informer of c catches up on the pods of a, at any time: pods are listed in
\* the middle and at the end of requests, too.
PodSync(c, a) ==
    /\ c \in LaggingPods
    /\ podview[c][a] # pods[a]
    /\ podview' = [podview EXCEPT ![c][a] = pods[a]]
    /\ IF c = "Runner"
       THEN PodEvent(a, (pods[a] \ podview[c][a]) \cup (podview[c][a] \ pods[a]))
       ELSE UNCHANGED queue
    /\ UNCHANGED <<res, pods, store, view, cache>>

\* The informer of c lists the pods of all AppWrappers afresh.
PodRelist(c) ==
    /\ podview' = IF c \in LaggingPods THEN [podview EXCEPT ![c] = pods] ELSE podview
    /\ UNCHANGED <<res, pods>>

Cluster(a) ==
    \/ \E i \in Items : ItemGone(a, i) \/ ItemComplete(a, i) \/ PodCreated(a, i)
    \/ \E p \in pods[a] :
          \/ \E phase \in Phases : PodPhase(a, p, phase)
          \/ PodEvicted(a, p)
          \/ PodGone(a, p)
    \/ \E c \in Controllers : PodSync(c, a)

ResourceInit ==
    /\ res = [a \in AppWrappers |-> [i \in Items |-> "none"]]
    /\ pods = [a \in AppWrappers |-> {}]
    /\ podview = [c \in Controllers |-> pods]

ResourceTypeOK ==
    /\ res \in [AppWrappers -> [Items -> ResourceStates]]
    /\ pods \in [AppWrappers -> SUBSET Pod]
    /\ podview \in [Controllers -> [AppWrappers -> SUBSET Pod]]
=============================================================================
