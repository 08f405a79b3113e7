# MCAD in TLA+

A TLA+ model of MCAD, the Multi-Cluster App Dispatcher of this repository: a
queuing controller for Kubernetes. A user wraps resources (a job, a service, ...)
in an *AppWrapper*. MCAD holds it in a queue until the cluster has room, creates
the wrapped resources, watches their pods, and tears the resources down to queue
the AppWrapper again or to fail it. Two controllers do this. They share nothing
but the AppWrapper objects in the API server, which each of them reads through an
informer that lags. Whether a controller may act on what it reads is the hard
question of this code, and the main one of this project. The code also has quotas
and a multi-cluster mode, in which the two controllers are in different clusters
(`src/README.md:21` says that they are not supported); both are modelled.

## 1. Inventory

Paths are relative to `src/internal/controller/` unless they say otherwise.

| Component | State | Operations |
|---|---|---|
| AppWrapper API (`src/api/v1beta1/appwrapper_types.go`) | status: state, step, restarts, transition count, Queued condition; finalizers; scheduling parameters | none of its own |
| Reconciler and cache (`appwrapper_controller.go`, `cache.go`) | per controller, the last status it wrote of each AppWrapper and when a conflict with the informer was first seen | `updateStatus`, `addCachedAW`, `getCachedAW`, `isStale`, `deleteCachedAW` |
| Dispatcher (`dispatcher.go`) | queuing `Decisions`, the `Events` channel that triggers dispatches | reconcile one AppWrapper; `*/*` requests: select and dispatch; finalization |
| Dispatch logic (`dispatch_logic.go`) | none | `buildQueue`, `assertPriorities`, `selectForDispatch`, `aggregateRequests` |
| Runner (`runner.go`) | none beyond the cache | accept, create, monitor, `requeueOrFail`, tear down, conversion of old finalizers |
| Resource manager (`resource_manager.go`) | the wrapped resources in the cluster | `createResources`, `deleteResources`, forced deletion, `countPods`, `isSuccessful` |
| Weights (`weights.go`) | none | vectors of resource quantities: add, subtract, maximum, fits; the quota variants |
| Quota tracker (`quota_tracker.go`) | unadmitted demand per namespace and quota | satisfies, allocate, active quotas |
| ClusterInfo controller (`clusterinfo_controller.go`) | the capacity in the `ClusterInfo` status | recompute from nodes and pods, once a minute |
| Multi-cluster mode (parts of `dispatcher.go`, `runner.go`, `dispatch_logic.go`) | KubeStellar `BindingPolicy` objects; an annotation that carries the status to the other cluster | bind, unbind, take over the status |
| Start-up (`src/cmd/main.go`), timings, metrics, generated code, manifests, tests | - | - |

**How they interact.** A status is a pair *state/step*. The Dispatcher alone leaves
the steps Idle, Dispatching and Deleted, the Runner alone Accepting, Creating,
Created and Deleting: the AppWrapper goes back and forth between them like a
baton. Each status update counts one transition. A controller compares the count
in its informer's copy with the count of the last status it wrote itself
(`isStale`) and does nothing while the informer is behind. Writes are conditional
on the version that was read. Deletion by a user takes two finalizers: the Runner
deletes the wrapped resources and removes its own, then the Dispatcher removes the
other. `*/*` requests come from new, requeued and finished AppWrappers.

A dispatch reads the capacity that the ClusterInfo controller publishes, and the
ResourceQuotas of namespaces. The capacity leaves out pods that have an AppWrapper:
the Dispatcher books those by the status of their AppWrapper. A quota counts pods
once they are admitted: the Dispatcher adds what AppWrappers in flight have been
promised and have no pods for yet.

In multi-cluster mode the Dispatcher runs in a hub. To hand an AppWrapper over it
stores the status in an annotation, creates a KubeStellar `BindingPolicy` and sets
the status to Accepting. KubeStellar copies the AppWrapper to a spoke, where the
Runner takes the status from the annotation, and reports the status of the copy
back to the hub while the `BindingPolicy` is there. Deleting the `BindingPolicy`
withdraws the copy.

**What is hard.** Stale informer copies; the two controllers, the user and the
cluster interleaving between any two API calls; API errors, and errors on updates
that were stored; the cache timeout; restarts between two calls, of a dispatch or
of a loop over resources; decisions made by one request and written by another;
deletion that needs both controllers; pods that never terminate; priorities,
capacities and quotas in the selection loop; pods and quotas from two informers;
nodes and pods that change while the capacity is computed from one list after the
other; three writes for one hand-over in the hub, two in the spoke; reports from
the spoke that outlive the run they are about; deletion in the hub that does not
wait for the spoke. `PROJECT.json` lists each at its line, under
"hazards".

**What makes each component correct.**
- Cache: two copies with the same count agree; the controller whose turn it is
  knows the latest status.
- Dispatcher and dispatch logic: what is in flight is booked; no overcommitment;
  no priority inversion; AppWrappers that fit are dispatched, the others told why.
- Runner and resource manager: resources exist only while the status says so and
  while the finalizer holds the AppWrapper, and are booked; restarts are limited;
  teardown and deletion end, and should leave no pods behind (section 3 shows how it may).
- Quotas: what is counted against a quota goes away again; pods in use and pods still
  owed should stay within it (section 3 shows how they may not).
- ClusterInfo: what is published becomes the capacity of the cluster, and is not
  replaced before its time.
- Multi-cluster: hub and spoke count the same transitions; resources in the spoke
  are guarded and booked; a dispatched AppWrapper starts, a restarted one is
  dispatched again, a deleted one leaves nothing in the spoke.
- Together: every step is a transition of `docs/state-diagram.md`.

## 2. Modules

| Module | Models |
|---|---|
| `AppWrapperReconciler` | the AppWrapper object, API server, informers and workqueues (external), `cache.go`, `updateStatus` |
| `ResourceManager` | wrapped resources and pods: `resource_manager.go`, and what the cluster does with them (external) |
| `Weights`, `DispatchLogic`, `QuotaTracker` | `weights.go`, and `dispatch_logic.go`, `quota_tracker.go` and `getUnadmittedPodsWeights` by what they compute |
| `Dispatcher` | `dispatcher.go`, extends `ResourceManager` and `DispatchLogic` |
| `Runner` | `runner.go`, extends `ResourceManager` |
| `Deployment` | both controllers and what the two ways to deploy them share: extends `Dispatcher` and `Runner` |
| `Mcad` | the two controllers together in one cluster, the users, restarts, fairness, and their properties: extends `Deployment` |
| `AppWrapperLifecycle` | the abstract specification: the lifecycle of AppWrappers with no controllers, informers or caches |
| `SelectForDispatch` | the loops of `buildQueue`, `assertPriorities` and `selectForDispatch` one iteration at a time, over several clusters and with quotas |
| `UnadmittedPods` | the loop of `getUnadmittedPodsWeights` one AppWrapper at a time |
| `Admission` | `Mcad` with ResourceQuotas: extends `Mcad` and `QuotaTracker` |
| `ClusterInfo` | `clusterinfo_controller.go` |
| `MultiCluster` | hub and spoke: extends `Deployment` |
| `MCMcad`, `MCSelectForDispatch`, `MCUnadmittedPods`, `MCAdmission`, `MCClusterInfo`, `MCMultiCluster` | constants for TLC |
| `ControllerProofs` | lemmas about the actions of either controller, for any deployment |
| `McadProofs` | theorems about `Mcad`: versions and the baton, statuses, resources, the capacity, and that it implements `AppWrapperLifecycle` |
| `MultiClusterProofs` | theorems about `MultiCluster` |
| `WeightsProofs` | lemmas about `Weights`, sums over sets of AppWrappers among them |
| `SelectForDispatchProofs` | theorems about `SelectForDispatch`: the loops compute what `DispatchLogic` states |
| `UnadmittedPodsProofs` | theorems about `UnadmittedPods` |
| `ClusterInfoProofs` | theorems about `ClusterInfo` |

**State.** `store[a]` is the AppWrapper object, reduced to existence, deletion
timestamp, finalizers, state, step, transition count, restarts and the reason of
the Queued condition. `view[c][a]` is the copy in the informer of controller `c`,
`cache[c][a]` its entry in `CachedAppWrappers`, `queue[c]` its workqueue. `res` and
`pods` are the wrapped resources and their pods, `podview[c]` the pods that the
informer of a controller in `LaggingPods` lists. `decisions` and `trigger` are
`Decisions` and the pending `*/*` request. A request that makes more than one API
call is several actions: `adding` and `todo` (Dispatcher) and `runner` are where
such a request is. Everything else, and a restart of that controller, may happen
in between.

**Actions.** One for each branch of the two `Reconcile` functions, with the guard
of that branch: `DMissing`, `DStale`, `DAwaitRunner`, `DFinalize`,
`DAddFinalizers` and `DQueueNew`, `DQueued`, `DHandOver`, `DRequeue`, `DFailed`,
`DNothing`, and `DSelect`, `DDispatch`, `DAbort` for `*/*`; `RMissing`, `RStale`,
`RForget`, `RConvert`, `RAccept`, `RCreate`, `RCreateItem`, `RCreated`,
`RCreateFailed`, `RSucceed`, `RUnhealthy`, `RHealthy`, `RDelete`, `RDeleteItem`,
`RDeleted`, `RDeleteAgain`, `RNothing`. The argument `r` of an action is how its
API call ends: "ok", "error" (nothing changed) or "lost" (stored, and the caller
sees an error). The constant `Faults` says what may go wrong in a run: "error" and
"lost" for these calls, "timeout" for informers that lag beyond
`cacheConflictTimeout`, "delete" and "list" for the two calls whose errors
`deleteResources` ignores.

**Pods.** A controller in `LaggingPods` lists pods from a copy that `PodSync` brings up
to date at any time, in the middle of a request, too; a controller that is not lists the
pods there are. `deleteResources` (`ListedPods`, `ForceDelete`), `countPods` and the
unadmitted demand all read that copy (`PodView`), and an event for the Runner comes with
it (`PodEvent`). Forced deletion deletes the listed pods by name, and with "delete" among
the faults any of them may survive (`Survivors`).

**Quotas (`Admission`).** The API server (external) admits a pod if the quota of
its namespace allows it. `Used` is what the quota counts, `used` the informer's copy
of it. A dispatch is two steps: `DAccount` lists AppWrappers and their pods and adds up
the unadmitted demand, for some order of the AppWrappers in the list;
`DSelectInQuota` lists AppWrappers again, reads the quotas and selects. The informers of
AppWrappers, pods and quotas go on in between, and the demand that was found is kept in
`demand`. There is at most one ResourceQuota per namespace, as the code assumes.

**ClusterInfo.** `node` and `pod` are the cluster (external), `info` the published
capacity and whether it has expired, `view` the informer's copy, `op` where the
controller is: `Start` lists the nodes, `AddNode` lists the pods of one node and
adds it up, `Publish` writes the status. Nodes and pods change in between.

**Multi-cluster.** `AppWrappers` holds the AppWrappers of the hub and their copies;
`ann`, `policy` and `seen` are annotations, `BindingPolicy` objects and the
informer's list of them. `HReconcile` is what the Dispatcher does as in one
cluster, and `HAnnotate`, `HBind`, `HBound`, `HUnbind`, `HUnbound` the calls that are
new; `RTakeOver`, `RGuard` and `RAccepted` are those of the Runner. KubeStellar is
external and modelled from what the code relies on: `Downsync` makes the copy,
`Report` writes its status to the hub, as long as the copy is not being removed and
the `BindingPolicy` is there, `Withdraw` deletes the copy, `PolicyGone` removes a
deleted `BindingPolicy` once the copy is deleted. `PolicyLag` says whether
the next dispatch may come before that, and with an informer that still lists it.
It may (`createBindingPolicy` never waits); where a run says FALSE, `spokeliveness`, that the
old one is gone by then is an assumption, and `stalepolicy` shows what happens without it.

**Abstractions.**
- Each controller has its own informer. That is how the code runs with `--mode`
  dispatcher and runner; in the unified process the two share one, which is the
  special case in which the copies are equal.
- The copy of an *AppWrapper* does not change during a request, but for the two lists of
  a dispatch with quotas. The reconciliation of one AppWrapper gets it once, at the
  start (`dispatcher.go:72`, `runner.go:64`), and what arrives later may as well
  arrive at the end. A dispatch lists AppWrappers twice (`dispatcher.go:374`,
  `dispatch_logic.go:169`), two steps in `Admission`; in `Mcad` and `MultiCluster` there
  are no quotas, and what the first list is for plays no role.
- Within such a step the code lists the pods of each AppWrapper
  (`dispatcher.go:391`, `dispatch_logic.go:107`) and a ResourceQuota per candidate
  (`dispatch_logic.go:213`), one after the other; the model reads all copies at once.
  Each copy lags on its own and by any amount, one object at a time, so to have read one
  earlier is to read a copy that is that much older. No object is read twice in a step:
  what counts of a quota is the copy met first (`quota_tracker.go:78`).
- `Requeue`, `RequeueAfter` and errors leave the request in the queue; how long the
  delay takes is left open. So are all comparisons with the clock (the pause after
  a restart, the requeuing time, the forced deletion time, the cache timeout).
- A failed update with a version conflict is an update of a copy that differs from
  the object. An update of the condition's message alone (not modelled) can cause
  one more conflict, with the effect of an error.
- Listing pods from the informer and the status write that depends on it are one step;
  the informer may be behind the cluster by any amount (`LaggingPods`).
- An AppWrapper of MCAD 2.2 (`Legacy`) is a queued one. The conversion is the same in
  any state (`runner.go:99`), but how 2.2 deployed an AppWrapper in flight is not in
  this repository.
- Parsing is whether an item parses; names, labels and templates are left out.
- Quantities are integers; the transition count does not overflow (int32).
- Listing AppWrappers and ClusterInfo objects from the informer does not fail.
- An item may have no pods (`Podless`), or be one that the API server may reject
  (`Invalid`).
- The capacity the Dispatcher reads is constant in `Mcad`, `Admission` and
  `MultiCluster`: how it changes is what `ClusterInfo` is about.
- An AppWrapper's cluster label does not change.
- `MaxNumRequeuings = 0`, no limit, is covered by the proofs; TLC's runs have a
  limit, which bounds restarts and with them the transition counts. No other bound
  is needed: the models are finite for each choice of constants.

## 3. Runs

| Run | Instance | Checks |
|---|---|---|
| `single` | one AppWrapper, two resources, one with pods and a completion status, one that may be rejected; forced deletion; errors, lost replies, cache timeouts; deletion; restarts of both controllers | `CacheSound`, `SelectedAreQueued`, `ResourcesTracked`, `ResourcesGuarded`, `DeployedBooked`, `RestartLimit` |
| `pair` | two AppWrappers for the capacity of one: a new one, and an unmonitored one of MCAD 2.2 that fails to parse; errors, Dispatcher restarts | `TypeOK`, `HandOff`, `ConditionTruthful`, `InFlightAccounted`, `NoOvercommit`, `ImplementsLifecycle` |
| `liveness` | one AppWrapper, forced deletion, errors, deletion, under fairness | `DeletionCompletes`, `TeardownCompletes`, `QueuedIsDispatched`, `ImplementsLifecycle` |
| `select` | every input with three AppWrappers on two clusters, two priorities, three requests over two resources, two capacities, quotas of requests or of limits | `ReservationsPropagate`, `LoopSelects`, `SelectedFit`, `NoPriorityInversion`, `SelectedWithinQuota` |
| `unadmitted` | every input with three AppWrappers in any order, with fewer, as many or more pods than they ask for | `NotOverstated`, `ExactWithoutSurplus` |
| `quotaliveness` | one AppWrapper that is restarted, its quota, an informer of it that lags, Dispatcher restarts, under fairness | `QueuedIsDispatched` |
| `podlist` | one AppWrapper, forced deletion, an informer of pods that lags, deletion, under fairness | `DeletionCompletes` |
| `capacity` | two nodes that become tainted and usable again, a pod of an AppWrapper and another that come, move and end; errors, lost replies, restarts, under fairness | `CapacityConverges`, `RefreshedOncePerTimeout` |
| `spoke` | one AppWrapper of the hub and its copy, restarts of both controllers, a `BindingPolicy` that takes its time | `SpokeGuarded`, `SpokeBooked`, `CountsAgree` |
| `spokeliveness` | the same with deletion in the hub, under fairness, if the old `BindingPolicy` is gone before the next dispatch | `SpokeGuarded`, `SpokeBooked`, `DispatchedIsAccepted`, `RestartedIsDispatched`, `SpokeCleanedUp` |

Deadlock is checked in all of them but `select` and `unadmitted`, whose algorithms
end: with the controllers, a retry is always pending or the AppWrapper may still
change.

*Why the bounds are enough.* One AppWrapper exercises every interleaving of the
two controllers, the user and the cluster, since AppWrappers meet only in the
capacity and the quotas; two with room for one is the smallest competition, and
makes dispatch stop in between. One restart goes around the whole cycle and leaves
stale copies of the first round for the second. Two resources are enough for a loop
that stops half way, and two nodes for a pod that moves behind or ahead of it. Three
AppWrappers and two levels in `select` have one selected before, one after and one
beside any other, one resource that a cluster may lack, and a quota that is spent
on the first cluster.

*What depends on what.*
- `HandOff`, `InFlightAccounted` and `NoOvercommit` hold with errors and restarts, and
  not with lost replies or cache timeouts: with "lost" among the faults of `pair`, an
  update that is stored and reported as failed is not cached, the next dispatch does
  not book the AppWrapper, and overcommits.
- `ImplementsLifecycle` is checked without lost replies: with them a late creation
  may happen while the status is already Deleting, which the lifecycle does not
  describe and the teardown cleans up (`single` allows it).
- `DeployedBooked` holds with lost replies and cache timeouts where
  `InFlightAccounted` does not: an AppWrapper may be dispatched and unbooked, but not
  once its first resource has been created. It is about resources, and not pods,
  which may outlive them (see below).
- `DeletionCompletes` is about AppWrappers of this version: with the AppWrapper of
  `liveness` among `Legacy`, one that is deleted before its finalizer is converted
  never goes away.
- `ExactWithoutSurplus` has its condition for a reason: the sum is clamped per
  namespace (`dispatcher.go:399`), so surplus pods of one AppWrapper hide the demand
  of others.
- `NoPriorityInversion` is about each cluster on its own: the quota is handed out
  cluster by cluster, and an AppWrapper of low priority for the first cluster comes
  before one of high priority for the second.
- The properties of `select` are about AppWrappers that are in the queue of one cluster:
  by their label, or because there is one ClusterInfo object (`OneQueueEach`; the
  deployment installs one,
  `src/deployment/mcad-controller/templates/clusterinfo.yaml`). The code does not check
  it: with two objects and no multi-cluster mode every AppWrapper is in both queues
  (`dispatch_logic.go:86`), may be selected twice, and dispatch gives up the rest of its
  cycle when it meets it again.

Two runs show where the program and what it says of itself part:

| Run | Shows |
|---|---|
| `deleteerror` | `deleteResources` takes a failed deletion for "not found": a resource outlives an AppWrapper reported deleted |
| `stalepolicy` | an AppWrapper that is restarted and dispatched while its old `BindingPolicy` is still listed gets no new one, and stays in Accepting for ever |

Two more were found with TLC, for which the project keeps no run; they are why no
property says that pods are gone, or that quotas are kept:
- With forced deletion, `deleteResources` takes the pods its informer lists for all there
  are (`resource_manager.go:212`; "no resources, no pods, deletion is complete", line
  217). A pod that is created just before its resource is deleted, and that the
  informer has not seen, outlives an AppWrapper reported Deleted, and may count for the
  next run, while nobody books it. The invariant `\A a \in ForceDeletion : store[a].step =
  "Deleted" => pods[a] = {}` is violated in `podlist` if the AppWrapper is monitored
  (`MinAvailable` 1), and so restarted. An error in listing pods ("list") has the same
  effect.
- A pod that one informer lists is subtracted from the unadmitted demand as "already
  accounted for in the used status of the resourceQuota" (`dispatcher.go:389`), but
  `Status.Used` comes from another informer, at another time (`dispatch_logic.go:213`).
  In `quotaliveness` with two AppWrappers the second is dispatched into the quota of
  the first while the copy of `Status.Used` does not show the first one's pod yet, and the
  pods of both do not fit.

Other disagreements met while modelling, which no run is about: `minAvailable: 0`
does not disable termination detection (`resource_manager.go:186`, against
`appwrapper_types.go:51`) nor monitoring (`runner.go:169`, against
`PORTING.md:169`); terminated pods are subtracted from the unadmitted demand although
the quota has released them (`dispatcher.go:388`); the capacity metric of a node is
the running total of the loop (`clusterinfo_controller.go:110`); the AppWrapper counts
are reset for each cluster (`dispatch_logic.go:127`); `docs/mc-state-diagram.md:58,60`
places the steps out of Deleting (`rd` to `rf`, `fd` to `ff`) in the Dispatcher, while the
Runner takes them (`runner.go:181`).

### Fairness

`FairSpec` of `Mcad` assumes, and the code justifies:
- weak fairness of each controller for each AppWrapper in its queue, of `*/*`
  requests, and of the loops over resources: one worker takes requests off a
  first-in first-out queue, and every delay ends. Fairness is of the calls that
  succeed, as an API that always fails stops everything;
- strong fairness of what ends a request (`DQueueNew`, `DDispatch`, `DAbort`,
  `RCreated`, `RCreateFailed`, `RDeleted`) and of forced deletion: errors send the
  request back to its start again and again, and calls that are retried for ever
  succeed once in a while;
- strong fairness of each informer (it can be delivered only between requests), and
  weak fairness of an informer of pods that lags and of the cluster's removal of deleted
  resources.

`Admission` adds strong fairness of the informer of quotas and of the second half of a
dispatch, and weak fairness of the first. `MultiCluster` assumes
the same of its controllers and informers, and strong fairness of KubeStellar for
each AppWrapper: its controllers retry, too. `ClusterInfo` assumes weak fairness of
its worker, its informer and its clock, and strong fairness of the update that
succeeds, for the same reasons.

Users need not act, controllers need not restart, pods need neither start, finish
nor terminate, nodes need not change.

## 4. Proofs

The theorems are about `Mcad!Spec`, `MultiCluster!Spec`,
`SelectForDispatch!Spec`, `UnadmittedPods!Spec` or `ClusterInfo!Spec`. They hold for every value of the constants
that meets the named assumptions on their types: any AppWrappers, resources, capacities,
priorities and limits, any restarts, any number of clusters and quotas in the selection.
What else a theorem assumes is part of its statement.

| Theorem | States | Assumes |
|---|---|---|
| `TypeCorrect` | `TypeOK` | - |
| `CacheIsSound` | `CacheSound` | - |
| `NoInternalError` | `SelectedAreQueued` | - |
| `BatonIsPassed` | `HandOff` | `Reliable` |
| `ResourcesAreBooked` | `InFlightAccounted` | `Reliable` |
| `RestartsAreBounded` | `RestartLimit` | - |
| `ConditionIsTruthful` | `ConditionTruthful` | - |
| `ResourcesAreTracked` | `ResourcesTracked` | no "delete" fault |
| `ResourcesAreGuarded` | `ResourcesGuarded` | no "delete" fault |
| `DeployedIsBooked` | `DeployedBooked` | no "delete" fault |
| `CapacityIsRespected` | `NoOvercommit` | `WellFormed`, `Reliable` |
| `LifecycleIsImplemented` | `ImplementsLifecycle` | `WellFormed`, `Reliable`, no "delete" fault |
| `LoopComputesSelection` | `LoopSelects` | `OneQueueEach` |
| `PrioritiesAreRespected` | `NoPriorityInversion` | `OneQueueEach` |
| `SelectionFits` | `SelectedFit` | `OneQueueEach`, `NonNegativeRequests` |
| `SelectionRespectsQuota` | `SelectedWithinQuota` | `OneQueueEach` |
| `ReservationsArePropagated` | `ReservationsPropagate` | `OneQueueEach` |
| `SelectionIsUnique` | at most one set is a selection (`IsSelection`) | - |
| `DemandIsNotOverstated` | `NotOverstated` | - |
| `DemandIsExact` | `ExactWithoutSurplus` | `NonNegativeAsks` |
| `CapacityIsRefreshedOncePerTimeout` | `RefreshedOncePerTimeout` | - |
| `MultiClusterTypeCorrect` | `MultiClusterTypeOK` | - |
| `MultiClusterInvariant` | hub and copy are in the same run, or the hub is past its end (`MInv`) | - |
| `CountsAlwaysAgree` | `CountsAgree` | - |
| `SpokesGuarded` | `SpokeGuarded` | no "delete" fault |
| `SpokesBooked` | `SpokeBooked` | no "delete" fault |

*The assumptions.* `Reliable`: no reply is lost and no informer lags beyond
`cacheConflictTimeout`; without it `HandOff` and what rests on it are false. "delete"
is an error that `deleteResources` ignores: run `deleteerror` shows what it leads to. `WellFormed`: there are finitely many AppWrappers, and requests
and replica counts are not negative. It is a real hypothesis: nothing in
`appwrapper_types.go` keeps a user from a negative replica count, and one would make
room for others. `NonNegativeRequests` and `NonNegativeAsks` are its counterparts
for the loops: with a negative ask, the clamp at zero in `getUnadmittedPodsWeights`
would hide demand of others even without surplus pods. The instances of all runs
satisfy them. `UnadmittedAssumption` says that the weights of *pods* are not negative,
which the API server ensures; `NotOverstated` needs it, as a negative quantity of a
resource that an AppWrapper does not ask for would be counted. The constants of
`SelectForDispatch` have to be finitely many AppWrappers with distinct ranks, integer
weights (`SelectAssumption`, which TLC evaluates). `OneQueueEach`: AppWrappers are assigned
to clusters by label, or there is one cluster (section 3). All theorems about `Mcad` hold
for any `LaggingPods`, and those about `MultiCluster` whether or not the Runner's informer of
pods lags. In `MultiCluster` an AppWrapper left over
from version 2.2 (`Legacy`) is one of the hub: a copy exists only once KubeStellar
has made it.

*Versions and the baton* (`McadProofs`). None of these invariants is inductive.
`IInv` adds to the types: `CopiesFollow` (each informer copy and each cache entry is
the object or an earlier version of it, and two versions with the same count are
equal: this is what makes the transition count a version), `StatusesValid` (a queued
AppWrapper is idle), `DispatcherBusy` and `RunnerBusy` (what a worker found at the
start of a request still holds when it calls the API server, although the actions in
between do not check it again), and `DispatcherSees` (an AppWrapper the Dispatcher has
not seen has not left Idle, one it has seen go is gone). `DispatcherMoves` and
`RunnerMoves` show that whatever a controller does with an AppWrapper is one of two
things (`Writes`): it leaves the status alone and refreshes its own cache entry, or it
makes one transition out of the very status it read, in a step of its own, on a copy
that is not stale, and caches the result. `NextMoves` extends this to all steps. Each
part of `IInv`, and `HandOff` itself, is then shown to be preserved by `Writes`, by the
informer and by a restart. The one interesting case of `HandOff`: the other controller
makes a transition. Then the step was the other's, while this one, knowing the latest
status, would have to see a step of its own; the two sets of steps are disjoint.

*Statuses* (`McadProofs`, second part). A write is accepted only on the version that was read, so
what a controller checked of a copy, however old, is true of the object it changes.
`Evolves` lists what may happen to an object, and every step does one of these things
to each object. The status is therefore always one of the diagram's, and
`ValidObject` (finalizers, condition and restarts fit the status) is inductive together
with `AddingValid` and `RunnerValid`, which say what the workers know in the middle of
a request.

*Resources* (`McadProofs`, third part). Here no version protects the Runner: it creates items
because a copy said Creating, whatever the object says by then. The copy may be old,
but not too old, and `RInv` says what it is still good for: `GuardKept` (a copy that
shows the finalizer and no deletion proves that the finalizer is still there),
`CreatingSeen` (a copy in Creating proves that the AppWrapper has not gone past
Deleting), `HandedOver` (what was handed over is not idle to the Dispatcher, by its
copy or its cache), `LoopPassed` (until the deletion loop finds an item, it leaves none
behind it) and `OccupiedValid` (the properties themselves).
The reason in each case: leaving these steps takes a transition by the Runner out of a
later status, hence a copy that shows it.

*Sums* (`WeightsProofs`). `Sum` over a finite set is a function defined by recursion
over subsets. What it computes is proved by a finite induction of our own, over the
set of all subsets with the property in question (`FiniteInduction`): `Sum` is the
unique function that adds up one by one in any order, grows with the set, and is
bounded by a sum of larger terms.

*Capacity* (`CapacityIsRespected`). A dispatch is decided by one action and carried out
by others, one AppWrapper at a time. `Planned` says that at any moment in between, what
each AppWrapper still to be dispatched fits in the capacity, of every resource it asks
for, together with what is held at its priority or above and what is to be dispatched
before it. It holds at the decision, since
everything that is held is booked (`InFlightAccounted`) and what the loop selects is
reserved, and lasts, since nobody else dispatches and what leaves makes room.

*The selection loops* (`SelectForDispatchProofs`). The loop over the queue keeps
running totals and never looks back, while `DispatchLogic` tests each candidate against
a set. `SelectInv` says what the totals stand for at every iteration: during
`assertPriorities` the levels from the current one up have what is above them added
(`Propagated`); `available[p]` is the capacity less what is booked and what is selected
on this cluster at p or above (`Remaining`); `allocated[n]` is what is selected in
namespace n on any cluster (`Allocations`); what is selected is in queue order
(`InQueueOrder`); and each candidate handled so far, for this cluster or an earlier one,
was decided on as if its test were made now against those before it (`RightlyDecided`).
The last part is the heart: it survives the next iterations because all that is selected
later comes later in the queue or for a later cluster (`PastKept`), and it is
established because what is selected on this cluster at the candidate's priority or
above is exactly what comes before it (`NextCandidate`, `LoopTests`), the queue being sorted by priority
first. `LoopComputesSelection` then only has to turn the running totals into the sums of
`DispatchLogic`: what earlier clusters took from a quota and what was selected before on
this one are subtracted one after the other there and together here (`QuotaTest`).
`SelectionIsUnique` makes this a full characterisation. The order in which the code's
`sort` puts equal elements plays no role, as there are none: the proof needs that ranks
are distinct, which is what the comparison of UIDs is for (`dispatch_logic.go:157`).

*Unadmitted demand* (`UnadmittedPodsProofs`). The loop clamps the running sum at zero
after each AppWrapper, the definition it is compared with clamps what each AppWrapper
lacks. `UnadmittedInv`: for each resource the sum so far is between zero and what is
lacking so far, and equal to it if there is no surplus. Both bounds are needed at every
turn: the lower one because pods of a resource that is not asked for are subtracted, too.

*Refinement* (`LifecycleIsImplemented`). An abstract step changes one AppWrapper.
`StepRefines`: every step of `Mcad` changes one object (a transition of the abstract
specification, by `Evolves`; `Dispatch` needs `Planned` besides) and then no resource
(`OneAtATime`), or no object and the resources of one AppWrapper, or nothing that
shows. `Deploy` needs that the Runner creates items only while the *object* is
in Creating, which with `Reliable` follows from the baton (`RunnerIsCurrent`);
`Undeploy`, that a resource is going away only in Deleting or after a deletion
(`TerminatingSeen`). The proof corrected the abstract specification: it used to ask
that all that is held after a dispatch fit the capacity, which is false when there are
several kinds of resource. An AppWrapper that asks for none of some kind is dispatched
even if AppWrappers of higher priority, which took no notice of lower ones, left less
than nothing of it. `Dispatch` now asks what the code asks, that the request fit in what
is left of what it asks for.

*ClusterInfo*. The controller decides on a copy and publishes much later. `CInv`: the
copy of the stored version tells whether it has expired, and a worker whose copy is
still the stored version, which its update needs, is about one that has.

*Hub and spoke* (`MultiClusterProofs`). One AppWrapper is two objects here, and what
the hub holds of it, the object, the informer's copy and the cache entry, are no longer
versions of one another in order: a late report may take the object back to a status
of the same run that the Dispatcher has gone past. Nor does the version of the hub's object
protect the copy. What ties the two together is the annotation: the copy counts its
transitions from the count `n` in it. `MInv` says of whatever the hub holds, while the
copy is there, that it is the status of the dispatch itself (`n` or `n + 1`,
`JustDispatched`), a status the copy has or had (`Reported`), or past the last status
of the copy (`PastRun`); a cache entry may also be older than the dispatch (`CopyRel`).
`HubOrder` says that the three agree where they count the same, and that only an object that
is back at Deleted may be behind the others; `SpokeOrder`, that in the spoke the informer
and the cache follow the copy. The critical moment is the next
copy: `Bound` says that an AppWrapper with a `BindingPolicy` and no copy in force still
has the annotation it was dispatched with, and `BindOK` that nothing is reported between
the annotation and the `BindingPolicy`. Each step is one of a few kinds: an edit that
leaves the status alone, a transition of the Dispatcher or of the Runner
(`HubTransition` and its counterpart), an annotation, a `BindingPolicy` made or deleted,
the Runner taking over, a report, a copy made or withdrawn. `CountsAlwaysAgree` is then a conjunct.
For the resources `GuardKept`, `CreatingSeen` and `LoopPassed` say the same as in one
cluster, and `ResourcesOK` that a copy with resources is there, past Accepting and not
Deleted. A hub that is past the run would need a copy at Deleted, hence without
resources: so it is in the run, and books the request or has seen it succeed
(`SpokesBooked`). All of this holds with errors, lost replies and cache timeouts, which
the runs leave out.

*Only model-checked*: the liveness properties, as fairness is beyond the proof system.
The lifecycle under lost replies is not claimed (see section 3).

## 5. Not modelled

Metrics, the transition log, wording of messages, flags, leader election,
generated code, manifests and tests: nothing in the control flow depends on them.
The ClusterInfo object is not created and deleted while the controller runs, and
the cluster label of an AppWrapper is not changed after it was dispatched.

## 6. Plan

Done: the core in one cluster, its abstract specification, the selection loops with
several clusters and quotas, quota admission, the ClusterInfo controller,
multi-cluster mode, informers of pods that lag; proofs of all safety properties of
`Mcad` that hold, of its refinement of `AppWrapperLifecycle`, of the selection loops, of
the unadmitted demand, of `ClusterInfo`, and of `MultiCluster`. What is left:
several ClusterInfo objects without multi-cluster mode, and AppWrappers of
MCAD 2.2 that are in flight at the upgrade.

## 7. Running the checks

    tlc -config single.cfg MCMcad              # pair, liveness, podlist, deleteerror
    tlc -config select.cfg MCSelectForDispatch
    tlc -config unadmitted.cfg MCUnadmittedPods
    tlc -config quotaliveness.cfg MCAdmission
    tlc -config capacity.cfg MCClusterInfo
    tlc -config spoke.cfg MCMultiCluster       # spokeliveness, stalepolicy
    tlapm McadProofs.tla                       # ControllerProofs, WeightsProofs,
                                               # MultiClusterProofs,
                                               # SelectForDispatchProofs,
                                               # UnadmittedPodsProofs,
                                               # ClusterInfoProofs
