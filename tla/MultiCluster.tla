---------------------------- MODULE MultiCluster ----------------------------
(***************************************************************************)
(* MCAD in multi-cluster mode.  The Dispatcher works on the AppWrappers of *)
(* the hub.  For an AppWrapper it dispatches, it stores the status in an   *)
(* annotation and creates a BindingPolicy; KubeStellar (external, modelled *)
(* from what MCAD relies on) then copies the AppWrapper, without status,   *)
(* to a spoke cluster, reports the status of the copy back to the hub      *)
(* while the BindingPolicy is there, and removes the copy afterwards.  The *)
(* Runner works on the copies.  A copy that is made again has a new UID:   *)
(* nobody has a cache entry for it.                                        *)
(***************************************************************************)
EXTENDS Deployment

CONSTANTS
    Hubs,           \* the AppWrappers in the hub; the others are copies
    Copy,           \* Copy[h]: the copy of h in a spoke cluster
    PolicyLag       \* an AppWrapper may be dispatched again while the old
                    \* BindingPolicy goes away, and its informer may lag

ASSUME MultiClusterAssumption ==
    /\ MultiClusterMode
    /\ Deletable \subseteq Hubs /\ Legacy \subseteq Hubs
    /\ Hubs \subseteq AppWrappers
    /\ Copy \in [Hubs -> AppWrappers \ Hubs]
    /\ \A g, h \in Hubs : Copy[g] = Copy[h] => g = h
    /\ PolicyLag \in BOOLEAN
    /\ LaggingPods \subseteq {R}

VARIABLES
    ann,        \* ann[a]: the status in the annotation of a, if it has one
    policy,     \* policy[h]: the BindingPolicy of h in the hub
    seen,       \* the AppWrappers whose BindingPolicy the informer lists
    hub,        \* where the Dispatcher is in the request for hub.aw
    accepting   \* the copy that has the runner finalizer, not its status

bindingVars == <<ann, policy, seen>>

spokeVars == <<resourceVars, runner, accepting>>

vars == <<reconcilerVars, resourceVars, dispatcherVars, runner, bindingVars,
          hub, accepting>>

Spokes == {Copy[h] : h \in Hubs}

NoStatus == [state |-> "Empty", step |-> "Idle", tc |-> 0, restarts |-> 0,
             cond |-> "none"]

Status(o) == [state |-> o.state, step |-> o.step, tc |-> o.tc,
              restarts |-> o.restarts, cond |-> o.cond]

\* Mutant: the transition count is not part of what is serialized.
WithUncountedStatus(o, s) ==
    [o EXCEPT !.state = s.state, !.step = s.step, !.restarts = s.restarts,
              !.cond = s.cond]

WithStatus(o, s) ==
    [o EXCEPT !.state = s.state, !.step = s.step, !.tc = s.tc,
              !.restarts = s.restarts, !.cond = s.cond]

HubIdle == [op |-> "idle", aw |-> NoAppWrapper]

\* The informer lists the BindingPolicy of a.
PolicyListed(a) == IF PolicyLag THEN a \in seen ELSE policy[a] # "none"

-----------------------------------------------------------------------------
(* The Dispatcher.  Its requests for a start and end as in single-cluster  *)
(* mode; the calls in between are steps of their own.                      *)

\* A call failed: the request is retried.
HFailed(a) ==
    /\ hub' = HubIdle
    /\ cache' = [cache EXCEPT ![D][a] = FreshEntry(D, a)]
    /\ UNCHANGED <<view, queue>>

\* Mutant: the status the AppWrapper is about to have is serialized.
PickledAhead(o) == Status(Transition(o, "Running", "Accepting"))

Pickled(o) == Status(o)

\* "Serialize current status to an annotation so it can be mirrored in the
\* execution cluster"
HAnnotate(a, r) ==
    LET read == DView(a) IN
    /\ hub = HubIdle
    /\ DReconciling(a)
    /\ DState(a, "Running", "Dispatching")
    /\ ann' = IF Accepted(a, read, r) THEN [ann EXCEPT ![a] = Pickled(read)] ELSE ann
    /\ IF Succeeds(a, read, r)
       THEN hub' = [op |-> "bind", aw |-> a] /\ UNCHANGED <<view, cache, queue>>
       ELSE HFailed(a)
    /\ UNCHANGED <<store, policy, seen>>

\* createBindingPolicy: nothing to do if the informer lists one or if the server
\* has one ("AlreadyExists"), ...
HBind(r) ==
    LET a == hub.aw IN
    /\ hub.op = "bind"
    /\ PolicyLag \/ policy[a] # "terminating"
    /\ policy' = IF ~PolicyListed(a) /\ policy[a] = "none" /\ r \in {"ok", "lost"}
                 THEN [policy EXCEPT ![a] = "live"] ELSE policy
    /\ IF PolicyListed(a) \/ r = "ok"
       THEN hub' = [hub EXCEPT !.op = "bound"] /\ UNCHANGED <<view, cache, queue>>
       ELSE HFailed(a)
    /\ UNCHANGED <<store, ann, seen>>

\* ... then hand the AppWrapper over.
HBound(r) ==
    /\ hub.op = "bound"
    /\ DHandOver(hub.aw, r)
    /\ hub' = HubIdle
    /\ UNCHANGED bindingVars

\* Mutant: the BindingPolicy stays.
PolicyKept(a, r) == policy

\* The BindingPolicies once that of a, which exists, is deleted.
PolicyDeleted(a, r) ==
    IF r = "error" THEN policy ELSE [policy EXCEPT ![a] = "terminating"]

\* deleteBindingPolicy, of the one the informer lists, for an AppWrapper that is
\* deleted, restarted or has failed.  Deleting one that is gone is an error here,
\* retried until the informer knows, ...
HUnbind(a, r) ==
    LET found == PolicyListed(a)
        gone  == policy[a] = "none"
    IN  /\ hub = HubIdle
        /\ DReconciling(a)
        /\ \/ DView(a).del
           \/ DState(a, "Running", "Deleted")
           \/ DState(a, "Failed", "Deleted")
        /\ policy' = IF found /\ ~gone THEN PolicyDeleted(a, r) ELSE policy
        /\ IF found => ~gone /\ r = "ok"
           THEN hub' = [op |-> "unbound", aw |-> a] /\ UNCHANGED <<view, cache, queue>>
           ELSE HFailed(a)
        /\ UNCHANGED <<store, ann, seen>>

\* ... then remove the finalizer, queue the AppWrapper again or give it up.
HUnbound(r) ==
    /\ hub.op = "unbound"
    /\ DFinalize(hub.aw, r) \/ DRequeue(hub.aw, r) \/ DFailed(hub.aw, r)
    /\ hub' = HubIdle
    /\ UNCHANGED bindingVars

\* The requests for a that are as in single-cluster mode.
HReconcile(a, r) ==
    /\ hub = HubIdle
    /\ DMissing(a) \/ DStale(a) \/ DAddFinalizers(a, r) \/ DQueued(a, r) \/ DNothing(a)
    /\ UNCHANGED <<hub, bindingVars>>

HDispatch(r) ==
    /\ DQueueNew(r) \/ DDispatch(r) \/ DAbort
    /\ UNCHANGED <<hub, bindingVars>>

HSelect(paused) ==
    /\ hub = HubIdle
    /\ DSelect(paused, Capacity, NoQuota)
    /\ UNCHANGED <<hub, bindingVars>>

HBinding(a, r) ==
    /\ HAnnotate(a, r) \/ HUnbind(a, r)
    /\ UNCHANGED dispatcherVars

HFollowUp(r) ==
    \/ HBind(r) /\ UNCHANGED dispatcherVars
    \/ HBound(r)
    \/ HUnbound(r)

OnlyHub == UNCHANGED spokeVars

HubStep ==
    /\ \/ \E r \in Outcomes :
             \/ \E a \in Hubs : HReconcile(a, r) \/ HBinding(a, r)
             \/ HDispatch(r)
             \/ HFollowUp(r)
       \/ \E paused \in SUBSET Requeued : HSelect(paused)
    /\ OnlyHub

-----------------------------------------------------------------------------
(* The Runner.                                                             *)

\* A copy without status: take over the one in the annotation, "serialized by
\* dispatcher in Running.Dispatching", and accept the AppWrapper.
RTakeOver(a, r) ==
    LET read == RView(a)
        told == ann[a].state # "Empty"
        ok   == told => ann[a].state = "Running" /\ ann[a].step = "Dispatching"
        o    == IF told THEN WithStatus(read, ann[a]) ELSE read
    IN  /\ RReconciling(a)
        /\ RState(a, "Empty", "Idle")
        /\ IF ok THEN UpdateStatus(R, a, read, o, "Running", "Accepting", r)
           ELSE store' = store /\ cache' = [cache EXCEPT ![R][a] = FreshEntry(R, a)]
        /\ Reconciled(R, a, ~(ok /\ Succeeds(a, read, r)))
        /\ UNCHANGED <<view, resourceVars, runner, accepting>>

\* Mutant: the runner finalizer is forgotten.
Unguarded(o) == o

Guarded(o) == [o EXCEPT !.fin = @ \cup {"runner"}]

\* "add runner finalizer to this copy of the object", ...
RGuard(a, r) ==
    LET read == RView(a)
        ok   == Guarded(read) = read \/ Succeeds(a, read, r)
    IN  /\ RReconciling(a)
        /\ RState(a, "Running", "Accepting")
        /\ IF Guarded(read) # read THEN Update(a, read, Guarded(read), r)
           ELSE UNCHANGED store
        /\ cache' = [cache EXCEPT ![R][a] = FreshEntry(R, a)]
        /\ accepting' = IF ok THEN a ELSE NoAppWrapper
        /\ Reconciled(R, a, ~ok)
        /\ UNCHANGED <<view, resourceVars, runner>>

\* ... then start to create resources.
RAccepted(r) ==
    LET a    == accepting
        read == Guarded(RView(a))
    IN  /\ accepting # NoAppWrapper
        /\ UpdateStatus(R, a, read, read, "Running", "Creating", r)
        /\ Reconciled(R, a, ~Succeeds(a, read, r))
        /\ accepting' = NoAppWrapper
        /\ UNCHANGED <<view, resourceVars, runner>>

\* The requests for a that are as in single-cluster mode.
RReconciles(a, r) ==
    /\ accepting = NoAppWrapper
    /\ \/ RMissing(a)
       \/ RStale(a)
       \/ RForget(a)
       \/ RCreate(a)
       \/ RSucceed(a, r)
       \/ RUnhealthy(a, r)
       \/ RHealthy(a)
       \/ RDelete(a)
       \/ RNothing(a) /\ RView(a).state # "Empty"
    /\ UNCHANGED accepting

RAccepting(a, r) ==
    /\ accepting = NoAppWrapper
    /\ RTakeOver(a, r) \/ RGuard(a, r)

RFollowUp(r) ==
    \/ RAccepted(r)
    \/ /\ RCreated(r) \/ RCreateFailed(r) \/ RDeleted(r)
       /\ UNCHANGED accepting

RItem == (RCreateItem \/ RDeleteItem) /\ UNCHANGED accepting

RAgain(force) == RDeleteAgain(force) /\ UNCHANGED accepting

OnlySpoke == UNCHANGED <<dispatcherVars, hub, bindingVars>>

SpokeStep ==
    /\ \/ \E r \in Outcomes :
             \/ \E a \in Spokes : RReconciles(a, r) \/ RAccepting(a, r)
             \/ RFollowUp(r)
       \/ RItem
       \/ \E force \in BOOLEAN : RAgain(force)
    /\ OnlySpoke

-----------------------------------------------------------------------------
(* KubeStellar, the users, the informers and the cluster (external).       *)

\* Copy an AppWrapper with a BindingPolicy to the spoke, once an earlier copy is
\* gone and its removal has been noticed there.
Downsync(h) ==
    LET s == Copy[h] IN
    /\ policy[h] = "live"
    /\ store[h].ex = "live" /\ ~store[h].del
    /\ store[s].ex # "live" /\ view[R][s] = store[s]
    /\ store' = [store EXCEPT ![s] = [NewObject EXCEPT !.ex = "live"]]
    /\ ann' = [ann EXCEPT ![s] = ann[h]]
    /\ cache' = [cache EXCEPT ![R][s] = NoEntry]
    /\ UNCHANGED <<view, queue, policy, seen>>

\* Report the status of the copy, unless that one is being removed: a report from
\* before a restart would take the AppWrapper back to the state it had then.
Report(h) ==
    /\ policy[h] = "live"
    /\ store[h].ex = "live"
    /\ store[Copy[h]].ex = "live" /\ ~store[Copy[h]].del
    /\ store[Copy[h]].state # "Empty"
    /\ Status(store[h]) # Status(store[Copy[h]])
    /\ store' = [store EXCEPT ![h] = WithStatus(@, Status(store[Copy[h]]))]
    /\ UNCHANGED <<view, queue, cache, bindingVars>>

\* Delete the copy when the BindingPolicy or the AppWrapper is deleted.
Withdraw(h) ==
    /\ policy[h] # "live" \/ store[h].ex # "live" \/ store[h].del
    /\ Delete(Copy[h])
    /\ UNCHANGED bindingVars

\* A deleted BindingPolicy is kept until the copy is deleted too.
PolicyGone(h) ==
    /\ policy[h] = "terminating"
    /\ store[Copy[h]].ex = "live" => store[Copy[h]].del
    /\ policy' = [policy EXCEPT ![h] = "none"]
    /\ UNCHANGED <<reconcilerVars, ann, seen>>

PolicySync(h) ==
    /\ PolicyLag
    /\ hub = HubIdle
    /\ seen' = IF policy[h] = "none" THEN seen \ {h} ELSE seen \cup {h}
    /\ seen' # seen
    /\ UNCHANGED <<reconcilerVars, ann, policy>>

KubeStellar(h) ==
    /\ Downsync(h) \/ Report(h) \/ Withdraw(h) \/ PolicyGone(h) \/ PolicySync(h)
    /\ UNCHANGED <<dispatcherVars, hub, spokeVars>>

UserStep ==
    /\ (\E h \in Hubs : Create(h)) \/ (\E h \in Deletable : Delete(h))
    /\ UNCHANGED <<dispatcherVars, hub, bindingVars, spokeVars>>

\* The Dispatcher's informer is one of the hub, the Runner's one of the spoke.
Informer(c, a) ==
    /\ IF c = D THEN a \in Hubs /\ DispatcherIdle /\ hub = HubIdle
       ELSE a \in Spokes /\ runner = Idle /\ accepting = NoAppWrapper
    /\ Sync(c, a)
    /\ UNCHANGED <<dispatcherVars, hub, bindingVars, spokeVars>>

SpokeCluster(s) ==
    /\ Cluster(s)
    /\ UNCHANGED <<dispatcherVars, hub, bindingVars, runner, accepting>>

\* A process starts again and lists the AppWrappers of its cluster.
RestartIn(c, mine) ==
    /\ view' = [view EXCEPT ![c] = [a \in AppWrappers |->
                                      IF a \in mine THEN store[a] ELSE @[a]]]
    /\ cache' = [cache EXCEPT ![c] = [a \in AppWrappers |-> NoEntry]]
    /\ queue' = [queue EXCEPT ![c] = {a \in mine : store[a].ex = "live"}]
    /\ UNCHANGED store

HubRestart ==
    /\ RestartIn(D, Hubs)
    /\ decisions' = [a \in AppWrappers |-> "none"]
    /\ todo' = {} /\ adding' = NoAppWrapper /\ trigger' = TRUE
    /\ hub' = HubIdle
    /\ seen' = {h \in Hubs : policy[h] # "none"}
    /\ UNCHANGED <<ann, policy, spokeVars>>

SpokeRestart ==
    /\ RestartIn(R, Spokes)
    /\ runner' = Idle /\ accepting' = NoAppWrapper
    /\ PodRelist(R)
    /\ UNCHANGED <<dispatcherVars, hub, bindingVars>>

-----------------------------------------------------------------------------

Init ==
    /\ ReconcilerInit
    /\ ResourceInit
    /\ DispatcherInit
    /\ RunnerInit
    /\ ann = [a \in AppWrappers |-> NoStatus]
    /\ policy = [h \in Hubs |-> "none"]
    /\ seen = {}
    /\ hub = HubIdle
    /\ accepting = NoAppWrapper

Next ==
    \/ UserStep
    \/ HubStep
    \/ SpokeStep
    \/ \E h \in Hubs : KubeStellar(h)
    \/ \E c \in Controllers, a \in AppWrappers : Informer(c, a)
    \/ \E s \in Spokes : SpokeCluster(s)
    \/ D \in Restartable /\ HubRestart
    \/ R \in Restartable /\ SpokeRestart

Spec == Init /\ [][Next]_vars

-----------------------------------------------------------------------------

StatusType ==
    [state : States, step : Steps, tc : Nat, restarts : Nat, cond : Reasons]

MultiClusterTypeOK ==
    /\ TypeOK
    /\ ann \in [AppWrappers -> StatusType]
    /\ policy \in [Hubs -> {"none", "live", "terminating"}]
    /\ seen \subseteq Hubs
    /\ hub \in [op : {"idle", "bind", "bound", "unbound"},
               aw : Hubs \cup {NoAppWrapper}]
    /\ hub.aw = NoAppWrapper <=> hub.op = "idle"
    /\ accepting \in Spokes \cup {NoAppWrapper}

-----------------------------------------------------------------------------
(* Safety.                                                                 *)

\* The runner finalizer keeps the copy as long as it has resources, although it is
\* the hub that decides when the copy goes.
SpokeGuarded ==
    \A s \in Spokes, i \in Items :
        Exists(s, i) => store[s].ex = "live" /\ "runner" \in store[s].fin

\* The resources in a spoke are those of the current run, and the Dispatcher has
\* the AppWrapper for one that holds resources: it is not queued again before
\* they are gone, whatever is restarted, retried or reported late.
SpokeBooked ==
    \A h \in Hubs : \A i \in Items :
        Exists(Copy[h], i) /\ store[h].ex = "live" =>
            /\ store[h].restarts = store[Copy[h]].restarts
            /\ h \in InFlight \/ store[h].state = "Succeeded"

\* Two controllers count the transitions of one AppWrapper, each in its own copy:
\* the Runner goes on from the count in the annotation, so isStale never finds
\* "something wrong with our cache" (cache.go:97) in either cluster.
CountsAgree ==
    /\ \A h \in Hubs : ~CacheConflict(D, h)
    /\ \A s \in Spokes : ~CacheConflict(R, s)

-----------------------------------------------------------------------------
(* Liveness.  As for a single cluster; KubeStellar makes progress.         *)

HubFairness ==
    /\ \A h \in Hubs : WF_vars((HReconcile(h, "ok") \/ HBinding(h, "ok")) /\ OnlyHub)
    /\ SF_vars(HDispatch("ok") /\ OnlyHub)
    /\ SF_vars(HFollowUp("ok") /\ OnlyHub)
    /\ WF_vars(HSelect({}) /\ OnlyHub)

SpokeFairness ==
    /\ \A s \in Spokes :
          WF_vars((RReconciles(s, "ok") \/ RAccepting(s, "ok")) /\ OnlySpoke)
    /\ WF_vars(RItem /\ OnlySpoke)
    /\ SF_vars(RFollowUp("ok") /\ OnlySpoke)
    /\ SF_vars(RAgain(TRUE) /\ OnlySpoke)

EnvironmentFairness ==
    /\ \A h \in Hubs : SF_vars(KubeStellar(h))
    /\ \A c \in Controllers : SF_vars(\E a \in AppWrappers : Informer(c, a))
    /\ \A s \in Spokes, i \in Items :
          WF_vars(ItemGone(s, i) /\ OnlySpoke /\ UNCHANGED <<runner, accepting>>)
    /\ \A c \in LaggingPods, s \in Spokes :
          WF_vars(PodSync(c, s) /\ OnlySpoke /\ UNCHANGED <<runner, accepting>>)

FairSpec ==
    /\ Spec
    /\ HubFairness
    /\ SpokeFairness
    /\ EnvironmentFairness

\* "create BindingPolicy" (docs/mc-state-diagram.md): an AppWrapper that is
\* dispatched starts to run in the spoke, the first time and after each restart.
DispatchedIsAccepted ==
    \A h \in Hubs :
        store[h].ex = "live" /\ store[h].state = "Running"
                            /\ store[h].step \in {"Dispatching", "Accepting"}
            ~> \/ store[h].ex = "gone" \/ store[h].del
               \/ store[h].step \notin {"Dispatching", "Accepting"}

\* Deleting the BindingPolicy before an AppWrapper is queued again ends the reports
\* from its last run: the AppWrapper is dispatched again.
RestartedIsDispatched ==
    \A h \in Hubs : \A n \in 0 .. MaxNumRequeuings[Copy[h]] :
        store[h].ex = "live" /\ store[h].restarts = n /\ store[h].state = "Running"
                            /\ store[h].step = "Deleted"
            ~> \/ store[h].ex = "gone" \/ store[h].del
               \/ store[h].restarts > n /\ store[h].state # "Queued"

\* When an AppWrapper is deleted in the hub, where nobody waits for the Runner,
\* its copy and the resources of the copy go away as well.
SpokeCleanedUp ==
    \A h \in Hubs :
        store[h].ex = "gone" ~> /\ store[Copy[h]].ex # "live"
                               /\ \A i \in Items : ~Exists(Copy[h], i)
=============================================================================
