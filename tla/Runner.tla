------------------------------- MODULE Runner -------------------------------
(***************************************************************************)
(* runner.go in single-cluster mode.  The loops over the wrapped resources *)
(* of an AppWrapper are taken one API call at a time: the Runner may be    *)
(* restarted, and users, the Dispatcher and the cluster may act, between   *)
(* any two of them.                                                        *)
(***************************************************************************)
EXTENDS ResourceManager

CONSTANT
    MaxNumRequeuings    \* MaxNumRequeuings[a]: 0 stands for no limit

ASSUME MaxNumRequeuingsAssumption ==
    MaxNumRequeuings \in [AppWrappers -> Nat]

VARIABLE
    runner      \* what the Runner's worker is doing

R == "Runner"

\* op "create" and "delete": in the loop over the items of aw, next is the item
\* it is at, remaining the number of items the delete loop found.
\* op "fail": createResources returned an error, fatal or not.
RunnerState ==
    [op        : {"idle", "create", "delete", "fail"},
     aw        : AppWrappers \cup {NoAppWrapper},
     next      : 1 .. NItems + 1,
     remaining : Nat,
     fatal     : BOOLEAN]

Idle ==
    [op |-> "idle", aw |-> NoAppWrapper, next |-> 1, remaining |-> 0,
     fatal |-> FALSE]

\* The informer copy of a, as read at the start of the reconciliation.
RView(a) == view[R][a]

RReconciling(a) == runner = Idle /\ Reconciling(R, a)

\* Status of the AppWrapper reconciled: neither being deleted nor of MCAD 2.2.
RState(a, state, step) ==
    /\ ~RView(a).del
    /\ "legacy" \notin RView(a).fin
    /\ RView(a).state = state
    /\ RView(a).step = step

\* Mutant: one restart too many.
RestartsExceeded(a) ==
    MaxNumRequeuings[a] > 0 /\ RView(a).restarts > MaxNumRequeuings[a]

RestartsExhausted(a) ==
    MaxNumRequeuings[a] > 0 /\ RView(a).restarts >= MaxNumRequeuings[a]

\* requeueOrFail: the status it sends for an AppWrapper that is monitored ...
TeardownStatus(a, fatal) ==
    IF fatal \/ RestartsExhausted(a) THEN <<"Failed", "Deleting">>
    ELSE <<"Running", "Deleting">>

\* ... and for any: "set failed status and leave resources as is"
RequeueOrFailStatus(a, fatal) ==
    IF MinAvailable[a] < 0 THEN <<"Failed", RView(a).step>>
    ELSE TeardownStatus(a, fatal)

RequeueOrFail(a, fatal, r) ==
    LET status == RequeueOrFailStatus(a, fatal) IN
    UpdateStatus(R, a, RView(a), RView(a), status[1], status[2], r)

-----------------------------------------------------------------------------
(* Reconcile                                                               *)

RMissing(a) ==
    /\ runner = Idle
    /\ a \in queue[R]
    /\ RView(a).ex # "live"
    /\ Reconciled(R, a, FALSE)
    /\ UNCHANGED <<store, view, cache, resourceVars, runner>>

RStale(a) ==
    /\ runner = Idle
    /\ AbortStale(R, a)
    /\ UNCHANGED <<resourceVars, runner>>

\* An AppWrapper being deleted that has no runner finalizer: forget it.
RForget(a) ==
    /\ RReconciling(a)
    /\ RView(a).del
    /\ "runner" \notin RView(a).fin
    /\ cache' = [cache EXCEPT ![R][a] = NoEntry]
    /\ Reconciled(R, a, FALSE)
    /\ UNCHANGED <<store, view, resourceVars, runner>>

\* "Convert 2.2.0 and earlier single finalizer to two finalizer design"
RConvert(a, r) ==
    /\ RReconciling(a)
    /\ ~RView(a).del
    /\ "legacy" \in RView(a).fin
    /\ Update(a, RView(a),
              [RView(a) EXCEPT !.fin =
                  (@ \cup {"dispatcher", "runner"}) \ {"legacy"}], r)
    /\ cache' = [cache EXCEPT ![R][a] = FreshEntry(R, a)]
    /\ Reconciled(R, a, TRUE)
    /\ UNCHANGED <<view, resourceVars, runner>>

RAccept(a, r) ==
    /\ RReconciling(a)
    /\ RState(a, "Running", "Accepting")
    /\ UpdateStatus(R, a, RView(a), RView(a), "Running", "Creating", r)
    /\ Reconciled(R, a, ~Succeeds(a, RView(a), r))
    /\ UNCHANGED <<view, resourceVars, runner>>

\* Start the loop of createResources, unless an item cannot be parsed.
RCreate(a) ==
    /\ RReconciling(a)
    /\ RState(a, "Running", "Creating")
    /\ runner' = IF a \in Unparsable
                 THEN [Idle EXCEPT !.op = "fail", !.aw = a, !.fatal = TRUE]
                 ELSE [Idle EXCEPT !.op = "create", !.aw = a]
    /\ cache' = [cache EXCEPT ![R][a] = FreshEntry(R, a)]
    /\ Reconciled(R, a, FALSE)
    /\ UNCHANGED <<store, view, resourceVars>>

\* The pods are done and so are the items that report completion.
RSucceed(a, r) ==
    /\ RReconciling(a)
    /\ RState(a, "Running", "Created")
    /\ IsSuccessful(a)
    /\ UpdateStatus(R, a, RView(a), RView(a), "Succeeded", "Idle", r)
    /\ Reconciled(R, a, ~Succeeds(a, RView(a), r))
    /\ UNCHANGED <<view, resourceVars, runner>>

\* Too few pods are running or done; at least one is expected.
TooFewPods(a) ==
    Cardinality(RunningPods(a) \cup SucceededPods(a)) <
        (IF MinAvailable[a] = 0 THEN 1 ELSE MinAvailable[a])

\* Too few pods once Requeuing.TimeInSeconds is over (at any time, here).
RUnhealthy(a, r) ==
    /\ RReconciling(a)
    /\ RState(a, "Running", "Created")
    /\ ~IsSuccessful(a)
    /\ ~CompletionError(a)
    /\ TooFewPods(a)
    /\ RequeueOrFail(a, FALSE, r)
    /\ Reconciled(R, a, ~Succeeds(a, RView(a), r))
    /\ UNCHANGED <<view, resourceVars, runner>>

\* Healthy, or it is too early to tell, or the pods or items cannot be read:
\* check again later.
RHealthy(a) ==
    /\ RReconciling(a)
    /\ RState(a, "Running", "Created")
    /\ ~IsSuccessful(a) \/ "list" \in Faults
    /\ cache' = [cache EXCEPT ![R][a] = FreshEntry(R, a)]
    /\ Reconciled(R, a, TRUE)
    /\ UNCHANGED <<store, view, resourceVars, runner>>

\* Start the loop of deleteResources: for an AppWrapper that is requeued, that
\* failed, or that is being deleted.
RDelete(a) ==
    /\ RReconciling(a)
    /\ \/ RView(a).del /\ "runner" \in RView(a).fin
       \/ RState(a, "Running", "Deleting")
       \/ RState(a, "Failed", "Deleting")
    /\ runner' = [Idle EXCEPT !.op = "delete", !.aw = a]
    /\ cache' = [cache EXCEPT ![R][a] = FreshEntry(R, a)]
    /\ Reconciled(R, a, FALSE)
    /\ UNCHANGED <<store, view, resourceVars>>

RNothing(a) ==
    /\ RReconciling(a)
    /\ ~RView(a).del
    /\ "legacy" \notin RView(a).fin
    /\ <<RView(a).state, RView(a).step>> \notin
          {<<"Running", "Accepting">>, <<"Running", "Creating">>,
           <<"Running", "Created">>, <<"Running", "Deleting">>,
           <<"Failed", "Deleting">>}
    /\ cache' = [cache EXCEPT ![R][a] = FreshEntry(R, a)]
    /\ Reconciled(R, a, FALSE)
    /\ UNCHANGED <<store, view, resourceVars, runner>>

-----------------------------------------------------------------------------
(* The rest of a reconciliation that loops over the wrapped resources.     *)

\* Mutant: the request is not retried.
FinishedForGood(a, retry) == runner' = Idle /\ UNCHANGED queue

\* The end of such a reconciliation.  A request that came in the meantime stays.
Finished(a, retry) ==
    /\ runner' = Idle
    /\ queue' = IF retry THEN [queue EXCEPT ![R] = @ \cup {a}] ELSE queue

RCreateItem ==
    LET a == runner.aw
        i == runner.next
    IN  /\ runner.op = "create"
        /\ i <= NItems
        /\ \E r \in CreateOutcomes(a, i) :
              /\ CreateItem(a, i, r)
              /\ runner' = IF r = "ok" THEN [runner EXCEPT !.next = i + 1]
                           ELSE [Idle EXCEPT !.op = "fail", !.aw = a,
                                             !.fatal = (r = "fatal")]
        /\ UNCHANGED <<reconcilerVars, pods, podview>>

RCreated(r) ==
    LET a == runner.aw IN
    /\ runner.op = "create"
    /\ runner.next > NItems
    /\ UpdateStatus(R, a, RView(a), RView(a), "Running", "Created", r)
    /\ Finished(a, ~Succeeds(a, RView(a), r))
    /\ UNCHANGED <<view, resourceVars>>

RCreateFailed(r) ==
    LET a == runner.aw IN
    /\ runner.op = "fail"
    /\ RequeueOrFail(a, runner.fatal, r)
    /\ Finished(a, ~Succeeds(a, RView(a), r))
    /\ UNCHANGED <<view, resourceVars>>

RDeleteItem ==
    LET a == runner.aw
        i == runner.next
    IN  /\ runner.op = "delete"
        /\ i <= NItems
        /\ \E r \in DeleteOutcomes(a, i) :
              /\ DeleteItem(a, i, r)
              /\ runner' = [runner EXCEPT
                               !.next = i + 1,
                               !.remaining = IF r = "ok" THEN @ + 1 ELSE @]
        /\ UNCHANGED <<reconcilerVars, pods, podview>>

\* Nothing is left: give up the finalizer of an AppWrapper being deleted, or
\* report that the resources are deleted.
RDeleted(r) ==
    LET a    == runner.aw
        read == RView(a)
    IN  /\ runner.op = "delete"
        /\ runner.next > NItems
        /\ \E listed \in ListedPods(a) :
              DeletionComplete(a, runner.remaining, listed)
        /\ IF read.del
           THEN /\ Update(a, read, [read EXCEPT !.fin = @ \ {"runner"}], r)
                /\ cache' = [cache EXCEPT ![R][a] =
                                IF Succeeds(a, read, r) THEN NoEntry
                                ELSE FreshEntry(R, a)]
           ELSE UpdateStatus(R, a, read, read, read.state, "Deleted", r)
        /\ Finished(a, ~Succeeds(a, read, r))
        /\ UNCHANGED <<view, resourceVars>>

\* Something is left: come back after deletionDelay, with force once
\* ForceDeletionTimeInSeconds is over.
RDeleteAgain(force) ==
    LET a == runner.aw IN
    /\ runner.op = "delete"
    /\ runner.next > NItems
    /\ \E listed \in ListedPods(a) :
          /\ ~DeletionComplete(a, runner.remaining, listed)
          /\ IF force /\ a \in ForceDeletion THEN ForceDelete(a, listed)
             ELSE UNCHANGED resourceVars
    /\ Finished(a, TRUE)
    /\ UNCHANGED <<store, view, cache>>

-----------------------------------------------------------------------------

\* How the Runner starts on a request, when calls end with r.
RReconcile(a, r) ==
    \/ RMissing(a)
    \/ RStale(a)
    \/ RForget(a)
    \/ RConvert(a, r)
    \/ RAccept(a, r)
    \/ RCreate(a)
    \/ RSucceed(a, r)
    \/ RUnhealthy(a, r)
    \/ RHealthy(a)
    \/ RDelete(a)
    \/ RNothing(a)

RunnerStep ==
    \/ \E r \in Outcomes :
          \/ \E a \in AppWrappers : RReconcile(a, r)
          \/ RCreated(r)
          \/ RCreateFailed(r)
          \/ RDeleted(r)
    \/ RCreateItem
    \/ RDeleteItem
    \/ \E force \in BOOLEAN : RDeleteAgain(force)

RunnerRestart ==
    /\ RestartReconciler(R)
    /\ runner' = Idle
    /\ PodRelist(R)

RunnerInit == runner = Idle

RunnerTypeOK ==
    /\ runner \in RunnerState
    /\ runner.aw = NoAppWrapper <=> runner.op = "idle"
=============================================================================
