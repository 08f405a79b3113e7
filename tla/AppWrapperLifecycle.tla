------------------------ MODULE AppWrapperLifecycle ------------------------
(***************************************************************************)
(* What MCAD promises the owner of an AppWrapper, with no controllers, no  *)
(* informers and no caches: the state diagram of docs/state-diagram.md,    *)
(* and with it                                                             *)
(*  - an AppWrapper is dispatched only if it fits in the capacity that     *)
(*    AppWrappers of its priority and above leave at that very moment;     *)
(*  - its resources are deployed only from Running/Creating on, and are    *)
(*    gone before it is reported deleted, requeued or removed;             *)
(*  - it is restarted no more often than MaxNumRequeuings allows.          *)
(***************************************************************************)
EXTENDS DispatchLogic

CONSTANTS
    AppWrappers,
    Capacity,       \* the capacity reported to MCAD
    MinAvailable,
    MaxNumRequeuings

VARIABLES
    life,       \* life[a]: "new", "live", "deleting" (by its owner) or "gone"
    status,     \* status[a]: the state and the step
    restarts,   \* restarts[a]: how many times a was requeued
    deployed    \* deployed[a]: some wrapped resource is in the cluster

vars == <<life, status, restarts, deployed>>

Init ==
    /\ life \in [AppWrappers -> {"new", "live"}]
    /\ status = [a \in AppWrappers |->
                   IF life[a] = "new" THEN <<"Empty", "Idle">>
                   ELSE <<"Queued", "Idle">>]
    /\ restarts = [a \in AppWrappers |-> 0]
    /\ deployed = [a \in AppWrappers |-> FALSE]

\* A transition of the state diagram.
Move(a, from, to) ==
    /\ life[a] \in {"live", "deleting"}
    /\ status[a] = from
    /\ status' = [status EXCEPT ![a] = to]

Holding(b) == life[b] \in {"live", "deleting"} /\ status[b][2] # "Idle"

\* What AppWrappers of the priority of a and above hold.
Load(a) ==
    TotalRequest({b \in AppWrappers : Holding(b) /\ Priority[b] >= Priority[a]})

\* Only the resources a asks for matter.  Of others, AppWrappers of its priority
\* and above may hold more than the capacity: what one of them held did not count
\* against a later one of higher priority.
Dispatch(a) ==
    /\ Move(a, <<"Queued", "Idle">>, <<"Running", "Dispatching">>)
    /\ Fits(AggregateRequests[a], Minus(Capacity, Load(a)))
    /\ UNCHANGED <<life, restarts, deployed>>

Advance(a) ==
    /\ \/ Move(a, <<"Empty", "Idle">>, <<"Queued", "Idle">>)
       \/ Move(a, <<"Running", "Dispatching">>, <<"Running", "Accepting">>)
       \/ Move(a, <<"Running", "Accepting">>, <<"Running", "Creating">>)
       \/ Move(a, <<"Running", "Creating">>, <<"Running", "Created">>)
       \/ Move(a, <<"Running", "Created">>, <<"Succeeded", "Idle">>)
       \/ Move(a, <<"Failed", "Deleted">>, <<"Failed", "Idle">>)
    /\ UNCHANGED <<life, restarts, deployed>>

\* requeueOrFail: the AppWrapper is torn down to be queued again only while
\* restarts are left, and left as it is only if it is not monitored.
RequeueOrFail(a) ==
    /\ \E step \in {"Creating", "Created"} :
          \/ /\ MinAvailable[a] < 0
             /\ Move(a, <<"Running", step>>, <<"Failed", step>>)
          \/ /\ MinAvailable[a] >= 0
             /\ Move(a, <<"Running", step>>, <<"Failed", "Deleting">>)
          \/ /\ MinAvailable[a] >= 0
             /\ MaxNumRequeuings[a] = 0 \/ restarts[a] < MaxNumRequeuings[a]
             /\ Move(a, <<"Running", step>>, <<"Running", "Deleting">>)
    /\ UNCHANGED <<life, restarts, deployed>>

Deleted(a) ==
    /\ ~deployed[a]
    /\ \/ Move(a, <<"Running", "Deleting">>, <<"Running", "Deleted">>)
       \/ Move(a, <<"Failed", "Deleting">>, <<"Failed", "Deleted">>)
    /\ UNCHANGED <<life, restarts, deployed>>

Requeue(a) ==
    /\ Move(a, <<"Running", "Deleted">>, <<"Queued", "Idle">>)
    /\ restarts' = [restarts EXCEPT ![a] = @ + 1]
    /\ UNCHANGED <<life, deployed>>

\* The first wrapped resource appears, the last one disappears.
Deploy(a) ==
    /\ life[a] \in {"live", "deleting"}
    /\ status[a] = <<"Running", "Creating">>
    /\ ~deployed[a]
    /\ deployed' = [deployed EXCEPT ![a] = TRUE]
    /\ UNCHANGED <<life, status, restarts>>

Undeploy(a) ==
    /\ deployed[a]
    /\ life[a] = "deleting" \/ status[a][2] = "Deleting"
    /\ deployed' = [deployed EXCEPT ![a] = FALSE]
    /\ UNCHANGED <<life, status, restarts>>

\* The owner creates and deletes the AppWrapper; it goes away, at once or later,
\* when nothing is deployed.
Own(a) ==
    /\ \/ life[a] = "new" /\ life' = [life EXCEPT ![a] = "live"]
       \/ life[a] = "live" /\ life' = [life EXCEPT ![a] = "deleting"]
       \/ /\ life[a] \in {"live", "deleting"}
          /\ ~deployed[a]
          /\ life' = [life EXCEPT ![a] = "gone"]
    /\ UNCHANGED <<status, restarts, deployed>>

Next ==
    \E a \in AppWrappers :
        \/ Dispatch(a)
        \/ Advance(a)
        \/ RequeueOrFail(a)
        \/ Deleted(a)
        \/ Requeue(a)
        \/ Deploy(a)
        \/ Undeploy(a)
        \/ Own(a)

Spec == Init /\ [][Next]_vars
=============================================================================
