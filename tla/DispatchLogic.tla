--------------------------- MODULE DispatchLogic ---------------------------
(***************************************************************************)
(* dispatch_logic.go as a function of what the Dispatcher sees: which      *)
(* AppWrappers are in flight and what they book, which are candidates, the *)
(* capacity of the cluster and what is left of the quotas of namespaces.   *)
(* The loop of selectForDispatch is stated here by what it computes.       *)
(* SelectForDispatch follows the loop step by step, and its theorems show  *)
(* that the two agree.                                                     *)
(***************************************************************************)
EXTENDS Weights

CONSTANTS
    Priority,       \* Priority[a]: Spec.Priority
    Precedence,     \* Precedence[a]: rank by creation time, then UID
    Namespace,      \* Namespace[a]: the namespace of a
    PodResources    \* PodResources[a]: a's CustomPodResources, a sequence of
                    \* records [replicas, requests, limits]

\* aggregateRequests, for every AppWrapper.
AggregateRequests ==
    [a \in DOMAIN PodResources |->
        Total(LAMBDA i : Scale(PodResources[a][i].replicas,
                               PodResources[a][i].requests),
              DOMAIN PodResources[a])]

\* aggregateLimits
AggregateLimits ==
    [a \in DOMAIN PodResources |->
        Total(LAMBDA i : Scale(PodResources[a][i].replicas,
                               PodResources[a][i].limits),
              DOMAIN PodResources[a])]

\* getWeightsPairForAppWrapper
Ask(a) == [requests |-> AggregateRequests[a], limits |-> AggregateLimits[a]]

TotalRequest(S) == Total(LAMBDA a : AggregateRequests[a], S)

\* The order of the queue.
Before(a, b) ==
    \/ Priority[a] > Priority[b]
    \/ Priority[a] = Priority[b] /\ Precedence[a] < Precedence[b]

\* The first AppWrapper of a set, in queue order.
IsFirst(a, S) == a \in S /\ \A b \in S \ {a} : Before(a, b)

\* reserved[p] after assertPriorities: what AppWrappers of priority p or above
\* book.  booked is a function from the AppWrappers in flight to their weights.
Reserved(booked, p) ==
    Total(LAMBDA a : booked[a], {a \in DOMAIN booked : Priority[a] >= p})

\* available[p] at the start of the loop over the queue.
Available(capacity, booked, p) == Minus(capacity, Reserved(booked, p))

\* Mutant: what was selected before is not subtracted.
FitsAlone(a, S, capacity, booked) ==
    Fits(AggregateRequests[a], Available(capacity, booked, Priority[a]))

\* a fits in the capacity that AppWrappers in flight, and those of S that come
\* before a, leave at its priority level.
FitsCapacity(a, S, capacity, booked) ==
    Fits(AggregateRequests[a],
         Minus(Available(capacity, booked, Priority[a]),
               TotalRequest({b \in S : Before(b, a)})))

\* What the AppWrappers of S in one namespace ask for, as Allocate adds it up.
Allocated(S, namespace) ==
    PairTotal(Ask, {b \in S : Namespace[b] = namespace})

\* a passes the quota of its namespace, if there is one.  quota is a function
\* from the namespaces that have one to what was left of it at the start.
FitsQuota(a, S, quota) ==
    Namespace[a] \in DOMAIN quota =>
        PairFits(Ask(a),
                 PairQuotaMinus(quota[Namespace[a]],
                                Allocated({b \in S : Before(b, a)}, Namespace[a])))

\* S is the set of candidates selectForDispatch selects: those that fit in what
\* the AppWrappers in flight and the ones selected before them leave.  There is
\* exactly one such set.
IsSelection(S, candidates, capacity, booked, quota) ==
    \A a \in candidates :
        a \in S <=> /\ FitsCapacity(a, S, capacity, booked)
                    /\ FitsQuota(a, S, quota)

\* Mutant: the reason of a restart.
RestartReason(a, S, capacity, booked) == "Requeued"

\* The reason in the queuing decision of a candidate that is not selected.
Reason(a, S, capacity, booked) ==
    IF FitsCapacity(a, S, capacity, booked) THEN "InsufficientQuota"
    ELSE "InsufficientResources"
=============================================================================
