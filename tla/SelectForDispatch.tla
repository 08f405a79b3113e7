------------------------- MODULE SelectForDispatch -------------------------
(***************************************************************************)
(* The loops of buildQueue, assertPriorities and selectForDispatch, one    *)
(* cluster after the other, on any set of AppWrappers.  What they compute  *)
(* is compared with the definitions of DispatchLogic, which the Dispatcher *)
(* uses.                                                                   *)
(***************************************************************************)
EXTENDS Integers, FiniteSets, SequencesExt

CONSTANTS
    AppWrappers,
    Clusters,           \* the ClusterInfo objects, in the order of the list
    MultiClusterMode,   \* AppWrappers are assigned to clusters by a label
    Precedence,         \* Precedence[a]: rank by creation time, then UID
    Namespace,          \* Namespace[a]: the namespace of a
    Priorities,         \* the priorities, asks, capacities and what may be left
    Asks,               \* of the quotas (by namespace) to try
    Capacities,
    Quotas

\* Quantities are integers.
ASSUME SelectAssumption ==
    /\ IsFiniteSet(AppWrappers)
    /\ DOMAIN Clusters = 1 .. Len(Clusters)
    /\ Len(Clusters) \in Nat \ {0}
    /\ MultiClusterMode \in BOOLEAN
    /\ Precedence \in [AppWrappers -> Int]
    /\ \A a, b \in AppWrappers : Precedence[a] = Precedence[b] => a = b
    /\ Priorities \subseteq Int
    /\ \A w \in Asks : /\ w.requests \in [DOMAIN w.requests -> Int]
                       /\ w.limits \in [DOMAIN w.limits -> Int]
    /\ \A w \in Capacities : w \in [DOMAIN w -> Int]
    /\ \A q \in Quotas : \A n \in DOMAIN q :
          /\ q[n] = [requests |-> q[n].requests, limits |-> q[n].limits]
          /\ q[n].requests \in [DOMAIN q[n].requests -> Int]
          /\ q[n].limits \in [DOMAIN q[n].limits -> Int]

\* Every AppWrapper is in the queue of one cluster, by its label or because there
\* is one ClusterInfo object.  The code does not check this: with several objects
\* and no labels every AppWrapper is in all queues.
OneQueueEach == MultiClusterMode \/ Len(Clusters) = 1

VARIABLES
    priority, ask, inFlight, assigned, capacity, quota,     \* the input
    pc,             \* "build", "assert", "select" or "done"
    turn,           \* the cluster the outer loop is at
    reserved,       \* reserved[p], total request per priority level
    available,      \* available[p]
    i,              \* loop index
    allocated,      \* allocated[n]: what the quota tracker has allocated
    selected,       \* the AppWrappers selected, in order
    decided         \* decided[a]: the queuing decision for a, if any

input == <<priority, ask, inFlight, assigned, capacity, quota>>

vars == <<input, pc, turn, reserved, available, i, allocated, selected, decided>>

L == INSTANCE DispatchLogic WITH
        Priority     <- priority,
        PodResources <- [a \in AppWrappers |->
                            <<[replicas |-> 1, requests |-> ask[a].requests,
                               limits |-> ask[a].limits]>>]

Q == INSTANCE QuotaTracker

\* The AppWrappers buildQueue looks at for cluster c.
OfCluster(c) == {a \in AppWrappers : MultiClusterMode => assigned[a] = c}

\* The elements of S in the order R.
InOrder(S, R(_, _)) ==
    CHOOSE s \in SetToSeqs(S) : \A m, n \in DOMAIN s : m < n => R(s[m], s[n])

\* Mutants: the levels in the wrong order, the queue by precedence alone.
KeysDescending == InOrder({priority[a] : a \in OfCluster(turn)}, >)

QueueByPrecedence(c) ==
    InOrder(OfCluster(c) \ inFlight, LAMBDA a, b : Precedence[a] < Precedence[b])

\* The priority levels of these AppWrappers, in increasing order.
Keys == InOrder({priority[a] : a \in OfCluster(turn)}, <)

Queue(c) == InOrder(OfCluster(c) \ inFlight, L!Before)

Init ==
    /\ priority \in [AppWrappers -> Priorities]
    /\ ask \in [AppWrappers -> Asks]
    /\ inFlight \in SUBSET AppWrappers
    /\ assigned \in IF MultiClusterMode THEN [AppWrappers -> DOMAIN Clusters]
                    ELSE {[a \in AppWrappers |-> 1]}
    /\ capacity \in [DOMAIN Clusters -> Capacities]
    /\ quota \in Quotas
    /\ pc = "build"
    /\ turn = 1
    /\ reserved = <<>>
    /\ available = <<>>
    /\ i = 0
    /\ allocated = [n \in DOMAIN quota |-> L!NoWeights]
    /\ selected = <<>>
    /\ decided = [a \in AppWrappers |-> "none"]

\* The loop over the AppWrappers adds up the requests at each priority level.
BuildQueue ==
    /\ pc = "build"
    /\ reserved' = [p \in Range(Keys) |->
                      L!Total(LAMBDA a : ask[a].requests,
                              {a \in inFlight \cap OfCluster(turn) : priority[a] = p})]
    /\ i' = Len(Keys)
    /\ pc' = "assert"
    /\ UNCHANGED <<input, turn, available, allocated, selected, decided>>

\* "Propagate reservations at all priority levels to all levels below"
AssertPriorities ==
    /\ pc = "assert"
    /\ IF i > 1
       THEN /\ reserved' = [reserved EXCEPT ![Keys[i - 1]] =
                               L!Plus(@, reserved[Keys[i]])]
            /\ i' = i - 1
            /\ UNCHANGED <<pc, available>>
       ELSE /\ available' = [p \in DOMAIN reserved |->
                               L!Minus(capacity[turn], reserved[p])]
            /\ i' = 1
            /\ pc' = "select"
            /\ UNCHANGED reserved
    /\ UNCHANGED <<input, turn, allocated, selected, decided>>

\* Mutant: a selected AppWrapper is not charged to its own level.
LevelsBelow(a) == {p \in DOMAIN available : p < priority[a]}

\* The levels at which a selected AppWrapper reduces what is available.
LevelsCharged(a) == {p \in DOMAIN available : p <= priority[a]}

\* Mutant: the quota tracker forgets what it allocated.
ForgetAllocation(a) == allocated

\* Allocate: nothing to do in a namespace that has no quota.
Allocate(a) ==
    [n \in DOMAIN allocated |->
        IF n = Namespace[a] THEN L!PairPlus(allocated[n], L!Ask(a))
        ELSE allocated[n]]

\* "compute ordered slice of AppWrappers that fit on the cluster"
Select ==
    /\ pc = "select"
    /\ i <= Len(Queue(turn))
    /\ LET a         == Queue(turn)[i]
           fits      == L!Fits(ask[a].requests, available[priority[a]])
           quotaFits == Namespace[a] \in DOMAIN quota =>
                            Q!Satisfies(L!Ask(a), quota[Namespace[a]],
                                        allocated[Namespace[a]])
       IN  IF fits /\ quotaFits
           THEN /\ selected' = Append(selected, a)
                /\ allocated' = Allocate(a)
                /\ available' = [p \in DOMAIN available |->
                                   IF p \in LevelsCharged(a)
                                   THEN L!Minus(available[p], ask[a].requests)
                                   ELSE available[p]]
                /\ UNCHANGED decided
           ELSE /\ decided' = [decided EXCEPT ![a] =
                                 IF fits THEN "InsufficientQuota"
                                 ELSE "InsufficientResources"]
                /\ UNCHANGED <<selected, available, allocated>>
    /\ i' = i + 1
    /\ UNCHANGED <<input, pc, turn, reserved>>

\* The end of the queue of a cluster: go on with the next one, or return.
NextCluster ==
    /\ pc = "select"
    /\ i > Len(Queue(turn))
    /\ IF turn < Len(Clusters)
       THEN pc' = "build" /\ turn' = turn + 1
       ELSE pc' = "done" /\ UNCHANGED turn
    /\ UNCHANGED <<input, reserved, available, i, allocated, selected, decided>>

Next == BuildQueue \/ AssertPriorities \/ Select \/ NextCluster

Spec == Init /\ [][Next]_vars

-----------------------------------------------------------------------------

Booked(c) == [a \in inFlight \cap OfCluster(c) |-> ask[a].requests]

Chosen(c) == Range(selected) \cap OfCluster(c)

\* What the clusters before c leave of the quotas.
QuotaFor(c) ==
    [n \in DOMAIN quota |->
        L!PairQuotaMinus(quota[n],
                         L!Allocated(UNION {Chosen(b) : b \in 1 .. c - 1}, n))]

\* assertPriorities leaves at each level what that level and those above book.
ReservationsPropagate ==
    pc = "select" =>
        \A p \in DOMAIN reserved : reserved[p] = L!Reserved(Booked(turn), p)

\* The loop of selectForDispatch selects for each cluster, in queue order, what
\* IsSelection describes, and tells all other candidates the right reason.
LoopSelects ==
    pc = "done" =>
        \A c \in DOMAIN Clusters :
            /\ L!IsSelection(Chosen(c), Range(Queue(c)), capacity[c], Booked(c),
                             QuotaFor(c))
            /\ \A m, n \in DOMAIN selected :
                  m < n /\ {selected[m], selected[n]} \subseteq OfCluster(c)
                      => L!Before(selected[m], selected[n])
            /\ \A a \in Range(Queue(c)) :
                  decided[a] = IF a \in Chosen(c) THEN "none"
                               ELSE L!Reason(a, Chosen(c), capacity[c], Booked(c))

\* An AppWrapper is selected only if it fits beside all that is booked on its
\* cluster at its priority or above and all that was selected there before it:
\* for no resource that it asks for do these exceed the capacity.
SelectedFit ==
    \A n \in DOMAIN selected, c \in 1 .. turn :
        LET a      == selected[n]
            before == {m \in 1 .. n : selected[m] \in OfCluster(c)}
            load   == L!Plus(L!Reserved(Booked(c), priority[a]),
                             L!Total(LAMBDA m : ask[selected[m]].requests, before))
        IN  a \in OfCluster(c) =>
                \A k \in DOMAIN ask[a].requests :
                    ask[a].requests[k] > 0 =>
                        k \in DOMAIN capacity[c] /\ load[k] <= capacity[c][k]

\* The AppWrappers selected in a namespace, for whatever cluster, ask together for
\* no more than its quota leaves: allocations carry over from cluster to cluster.
SelectedWithinQuota ==
    \A n \in DOMAIN quota :
        LET total == L!PairTotal(LAMBDA m : L!Ask(selected[m]),
                                 {m \in DOMAIN selected : Namespace[selected[m]] = n})
        IN  L!PairFits(total, quota[n])

\* What is queued or running on a cluster at a lower priority has no influence on
\* what is selected for that cluster at a higher one: "Find next AppWrappers to
\* dispatch in queue order" (dispatch_logic.go:162).  Between clusters this does
\* not hold: a quota is handed out cluster by cluster.
NoPriorityInversion ==
    pc = "done" =>
        \A c \in DOMAIN Clusters, p \in Priorities :
            LET high == {a \in AppWrappers : priority[a] >= p} IN
            L!IsSelection(Chosen(c) \cap high, Range(Queue(c)) \cap high, capacity[c],
                          [a \in inFlight \cap OfCluster(c) \cap high |->
                              ask[a].requests],
                          QuotaFor(c))
=============================================================================
