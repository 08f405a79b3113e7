--------------------------- MODULE UnadmittedPods ---------------------------
(***************************************************************************)
(* The loop of getUnadmittedPodsWeights over the AppWrappers of one        *)
(* namespace, in any order an informer may list them, compared with what   *)
(* it stands for: the demand of each AppWrapper in flight that its pods do *)
(* not cover yet.                                                          *)
(***************************************************************************)
EXTENDS QuotaTracker

CONSTANTS
    AppWrappers,
    Asks,           \* what an AppWrapper may ask for
    PodWeights      \* what the pods of an AppWrapper may add up to

\* Asks and the weights of pods are pairs of integer weights.  The API server keeps
\* the requests and limits of pods from being negative.
ASSUME UnadmittedAssumption ==
    /\ IsFiniteSet(AppWrappers)
    /\ \A w \in Asks \cup PodWeights :
          /\ w.requests \in [DOMAIN w.requests -> Int]
          /\ w.limits \in [DOMAIN w.limits -> Int]
    /\ \A w \in PodWeights : /\ \A k \in DOMAIN w.requests : w.requests[k] >= 0
                             /\ \A k \in DOMAIN w.limits : w.limits[k] >= 0

VARIABLES
    list,           \* the AppWrappers in flight, in the order of the list
    ask, created,   \* ask[a]: what a asks for; created[a]: what its pods do
    i,              \* the AppWrappers handled so far
    weightsPair     \* the entry of the namespace in weightsPairMap

vars == <<list, ask, created, i, weightsPair>>

Init ==
    /\ list \in {s \in [1 .. Cardinality(AppWrappers) -> AppWrappers] :
                    \A m, n \in DOMAIN s : s[m] = s[n] => m = n}
    /\ ask \in [AppWrappers -> Asks]
    /\ created \in [AppWrappers -> PodWeights]
    /\ i = 0
    /\ weightsPair = NoWeights

Next ==
    /\ i < Len(list)
    /\ i' = i + 1
    /\ weightsPair' = Account(weightsPair, ask[list[i']], created[list[i']])
    /\ UNCHANGED <<list, ask, created>>

Spec == Init /\ [][Next]_vars

-----------------------------------------------------------------------------

\* What the pods of a do not cover of what a asks for.
Missing(a) == PairMaximum(NoWeights, PairQuotaMinus(ask[a], created[a]))

Expected == PairTotal(LAMBDA n : Missing(list[n]), 1 .. i)

\* w is no more than r, for every resource.
AtMost(w, r) ==
    /\ \A k \in DOMAIN w.requests : w.requests[k] <= Quantity(r.requests, k)
    /\ \A k \in DOMAIN w.limits : w.limits[k] <= Quantity(r.limits, k)

\* The loop never makes up demand: AppWrappers are not kept out of a quota by more
\* than what those in flight still lack, in whatever order they are listed.
NotOverstated == AtMost(weightsPair, Expected)

\* As long as no AppWrapper has more pods than it asks for, the loop counts the
\* demand of every AppWrapper in flight.
ExactWithoutSurplus ==
    (\A a \in AppWrappers : AtMost(created[a], ask[a])) =>
        AtMost(weightsPair, Expected) /\ AtMost(Expected, weightsPair)
=============================================================================
