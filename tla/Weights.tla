------------------------------ MODULE Weights ------------------------------
(***************************************************************************)
(* weights.go: maps from resource names to quantities.  A resource that is *)
(* not a key has no quantity, which is not the same as quantity 0: Fits    *)
(* treats a missing key as "none available", QuotaFits as "no limit".      *)
(* Quantities are arbitrary-precision decimals in the code, integers here. *)
(***************************************************************************)
EXTENDS Integers, Sequences, FiniteSetsExt

Zero == [k \in {} |-> 0]

\* w[k], with the fresh zero Add, Sub, AddProd and Max start from.
Quantity(w, k) == IF k \in DOMAIN w THEN w[k] ELSE 0

Plus(w, r) ==
    [k \in DOMAIN w \cup DOMAIN r |-> Quantity(w, k) + Quantity(r, k)]

Minus(w, r) ==
    [k \in DOMAIN w \cup DOMAIN r |-> Quantity(w, k) - Quantity(r, k)]

\* coefficient * r, what AddProd adds.
Scale(coefficient, r) == [k \in DOMAIN r |-> coefficient * r[k]]

\* A key of r that w lacks is compared with zero.
Maximum(w, r) ==
    [k \in DOMAIN w \cup DOMAIN r |->
        IF k \in DOMAIN r /\ Quantity(w, k) < r[k] THEN r[k]
        ELSE Quantity(w, k)]

\* The resources of w that r does not have enough of.
Insufficient(w, r) ==
    {k \in DOMAIN w : w[k] > 0 /\ (k \notin DOMAIN r \/ w[k] > r[k])}

Fits(w, r) == Insufficient(w, r) = {}

\* The sum of f(x) over the elements x of S.
Total(f(_), S) ==
    MapThenFoldSet(Plus, Zero, f, LAMBDA T : CHOOSE x \in T : TRUE, S)

-----------------------------------------------------------------------------
(* Quotas: a resource that w does not limit stays without a limit.         *)

QuotaMinus(w, r) == [k \in DOMAIN w |-> w[k] - Quantity(r, k)]

QuotaFits(w, r) ==
    \A k \in DOMAIN w \cap DOMAIN r : w[k] > 0 => w[k] <= r[k]

(* WeightsPair: the requests and the limits of an object.                  *)

NoWeights == [requests |-> Zero, limits |-> Zero]

PairPlus(w, r) ==
    [requests |-> Plus(w.requests, r.requests),
     limits   |-> Plus(w.limits, r.limits)]

PairQuotaMinus(w, r) ==
    [requests |-> QuotaMinus(w.requests, r.requests),
     limits   |-> QuotaMinus(w.limits, r.limits)]

PairMaximum(w, r) ==
    [requests |-> Maximum(w.requests, r.requests),
     limits   |-> Maximum(w.limits, r.limits)]

PairFits(w, r) ==
    QuotaFits(w.requests, r.requests) /\ QuotaFits(w.limits, r.limits)

PairTotal(f(_), S) ==
    MapThenFoldSet(PairPlus, NoWeights, f, LAMBDA T : CHOOSE x \in T : TRUE, S)

-----------------------------------------------------------------------------
(* Pods: [containers, initContainers, overhead], two sequences of records  *)
(* [requests, limits] and the weights of the overhead.                     *)

\* Containers run together, init containers before them and one by one.
Effective(containers, initContainers) ==
    MapThenFoldSet(LAMBDA r, w : Maximum(w, r),
                   Total(LAMBDA i : containers[i], DOMAIN containers),
                   LAMBDA i : initContainers[i],
                   LAMBDA T : CHOOSE i \in T : TRUE,
                   DOMAIN initContainers)

Field(containers, name) == [i \in DOMAIN containers |-> containers[i][name]]

NewWeightsForPod(pod) ==
    Plus(Effective(Field(pod.containers, "requests"),
                   Field(pod.initContainers, "requests")), pod.overhead)

\* The overhead is not part of the limits.
NewLimitsWeightsForPod(pod) ==
    Effective(Field(pod.containers, "limits"),
              Field(pod.initContainers, "limits"))

NewWeightsPairForPod(pod) ==
    [requests |-> NewWeightsForPod(pod), limits |-> NewLimitsWeightsForPod(pod)]
=============================================================================
