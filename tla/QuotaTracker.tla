---------------------------- MODULE QuotaTracker ----------------------------
(***************************************************************************)
(* quota_tracker.go, and getUnadmittedPodsWeights of dispatcher.go: what a *)
(* ResourceQuota leaves for an AppWrapper during one dispatching cycle.    *)
(***************************************************************************)
EXTENDS Weights

Sequence == INSTANCE SequencesExt

\* getWeightsPairForResourceList.  A ResourceList maps names to quantities; a
\* name is a pair of a prefix, "requests", "limits" or "" for none, and a
\* resource.  Of cpu and requests.cpu, which mean the same, the smaller counts.
WeightsPairForResourceList(r) ==
    LET Named(prefixes) == {n \in DOMAIN r : n[1] \in prefixes}
        Least(prefixes) ==
            [k \in {n[2] : n \in Named(prefixes)} |->
                Min({r[n] : n \in {m \in Named(prefixes) : m[2] = k}})]
    IN  [requests |-> Least({"", "requests"}), limits |-> Least({"limits"})]

\* Satisfies: what is left of a quota, before anything is allocated ...
QuotaLeft(quota, used, unadmitted) ==
    PairQuotaMinus(PairQuotaMinus(quota, used), unadmitted)

\* ... and whether an AppWrapper that asks for this much fits in it.
Satisfies(ask, left, allocated) == PairFits(ask, PairQuotaMinus(left, allocated))

\* Mutants: created pods do not count; the AppWrappers listed before are lost.
AccountInFull(weightsPair, ask, created) ==
    PairMaximum(NoWeights, PairPlus(weightsPair, ask))

AccountLast(weightsPair, ask, created) ==
    PairMaximum(NoWeights, PairQuotaMinus(ask, created))

\* One turn of the loop of getUnadmittedPodsWeights: add what the AppWrapper asks
\* for, subtract its pods, terminated ones too, and make the result nonnegative.
Account(weightsPair, ask, created) ==
    PairMaximum(NoWeights, PairQuotaMinus(PairPlus(weightsPair, ask), created))

\* The whole loop, over the AppWrappers in flight in the order they are listed,
\* as far as it is about the ones of a namespace.
Unadmitted(list, isOfNamespace(_), ask(_), created(_)) ==
    Sequence!FoldLeft(LAMBDA w, a : IF isOfNamespace(a)
                                    THEN Account(w, ask(a), created(a)) ELSE w,
                      NoWeights, list)
=============================================================================
