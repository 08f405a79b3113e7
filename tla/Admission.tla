----------------------------- MODULE Admission -----------------------------
(***************************************************************************)
(* Mcad with a ResourceQuota for some namespaces.  The API server          *)
(* (external) admits a pod only if it fits in the quota of its namespace,  *)
(* and counts it in Status.Used.  A dispatch reads the pods of the         *)
(* AppWrappers in flight first and the ResourceQuotas after them, each     *)
(* from an informer of its own that may lag.                               *)
(***************************************************************************)
EXTENDS Mcad, QuotaTracker

CONSTANT
    Hard            \* Hard[n]: Status.Hard of the ResourceQuota of namespace n

VARIABLES
    used,       \* used[n]: the informer copy of Status.Used
    demand      \* <<d>>: a dispatch has found the unadmitted demand d, else <<>>

quotaVars == <<used, demand>>

admissionVars == <<vars, quotaVars>>

-----------------------------------------------------------------------------
(* Quotas (external).                                                      *)

PodWeights == [a \in AppWrappers |-> NewWeightsPairForPod(PodSpec[a])]

\* What some pods of a add up to.
WeightsOfPods(a, S) == PairTotal(LAMBDA p : PodWeights[a], S)

ActivePods(a) == {p \in pods[a] : p.phase \notin {"Succeeded", "Failed"}}

\* What the pods of namespace n that have not terminated add up to.
Usage(n) ==
    PairTotal(LAMBDA a : WeightsOfPods(a, ActivePods(a)),
              {a \in AppWrappers : Namespace[a] = n})

\* Status.Used: the usage of the resources Hard names, under the same names.
Used(n) ==
    LET usage == Usage(n) IN
    [name \in DOMAIN Hard[n] |->
        Quantity(IF name[1] = "limits" THEN usage.limits ELSE usage.requests,
                 name[2])]

\* The cluster acts; creating a pod must not take a namespace over its quota.
AdmittedCluster(a) ==
    /\ Cluster(a)
    /\ Cardinality(pods'[a]) > Cardinality(pods[a]) =>
          \A n \in DOMAIN Hard :
              LET new == Used(n)' IN
              \A name \in DOMAIN Hard[n] : new[name] <= Hard[n][name]
    /\ UNCHANGED <<dispatcherVars, runner, quotaVars>>

\* A copy of a ResourceQuota arrives, also while a dispatch is adding up demand.
QuotaSync(n) ==
    /\ DispatcherIdle
    /\ used' = [used EXCEPT ![n] = Used(n)]
    /\ used' # used
    /\ UNCHANGED <<vars, demand>>

-----------------------------------------------------------------------------
(* dispatch                                                                *)

HardWeights == [n \in DOMAIN Hard |-> WeightsPairForResourceList(Hard[n])]

\* Mutant: queued AppWrappers count, too.
AllListed == Listed

\* The AppWrappers whose demand getUnadmittedPodsWeights adds up, ...
Dispatched == InFlight

\* ... and their total in namespace n, if they are listed in this order.  It is
\* not used if their list cannot be read, and the pods of an AppWrapper do not
\* count if they cannot.
UnadmittedPodsWeights(n, order, readable) ==
    IF NoAppWrapper \notin readable THEN NoWeights
    ELSE Unadmitted(order, LAMBDA a : Namespace[a] = n, Ask,
                    LAMBDA a : IF a \in readable THEN WeightsOfPods(a, PodView(D, a))
                               ELSE NoWeights)

\* The lists that can be read: NoAppWrapper stands for that of AppWrappers.
Readable ==
    LET lists == Dispatched \cup {NoAppWrapper} IN
    {lists} \cup (IF "list" \in Faults THEN SUBSET lists ELSE {})

\* The start of a dispatch: getUnadmittedPodsWeights.
DAccount ==
    /\ DispatcherIdle
    /\ trigger
    /\ demand = <<>>
    /\ \E order \in Sequence!SetToSeqs(Dispatched), readable \in Readable :
          demand' = <<[n \in DOMAIN Hard |-> UnadmittedPodsWeights(n, order, readable)]>>
    /\ UNCHANGED <<vars, used>>

\* What quotaTracker knows of the quotas, read after the unadmitted demand was.
Quotas ==
    [n \in DOMAIN Hard |->
        QuotaLeft(HardWeights[n], WeightsPairForResourceList(used[n]), demand[1][n])]

\* The rest of the dispatch lists AppWrappers again, and the ResourceQuotas.
DSelectInQuota(paused) ==
    /\ demand # <<>>
    /\ DSelect(paused, Capacity, Quotas)
    /\ demand' = <<>>
    /\ UNCHANGED <<resourceVars, runner, used>>

QuotaDispatcherStep ==
    \/ DAccount
    \/ \E paused \in SUBSET Requeued : DSelectInQuota(paused)
    \/ demand = <<>> /\ DRequestStep /\ UNCHANGED <<resourceVars, runner, quotaVars>>

\* A Dispatcher that restarts lists the ResourceQuotas, too.
AdmissionRestart(c) ==
    /\ Restart(c)
    /\ IF c = D THEN used' = [n \in DOMAIN Hard |-> Used(n)] /\ demand' = <<>>
       ELSE UNCHANGED quotaVars

-----------------------------------------------------------------------------

AdmissionInit ==
    /\ Init
    /\ used = [n \in DOMAIN Hard |-> Used(n)]
    /\ demand = <<>>

AdmissionNext ==
    \/ UserStep /\ UNCHANGED quotaVars
    \/ \E c \in Controllers, a \in AppWrappers :
          Informer(c, a) /\ UNCHANGED quotaVars
    \/ QuotaDispatcherStep
    \/ RunnerStep /\ UNCHANGED <<dispatcherVars, quotaVars>>
    \/ \E a \in AppWrappers : AdmittedCluster(a)
    \/ \E c \in Restartable : AdmissionRestart(c)
    \/ \E n \in DOMAIN Hard : QuotaSync(n)

AdmissionSpec == AdmissionInit /\ [][AdmissionNext]_admissionVars

\* As in Mcad; copies of ResourceQuotas arrive, too, and restarts do not end
\* every dispatch half way.
AdmissionFairSpec ==
    /\ AdmissionSpec
    /\ WF_admissionVars(DAccount)
    /\ SF_admissionVars(DSelectInQuota({}))
    /\ DispatcherFairness
    /\ RunnerFairness
    /\ EnvironmentFairness
    /\ \A n \in DOMAIN Hard : SF_admissionVars(QuotaSync(n))
=============================================================================
