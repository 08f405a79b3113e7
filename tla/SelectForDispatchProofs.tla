---------------------- MODULE SelectForDispatchProofs ----------------------
(***************************************************************************)
(* Proofs about SelectForDispatch: the loops of dispatch_logic.go compute  *)
(* the selection that DispatchLogic states, for any number of AppWrappers, *)
(* clusters, namespaces, priority levels and resources.                    *)
(*                                                                         *)
(* The loop keeps running totals, one per priority level and one per       *)
(* namespace, and never looks back.  The invariant, SelectInv, says what   *)
(* they stand for: available[p] is the capacity less what is booked and    *)
(* what is selected on this cluster at p or above, allocated[n] what is    *)
(* selected in n on any cluster; and each candidate already handled was    *)
(* decided on as if its test were made now, against those before it in the *)
(* queue.  That test does not change when the loop goes on, because all    *)
(* that is selected later comes later in the queue.  All of this supposes  *)
(* that every AppWrapper is in one queue only, OneQueueEach.               *)
(***************************************************************************)
EXTENDS SelectForDispatch, WeightsProofs

-----------------------------------------------------------------------------
(* Sorting.                                                                *)

\* R orders S.
Orders(R, S) ==
    /\ \A x \in S : <<x, x>> \notin R
    /\ \A x, y \in S : x # y => <<x, y>> \in R \/ <<y, x>> \in R
    /\ \A x, y, z \in S : <<x, y>> \in R /\ <<y, z>> \in R => <<x, z>> \in R

\* A finite set that is ordered has a last element.
LEMMA LastExists ==
    ASSUME NEW S, IsFiniteSet(S), S # {}, NEW R, Orders(R, S)
    PROVE  \E x \in S : \A y \in S \ {x} : <<y, x>> \in R
  <1> DEFINE IsLast(T, x) == x \in T /\ \A y \in T \ {x} : <<y, x>> \in R
             Good == {T \in SUBSET S : T = {} \/ \E x : IsLast(T, x)}
  <1>1. ASSUME NEW T \in SUBSET S, \A U \in SUBSET T : U # T => U \in Good
        PROVE  T \in Good
    <2> SUFFICES ASSUME T # {} PROVE \E x : IsLast(T, x)
      OBVIOUS
    <2>1. PICK x \in T : TRUE
      OBVIOUS
    <2> DEFINE U == T \ {x}
    <2>2. U \in Good
      BY <1>1, <2>1
    <2>3. CASE U = {}
      BY <2>1, <2>3
    <2>4. CASE \E z : IsLast(U, z)
      <3>1. PICK z : IsLast(U, z)
        BY <2>4
      <3>2. CASE <<x, z>> \in R
        BY <3>1, <3>2
      <3>3. CASE <<z, x>> \in R
        <4>1. \A y \in T \ {x} : <<y, x>> \in R
          BY <2>1, <3>1, <3>3 DEF Orders
        <4> QED BY <2>1, <4>1
      <3> QED BY <2>1, <3>1, <3>2, <3>3 DEF Orders
    <2> QED BY <2>2, <2>3, <2>4
  <1> HIDE DEF Good
  <1>2. S \in Good
    BY <1>1, FiniteInduction
  <1> QED BY <1>2 DEF Good

\* The sequences of the elements of a set.
LEMMA SeqsOfSet ==
    ASSUME NEW S, IsFiniteSet(S), NEW s \in SetToSeqs(S)
    PROVE  /\ Len(s) \in Nat
           /\ DOMAIN s = 1 .. Len(s)
           /\ s \in [1 .. Len(s) -> S]
           /\ \A m, n \in 1 .. Len(s) : s[m] = s[n] => m = n
           /\ Range(s) = S
           /\ \A x \in S : \E m \in 1 .. Len(s) : s[m] = x
  <1> DEFINE n == Cardinality(S)
  <1>1. n \in Nat
    BY FS_CardinalityType
  <1>2. s \in [1 .. n -> S] /\ \A j, m \in 1 .. n : j # m => s[j] # s[m]
    BY DEF SetToSeqs
  <1> HIDE DEF n
  <1>3. Len(s) = n /\ DOMAIN s = 1 .. n
    BY <1>1, <1>2
  <1>4. s \in Injection(1 .. n, S)
    BY <1>2 DEF Injection, IsInjective
  <1>5. IsFiniteSet(1 .. n) /\ Cardinality(1 .. n) = n
    BY <1>1, FS_Interval
  <1>6. s \in Surjection(1 .. n, S)
    BY <1>4, <1>5, FS_Injection DEF n
  <1>7. \A x \in S : \E m \in 1 .. n : s[m] = x
    BY <1>6 DEF Surjection
  <1>8. Range(s) = S
    BY <1>2, <1>3, <1>7 DEF Range
  <1> QED BY <1>1, <1>2, <1>3, <1>7, <1>8

\* A finite set can be sorted.
LEMMA SortedExists ==
    ASSUME NEW S, IsFiniteSet(S), NEW R, Orders(R, S)
    PROVE  \E s \in SetToSeqs(S) :
              \A m, n \in DOMAIN s : m < n => <<s[m], s[n]>> \in R
  <1> DEFINE Sorted(T, s) == /\ s \in SetToSeqs(T)
                             /\ \A m, n \in DOMAIN s : m < n => <<s[m], s[n]>> \in R
             Good == {T \in SUBSET S : \E s : Sorted(T, s)}
  <1>1. ASSUME NEW T \in SUBSET S, \A U \in SUBSET T : U # T => U \in Good
        PROVE  T \in Good
    <2>0. IsFiniteSet(T) /\ Orders(R, T)
      BY FS_Subset DEF Orders
    <2>1. CASE T = {}
      <3> DEFINE s == [j \in 1 .. 0 |-> 0]
      <3>1. Cardinality(T) = 0
        BY <2>1, FS_EmptySet
      <3>2. s \in SetToSeqs(T)
        BY <2>1, <3>1 DEF SetToSeqs
      <3>3. Sorted(T, s)
        BY <3>2
      <3> QED BY <3>3
    <2>2. CASE T # {}
      <3>1. PICK x \in T : \A y \in T \ {x} : <<y, x>> \in R
        BY <2>0, <2>2, LastExists
      <3> DEFINE U == T \ {x}
                 l == Cardinality(U)
      <3>2. U \in Good /\ U # T /\ U \subseteq T
        BY <1>1, <3>1
      <3>3. PICK s : Sorted(U, s)
        BY <3>2
      <3>4. IsFiniteSet(U) /\ l \in Nat /\ Cardinality(T) = l + 1
        BY <2>0, <3>1, FS_Subset, FS_CardinalityType, FS_RemoveElement
      <3>5. s \in [1 .. l -> U] /\ \A j, m \in 1 .. l : j # m => s[j] # s[m]
        BY <3>3 DEF SetToSeqs
      <3> HIDE DEF l
      <3> DEFINE t == [j \in 1 .. l + 1 |-> IF j = l + 1 THEN x ELSE s[j]]
      <3>6. \A j \in 1 .. l + 1 : j # l + 1 => j \in 1 .. l /\ t[j] = s[j] /\ s[j] \in U
        BY <3>4, <3>5
      <3>7. t[l + 1] = x /\ l + 1 \in 1 .. l + 1 /\ DOMAIN t = 1 .. l + 1
        BY <3>4
      <3>8. t \in [1 .. l + 1 -> T]
        BY <3>1, <3>6
      <3>9. \A j, m \in 1 .. l + 1 : j # m => t[j] # t[m]
        BY <3>5, <3>6, <3>7
      <3>10. t \in SetToSeqs(T)
        BY <3>4, <3>8, <3>9 DEF SetToSeqs
      <3>11. \A m, n \in 1 .. l + 1 : m < n => <<t[m], t[n]>> \in R
        <4> SUFFICES ASSUME NEW m \in 1 .. l + 1, NEW n \in 1 .. l + 1, m < n
                     PROVE  <<t[m], t[n]>> \in R
          OBVIOUS
        <4>1. m # l + 1 /\ m \in 1 .. l /\ t[m] = s[m] /\ s[m] \in U
          BY <3>4, <3>6
        <4>2. CASE n = l + 1
          BY <3>1, <3>7, <4>1, <4>2
        <4>3. CASE n # l + 1
          BY <3>3, <3>5, <3>6, <4>1, <4>3
        <4> QED BY <4>2, <4>3
      <3>12. Sorted(T, t)
        BY <3>7, <3>10, <3>11
      <3> QED BY <3>12
    <2> QED BY <2>1, <2>2
  <1> HIDE DEF Good
  <1>2. S \in Good
    BY <1>1, FiniteInduction
  <1> QED BY <1>2 DEF Good
-----------------------------------------------------------------------------
(* The inputs, which no step changes.                                      *)

Requests == [a \in AppWrappers |-> ask[a].requests]
Limits == [a \in AppWrappers |-> ask[a].limits]

\* The cluster that a is for.
Home(a) == IF MultiClusterMode THEN assigned[a] ELSE 1

\* The order of the queue.
Precedes(a, b) ==
    \/ priority[a] > priority[b]
    \/ priority[a] = priority[b] /\ Precedence[a] < Precedence[b]

Inputs ==
    /\ priority \in [AppWrappers -> Priorities]
    /\ ask \in [AppWrappers -> Asks]
    /\ inFlight \in SUBSET AppWrappers
    /\ MultiClusterMode => assigned \in [AppWrappers -> DOMAIN Clusters]
    /\ capacity \in [DOMAIN Clusters -> Capacities]
    /\ quota \in Quotas
    /\ turn \in 1 .. Len(Clusters)
    /\ OneQueueEach

\* The types of the inputs.
LEMMA InputTypes ==
    ASSUME Inputs
    PROVE  /\ \A a \in AppWrappers :
                 /\ priority[a] \in Int /\ Precedence[a] \in Int
                 /\ AreWeights(Requests[a]) /\ Requests[a] = ask[a].requests
                 /\ AreWeights(Limits[a]) /\ Limits[a] = ask[a].limits
                 /\ Home(a) \in 1 .. Len(Clusters)
           /\ \A c \in 1 .. Len(Clusters) :
                 /\ AreWeights(capacity[c])
                 /\ OfCluster(c) = {a \in AppWrappers : Home(a) = c}
           /\ \A n \in DOMAIN quota : /\ AreWeights(quota[n].requests)
                                      /\ AreWeights(quota[n].limits)
           /\ \A S : S \subseteq AppWrappers => IsFiniteSet(S)
           /\ Len(Clusters) \in Nat /\ turn \in Nat
  <1>1. ASSUME NEW a \in AppWrappers
        PROVE  /\ priority[a] \in Int /\ Precedence[a] \in Int
               /\ AreWeights(Requests[a]) /\ Requests[a] = ask[a].requests
               /\ AreWeights(Limits[a]) /\ Limits[a] = ask[a].limits
               /\ Home(a) \in 1 .. Len(Clusters)
    <2>1. ask[a] \in Asks /\ priority[a] \in Int /\ Precedence[a] \in Int
      BY SelectAssumption DEF Inputs
    <2>2. Requests[a] = ask[a].requests /\ Limits[a] = ask[a].limits
      BY DEF Requests, Limits
    <2>3. AreWeights(ask[a].requests) /\ AreWeights(ask[a].limits)
      BY <2>1, SelectAssumption DEF AreWeights
    <2>4. Home(a) \in 1 .. Len(Clusters)
      BY SelectAssumption DEF Inputs, Home
    <2> QED BY <2>1, <2>2, <2>3, <2>4
  <1>2. ASSUME NEW c \in 1 .. Len(Clusters)
        PROVE  AreWeights(capacity[c]) /\ OfCluster(c) = {a \in AppWrappers : Home(a) = c}
    <2>1. capacity[c] \in Capacities
      BY SelectAssumption DEF Inputs
    <2>2. AreWeights(capacity[c])
      BY <2>1, SelectAssumption DEF AreWeights
    <2>3. OfCluster(c) = {a \in AppWrappers : Home(a) = c}
      BY SelectAssumption DEF Inputs, OneQueueEach, OfCluster, Home
    <2> QED BY <2>2, <2>3
  <1>3. ASSUME NEW n \in DOMAIN quota
        PROVE  AreWeights(quota[n].requests) /\ AreWeights(quota[n].limits)
    BY SelectAssumption DEF Inputs, AreWeights
  <1>4. \A S : S \subseteq AppWrappers => IsFiniteSet(S)
    BY SelectAssumption, FS_Subset
  <1>5. Len(Clusters) \in Nat /\ turn \in Nat
    BY SelectAssumption DEF Inputs
  <1> QED BY <1>1, <1>2, <1>3, <1>4, <1>5

\* Precedes is a strict order of the AppWrappers.
LEMMA PrecedesOrders ==
    ASSUME Inputs
    PROVE  /\ \A a \in AppWrappers : ~Precedes(a, a)
           /\ \A a, b \in AppWrappers : a # b => Precedes(a, b) \/ Precedes(b, a)
           /\ \A a, b, c \in AppWrappers :
                 Precedes(a, b) /\ Precedes(b, c) => Precedes(a, c)
           /\ \A a, b \in AppWrappers : Precedes(a, b) => ~Precedes(b, a)
           /\ \A a, b \in AppWrappers : Precedes(a, b) => priority[a] >= priority[b]
  <1>1. \A a \in AppWrappers : priority[a] \in Int /\ Precedence[a] \in Int
    BY InputTypes
  <1>2. \A a, b \in AppWrappers : Precedence[a] = Precedence[b] => a = b
    BY SelectAssumption
  <1> QED BY <1>1, <1>2 DEF Precedes

\* The queue of the candidates S, and the priority levels K in order.
QueueOf(S, pri) ==
    CHOOSE s \in SetToSeqs(S) :
        \A m, n \in DOMAIN s : m < n =>
            \/ pri[s[m]] > pri[s[n]]
            \/ pri[s[m]] = pri[s[n]] /\ Precedence[s[m]] < Precedence[s[n]]

KeysOf(K) == CHOOSE s \in SetToSeqs(K) : \A m, n \in DOMAIN s : m < n => s[m] < s[n]

Levels == {priority[a] : a \in OfCluster(turn)}

\* They depend on the inputs and on the cluster alone.
LEMMA QueueIsOf ==
    /\ \A c : Queue(c) = QueueOf(OfCluster(c) \ inFlight, priority)
    /\ Keys = KeysOf(Levels)
  BY DEF Queue, QueueOf, Keys, KeysOf, Levels, InOrder, L!Before

\* The queue holds each candidate once, in order.
LEMMA QueueSorted ==
    ASSUME Inputs, NEW c \in 1 .. Len(Clusters)
    PROVE  /\ Len(Queue(c)) \in Nat
           /\ DOMAIN Queue(c) = 1 .. Len(Queue(c))
           /\ Queue(c) \in [1 .. Len(Queue(c)) -> OfCluster(c) \ inFlight]
           /\ Range(Queue(c)) = OfCluster(c) \ inFlight
           /\ \A a \in OfCluster(c) \ inFlight :
                 \E m \in 1 .. Len(Queue(c)) : Queue(c)[m] = a
           /\ \A m, n \in 1 .. Len(Queue(c)) :
                 m < n => Precedes(Queue(c)[m], Queue(c)[n])
  <1> DEFINE S == OfCluster(c) \ inFlight
             R == {p \in S \X S : Precedes(p[1], p[2])}
             q == QueueOf(S, priority)
  <1>1. S \subseteq AppWrappers /\ IsFiniteSet(S)
    BY InputTypes DEF OfCluster
  <1>2. Orders(R, S)
    <2>1. \A x, y \in S : <<x, y>> \in R <=> Precedes(x, y)
      OBVIOUS
    <2> HIDE DEF R, S
    <2> QED BY <1>1, <2>1, PrecedesOrders DEF Orders
  <1>3. \E s \in SetToSeqs(S) : \A m, n \in DOMAIN s : m < n => <<s[m], s[n]>> \in R
    <2> HIDE DEF R, S
    <2> QED BY <1>1, <1>2, SortedExists
  <1>4. \E s \in SetToSeqs(S) : \A m, n \in DOMAIN s : m < n => Precedes(s[m], s[n])
    BY <1>3
  <1>5. q \in SetToSeqs(S) /\ \A m, n \in DOMAIN q : m < n => Precedes(q[m], q[n])
    <2> HIDE DEF S
    <2> QED BY <1>4 DEF QueueOf, Precedes
  <1>6. Queue(c) = q
    BY QueueIsOf
  <1> HIDE DEF S, q, R
  <1> QED BY <1>1, <1>5, <1>6, SeqsOfSet, ZenonT(40) DEF S

\* The keys are the priority levels, in increasing order.
LEMMA KeysSorted ==
    ASSUME Inputs
    PROVE  /\ Len(Keys) \in Nat
           /\ DOMAIN Keys = 1 .. Len(Keys)
           /\ Keys \in [1 .. Len(Keys) -> Levels]
           /\ Range(Keys) = Levels
           /\ Levels \subseteq Int
           /\ \A p \in Levels : \E m \in 1 .. Len(Keys) : Keys[m] = p
           /\ \A m, n \in 1 .. Len(Keys) : m < n => Keys[m] < Keys[n]
           /\ \A m, n \in 1 .. Len(Keys) : Keys[m] = Keys[n] => m = n
  <1> DEFINE R == {p \in Levels \X Levels : p[1] < p[2]}
             q == KeysOf(Levels)
  <1>1. Levels \subseteq Int
    BY InputTypes DEF Levels, OfCluster
  <1>2. IsFiniteSet(Levels)
    <2> DEFINE S == OfCluster(turn)
    <2>1. IsFiniteSet(S)
      BY InputTypes DEF OfCluster
    <2>2. [a \in S |-> priority[a]] \in Surjection(S, Levels)
      BY DEF Surjection, Levels
    <2> HIDE DEF S
    <2> QED BY <2>1, <2>2, FS_Surjection
  <1>3. Orders(R, Levels)
    <2>1. \A x, y \in Levels : <<x, y>> \in R <=> x < y
      OBVIOUS
    <2> HIDE DEF R
    <2> QED BY <1>1, <2>1 DEF Orders
  <1>4. \E s \in SetToSeqs(Levels) : \A m, n \in DOMAIN s : m < n => <<s[m], s[n]>> \in R
    <2> HIDE DEF R
    <2> QED BY <1>2, <1>3, SortedExists
  <1>5. \E s \in SetToSeqs(Levels) : \A m, n \in DOMAIN s : m < n => s[m] < s[n]
    BY <1>4
  <1>6. q \in SetToSeqs(Levels) /\ \A m, n \in DOMAIN q : m < n => q[m] < q[n]
    BY <1>5 DEF KeysOf
  <1>7. Keys = q
    BY QueueIsOf
  <1> HIDE DEF R, q
  <1> QED BY <1>1, <1>2, <1>6, <1>7, SeqsOfSet

-----------------------------------------------------------------------------
(* The operators of DispatchLogic and QuotaTracker.                        *)

\* They are those of Weights.
LEMMA LogicOperators ==
    /\ L!Zero = Zero
    /\ L!NoWeights = NoWeights
    /\ \A w, r : L!Plus(w, r) = Plus(w, r)
    /\ \A w, r : L!Minus(w, r) = Minus(w, r)
    /\ \A w, r : L!Fits(w, r) <=> Fits(w, r)
    /\ \A w, r : L!PairPlus(w, r) = PairPlus(w, r)
    /\ \A w, r : L!PairQuotaMinus(w, r) = PairQuotaMinus(w, r)
    /\ \A w, r : L!PairFits(w, r) <=> PairFits(w, r)
    /\ \A w, l, r : Q!Satisfies(w, l, r) <=> PairFits(w, PairQuotaMinus(l, r))
  <1>1. L!Zero = Zero
    BY DEF L!Zero, Zero
  <1>2. \A w, k : L!Quantity(w, k) = Quantity(w, k) /\ Q!Quantity(w, k) = Quantity(w, k)
    BY DEF L!Quantity, Q!Quantity, Quantity
  <1>3. \A w, r : L!Plus(w, r) = Plus(w, r)
    BY <1>2 DEF L!Plus, Plus
  <1>4. \A w, r : L!Minus(w, r) = Minus(w, r)
    BY <1>2 DEF L!Minus, Minus
  <1>5. \A w, r : L!Fits(w, r) <=> Fits(w, r)
    BY DEF L!Fits, L!Insufficient, Fits, Insufficient
  <1>6. \A w, r : /\ L!QuotaMinus(w, r) = QuotaMinus(w, r)
                  /\ Q!QuotaMinus(w, r) = QuotaMinus(w, r)
    BY <1>2 DEF L!QuotaMinus, Q!QuotaMinus, QuotaMinus
  <1>7. \A w, r : /\ L!QuotaFits(w, r) <=> QuotaFits(w, r)
                  /\ Q!QuotaFits(w, r) <=> QuotaFits(w, r)
    BY DEF L!QuotaFits, Q!QuotaFits, QuotaFits
  <1>8. \A w, r : /\ L!PairFits(w, r) <=> PairFits(w, r)
                  /\ Q!PairFits(w, r) <=> PairFits(w, r)
    BY <1>7 DEF L!PairFits, Q!PairFits, PairFits
  <1>9. \A w, r : /\ L!PairQuotaMinus(w, r) = PairQuotaMinus(w, r)
                  /\ Q!PairQuotaMinus(w, r) = PairQuotaMinus(w, r)
    BY <1>6 DEF L!PairQuotaMinus, Q!PairQuotaMinus, PairQuotaMinus
  <1>10. \A w, r : L!PairPlus(w, r) = PairPlus(w, r)
    BY <1>3 DEF L!PairPlus, PairPlus
  <1>11. \A w, l, r : Q!Satisfies(w, l, r) <=> PairFits(w, PairQuotaMinus(l, r))
    BY <1>8, <1>9 DEF Q!Satisfies
  <1>12. L!NoWeights = NoWeights
    BY <1>1 DEF L!NoWeights, NoWeights
  <1> QED BY <1>1, <1>3, <1>4, <1>5, <1>8, <1>9, <1>10, <1>11, <1>12

\* The loop that adds up the requests of AppWrappers.
LEMMA TotalOfRequests ==
    ASSUME Inputs, NEW S, S \subseteq AppWrappers
    PROVE  L!Total(LAMBDA a : ask[a].requests, S) = Sum(Requests, S)
  <1> DEFINE Loop(g) == g = [s \in SUBSET S |->
                               IF s = {} THEN Zero
                               ELSE Plus(ask[Pick(s)].requests, g[s \ {Pick(s)}])]
             h == CHOOSE g : Loop(g)
  <1>1. L!Total(LAMBDA a : ask[a].requests, S) = h[S]
    BY DEF L!Total, L!MapThenFoldSet, L!Plus, Plus, L!Zero, Zero, L!Quantity, Quantity,
           Pick
  <1>2. ASSUME NEW g PROVE Loop(g) <=> Adds(Requests, S, g)
    <2>1. \A s \in SUBSET S : s # {} => Requests[Pick(s)] = ask[Pick(s)].requests
      BY DEF Pick, Requests
    <2> QED BY <2>1 DEF Adds
  <1>3. IsFiniteSet(S)
    BY InputTypes
  <1>4. Loop(h)
    <2>1. \E g : Loop(g)
      BY <1>2, <1>3, AddsExists
    <2> HIDE DEF Loop
    <2> QED BY <2>1
  <1>5. Adds(Requests, S, h)
    BY <1>2, <1>4
  <1> QED
    <2> HIDE DEF h
    <2> QED BY <1>1, <1>3, <1>5, SumAdds

\* What an AppWrapper asks for, whose pods are given by one item.
Asked(a) == [requests |-> Requests[a], limits |-> Limits[a]]

\* aggregateRequests and aggregateLimits of an AppWrapper with one item.
LEMMA AskIs ==
    ASSUME Inputs, NEW a \in AppWrappers
    PROVE  /\ L!AggregateRequests[a] = Requests[a]
           /\ L!AggregateLimits[a] = Limits[a]
           /\ L!Ask(a) = Asked(a)
  <1> DEFINE Items == [b \in AppWrappers |->
                         <<[replicas |-> 1, requests |-> ask[b].requests,
                            limits |-> ask[b].limits]>>]
             S == DOMAIN Items[a]
             F == [m \in S |-> Requests[a]]
             G == [m \in S |-> Limits[a]]
  <1>1. AreWeights(Requests[a]) /\ AreWeights(Limits[a])
    BY InputTypes
  <1>2. ASSUME NEW w, AreWeights(w) PROVE L!Scale(1, w) = w
    <2>1. \A k \in DOMAIN w : 1 * w[k] = w[k]
      BY <1>2 DEF AreWeights
    <2> QED BY <1>2, <2>1 DEF L!Scale, AreWeights
  <1>3. /\ S = {1} /\ IsFiniteSet({1}) /\ {1} \ {1} = {} /\ IsFiniteSet({})
        /\ Items[a][1].replicas = 1
        /\ Items[a][1].requests = Requests[a]
        /\ Items[a][1].limits = Limits[a]
    <2>1. Items[a] = <<[replicas |-> 1, requests |-> Requests[a], limits |-> Limits[a]]>>
      BY InputTypes
    <2>2. IsFiniteSet({1}) /\ IsFiniteSet({})
      BY FS_Singleton, FS_EmptySet
    <2> HIDE DEF Items
    <2>3. S = {1}
      BY <2>1
    <2> QED BY <2>1, <2>2, <2>3
  <1>4. ASSUME NEW w, AreWeights(w), NEW H, H[1] = w PROVE Sum(H, {1}) = w
    <2>1. Pick({1}) = 1
      BY DEF Pick
    <2>2. Sum(H, {1}) = Plus(H[Pick({1})], Sum(H, {1} \ {Pick({1})}))
      BY <1>3, SumStep
    <2>3. Sum(H, {}) = Zero
      BY <1>3, SumStep
    <2>4. Sum(H, {1} \ {1}) = Sum(H, {})
      BY <1>3
    <2>5. Plus(w, Zero) = w
      BY <1>4, PlusLaws
    <2> QED BY <1>4, <2>1, <2>2, <2>3, <2>4, <2>5
  <1>5. L!AggregateRequests[a] = Requests[a]
    <2> DEFINE Loop(g) == g = [s \in SUBSET S |->
                                 IF s = {} THEN Zero
                                 ELSE Plus(L!Scale(Items[a][Pick(s)].replicas,
                                                   Items[a][Pick(s)].requests),
                                           g[s \ {Pick(s)}])]
               h == CHOOSE g : Loop(g)
    <2>1. L!AggregateRequests[a] = h[S]
      BY DEF L!AggregateRequests, L!Total, L!MapThenFoldSet, L!Plus, Plus, L!Zero, Zero, L!Quantity,
             Quantity, Pick
    <2>2. ASSUME NEW g PROVE Loop(g) <=> Adds(F, S, g)
      <3>1. \A s \in SUBSET S : s # {} =>
               F[Pick(s)] = L!Scale(Items[a][Pick(s)].replicas, Items[a][Pick(s)].requests)
        <4> SUFFICES ASSUME NEW s \in SUBSET S, s # {}
                     PROVE  F[Pick(s)] = L!Scale(Items[a][Pick(s)].replicas,
                                                 Items[a][Pick(s)].requests)
          OBVIOUS
        <4>1. Pick(s) = 1
          BY <1>3 DEF Pick
        <4>2. F[1] = Requests[a]
          BY <1>3
        <4> HIDE DEF Items, F, G
        <4> QED BY <1>1, <1>2, <1>3, <4>1, <4>2
      <3> HIDE DEF S, F, Items
      <3> QED BY <3>1 DEF Adds
    <2>3. Loop(h)
      <3>1. \E g : Loop(g)
        BY <1>3, <2>2, AddsExists
      <3> HIDE DEF Loop
      <3> QED BY <3>1
    <2>4. Adds(F, S, h)
      BY <2>2, <2>3
    <2>5. F[1] = Requests[a]
      BY <1>3
    <2> HIDE DEF h, F, S
    <2>6. h[S] = Sum(F, S)
      BY <1>3, <2>4, SumAdds
    <2>7. Sum(F, S) = Requests[a]
      BY <1>1, <1>3, <1>4, <2>5
    <2> QED BY <2>1, <2>6, <2>7
  <1>6. L!AggregateLimits[a] = Limits[a]
    <2> DEFINE Loop(g) == g = [s \in SUBSET S |->
                                 IF s = {} THEN Zero
                                 ELSE Plus(L!Scale(Items[a][Pick(s)].replicas,
                                                   Items[a][Pick(s)].limits),
                                           g[s \ {Pick(s)}])]
               h == CHOOSE g : Loop(g)
    <2>1. L!AggregateLimits[a] = h[S]
      BY DEF L!AggregateLimits, L!Total, L!MapThenFoldSet, L!Plus, Plus, L!Zero, Zero, L!Quantity,
             Quantity, Pick
    <2>2. ASSUME NEW g PROVE Loop(g) <=> Adds(G, S, g)
      <3>1. \A s \in SUBSET S : s # {} =>
               G[Pick(s)] = L!Scale(Items[a][Pick(s)].replicas, Items[a][Pick(s)].limits)
        <4> SUFFICES ASSUME NEW s \in SUBSET S, s # {}
                     PROVE  G[Pick(s)] = L!Scale(Items[a][Pick(s)].replicas,
                                                 Items[a][Pick(s)].limits)
          OBVIOUS
        <4>1. Pick(s) = 1
          BY <1>3 DEF Pick
        <4>2. G[1] = Limits[a]
          BY <1>3
        <4> HIDE DEF Items, F, G
        <4> QED BY <1>1, <1>2, <1>3, <4>1, <4>2
      <3> HIDE DEF S, G, Items
      <3> QED BY <3>1 DEF Adds
    <2>3. Loop(h)
      <3>1. \E g : Loop(g)
        BY <1>3, <2>2, AddsExists
      <3> HIDE DEF Loop
      <3> QED BY <3>1
    <2>4. Adds(G, S, h)
      BY <2>2, <2>3
    <2>5. G[1] = Limits[a]
      BY <1>3
    <2> HIDE DEF h, G, S
    <2>6. h[S] = Sum(G, S)
      BY <1>3, <2>4, SumAdds
    <2>7. Sum(G, S) = Limits[a]
      BY <1>1, <1>3, <1>4, <2>5
    <2> QED BY <2>1, <2>6, <2>7
  <1> QED BY <1>5, <1>6 DEF L!Ask, Asked

\* What the AppWrappers of a set ask for together.
AskedBy(S) == [requests |-> Sum(Requests, S), limits |-> Sum(Limits, S)]

\* Those of S in a namespace.
InNamespace(S, n) == {b \in S : Namespace[b] = n}

\* What is in flight on a cluster, at a priority level or above.
Flying(c, p) == {a \in inFlight \cap OfCluster(c) : priority[a] >= p}

\* The sums in DispatchLogic.
LEMMA LogicSums ==
    ASSUME Inputs, NEW S, S \subseteq AppWrappers, NEW c, NEW p, NEW n
    PROVE  /\ L!TotalRequest(S) = Sum(Requests, S)
           /\ L!Reserved(Booked(c), p) = Sum(Requests, Flying(c, p))
           /\ L!Allocated(S, n) = AskedBy(InNamespace(S, n))
  <1>1. L!TotalRequest(S) = Sum(Requests, S)
    <2> DEFINE F == L!AggregateRequests
    <2>1. L!TotalRequest(S) = Sum(F, S)
      BY DEF L!TotalRequest, L!Total, L!MapThenFoldSet, L!Plus, L!Zero, L!Quantity,
             Sum, Adds, Plus, Zero, Quantity, Pick
    <2>2. \A a \in S : F[a] = Requests[a]
      BY AskIs
    <2>3. IsFiniteSet(S)
      BY InputTypes
    <2> HIDE DEF F
    <2> QED BY <2>1, <2>2, <2>3, SumSame
  <1>2. L!Reserved(Booked(c), p) = Sum(Requests, Flying(c, p))
    <2> DEFINE F == Booked(c)
               T == {a \in DOMAIN F : priority[a] >= p}
    <2>1. L!Reserved(F, p) = Sum(F, T)
      <3> HIDE DEF F
      <3> QED BY DEF L!Reserved, L!Total, L!MapThenFoldSet, L!Plus, L!Zero, L!Quantity,
                     Sum, Adds, Plus, Zero, Quantity, Pick
    <2>2. T = Flying(c, p)
      BY DEF Booked, Flying
    <2>3. \A a \in T : F[a] = Requests[a]
      BY DEF Booked, Requests, Inputs
    <2>4. IsFiniteSet(T)
      BY <2>2, InputTypes DEF Flying, Inputs
    <2> HIDE DEF F, T
    <2>5. Sum(F, T) = Sum(Requests, T)
      BY <2>3, <2>4, SumSame
    <2> QED BY <2>1, <2>2, <2>5 DEF F
  <1>3. L!Allocated(S, n) = AskedBy(InNamespace(S, n))
    <2> DEFINE T == {b \in S : Namespace[b] = n}
               Loop(g) == g = [s \in SUBSET T |->
                                 IF s = {} THEN NoWeights
                                 ELSE PairPlus(L!Ask(Pick(s)), g[s \ {Pick(s)}])]
               h == CHOOSE g : Loop(g)
    <2>1. L!Allocated(S, n) = h[T]
      BY DEF L!Allocated, L!PairTotal, L!MapThenFoldSet, L!PairPlus, L!NoWeights,
             L!Plus, L!Zero, L!Quantity, PairPlus, NoWeights, Plus, Zero, Quantity, Pick
    <2>2. ASSUME NEW g PROVE Loop(g) <=> PairAdds(Requests, Limits, T, g)
      <3>1. \A s \in SUBSET T : s # {} =>
               L!Ask(Pick(s)) = [requests |-> Requests[Pick(s)], limits |-> Limits[Pick(s)]]
        <4> SUFFICES ASSUME NEW s \in SUBSET T, s # {}
                     PROVE  L!Ask(Pick(s)) = Asked(Pick(s))
          BY DEF Asked
        <4>1. Pick(s) \in AppWrappers
          BY DEF Pick
        <4> QED BY <4>1, AskIs
      <3> HIDE DEF T
      <3> QED BY <3>1 DEF PairAdds
    <2>3. IsFiniteSet(T)
      BY InputTypes
    <2>4. Loop(h)
      <3>1. \E g : Loop(g)
        BY <2>2, <2>3, PairSum
      <3> HIDE DEF Loop
      <3> QED BY <3>1
    <2>5. PairAdds(Requests, Limits, T, h)
      BY <2>2, <2>4
    <2> HIDE DEF h
    <2>6. h[T] = AskedBy(T)
      BY <2>3, <2>5, PairSum DEF AskedBy
    <2> QED BY <2>1, <2>6 DEF InNamespace
  <1> QED BY <1>1, <1>2, <1>3

-----------------------------------------------------------------------------
(* The inductive invariant.                                                *)

\* The candidates for cluster c that the loop has decided on.
Handled(c) ==
    IF c < turn \/ pc = "done" THEN OfCluster(c) \ inFlight
    ELSE IF c = turn /\ pc = "select" THEN {Queue(c)[m] : m \in 1 .. i - 1}
    ELSE {}

\* What had been selected when a, a candidate for cluster c, was decided on: for
\* that cluster, and altogether.
Earlier(c, a) == {b \in Chosen(c) : Precedes(b, a)}
Prior(c, a) == {b \in Range(selected) : Home(b) < c} \cup Earlier(c, a)

\* The tests that a, a candidate for cluster c, has to pass.
FitsAt(c, a) ==
    Fits(Requests[a], Minus(Minus(capacity[c], Sum(Requests, Flying(c, priority[a]))),
                            Sum(Requests, Earlier(c, a))))

QuotaFitsAt(c, a) ==
    Namespace[a] \in DOMAIN quota =>
        PairFits(Asked(a),
                 PairQuotaMinus(quota[Namespace[a]],
                                AskedBy(InNamespace(Prior(c, a), Namespace[a]))))

\* The types of the variables, and how far the loops have come.
Shapes ==
    /\ Inputs
    /\ pc \in {"build", "assert", "select", "done"}
    /\ selected \in Seq(AppWrappers)
    /\ decided \in [AppWrappers -> {"none", "InsufficientQuota", "InsufficientResources"}]
    /\ pc = "done" => turn = Len(Clusters)
    /\ pc = "select" => i \in 1 .. Len(Queue(turn)) + 1

\* Levels from the last one down to Keys[i] have what is above them added.
Propagated ==
    pc = "assert" =>
        /\ i \in 0 .. Len(Keys)
        /\ Levels # {} => i > 0
        /\ reserved = [p \in Levels |-> reserved[p]]
        /\ \A j \in 1 .. Len(Keys) :
              reserved[Keys[j]] =
                  Sum(Requests, IF j >= i THEN Flying(turn, Keys[j])
                                ELSE {a \in Flying(turn, Keys[j]) : priority[a] = Keys[j]})

\* What is selected for this cluster at level p or above.
Above(p) == {b \in Chosen(turn) : priority[b] >= p}

\* What the two maps of the loop over the queue hold at each level.
Remaining ==
    pc = "select" =>
        /\ reserved = [p \in Levels |-> Sum(Requests, Flying(turn, p))]
        /\ available = [p \in Levels |->
                          Minus(Minus(capacity[turn], Sum(Requests, Flying(turn, p))),
                                Sum(Requests, Above(p)))]

\* The quota tracker has allocated what the selected AppWrappers ask for.
Allocations ==
    allocated = [n \in DOMAIN quota |-> AskedBy(InNamespace(Range(selected), n))]

\* That stays within the quotas.
WithinQuota ==
    \A n \in DOMAIN quota :
        PairFits(AskedBy(InNamespace(Range(selected), n)), quota[n])

\* Only handled candidates are selected, and in the order of the queue.
InQueueOrder ==
    /\ \A c \in 1 .. Len(Clusters) : Chosen(c) \subseteq Handled(c)
    /\ \A m, n \in DOMAIN selected :
          m < n /\ Home(selected[m]) = Home(selected[n])
              => Precedes(selected[m], selected[n])

\* Each handled candidate is selected if it passes both tests, and has the right
\* reason if it does not; the others have none.
RightlyDecided ==
    /\ \A c \in 1 .. Len(Clusters) : \A a \in Handled(c) :
          /\ a \in Chosen(c) <=> FitsAt(c, a) /\ QuotaFitsAt(c, a)
          /\ decided[a] = IF a \in Chosen(c) THEN "none"
                          ELSE IF FitsAt(c, a) THEN "InsufficientQuota"
                          ELSE "InsufficientResources"
    /\ \A a \in AppWrappers : a \notin Handled(Home(a)) => decided[a] = "none"

\* The invariant.
SelectInv ==
    /\ Shapes
    /\ Propagated
    /\ Remaining
    /\ Allocations
    /\ WithinQuota
    /\ InQueueOrder
    /\ RightlyDecided

-----------------------------------------------------------------------------
(* The steps.                                                              *)

\* What depends on the inputs alone does not change.
LEMMA InputsKept ==
    ASSUME UNCHANGED input
    PROVE  /\ Requests' = Requests /\ Limits' = Limits
           /\ \A c : OfCluster(c)' = OfCluster(c)
           /\ \A c : Queue(c)' = Queue(c)
           /\ \A a : Home(a)' = Home(a)
           /\ \A a, b : Precedes(a, b)' <=> Precedes(a, b)
           /\ \A a : Asked(a)' = Asked(a)
           /\ \A S : AskedBy(S)' = AskedBy(S)
           /\ \A c, p : Flying(c, p)' = Flying(c, p)
           /\ turn' = turn => Levels' = Levels /\ Keys' = Keys
  <1>1. /\ priority' = priority /\ ask' = ask /\ inFlight' = inFlight
        /\ assigned' = assigned /\ capacity' = capacity /\ quota' = quota
    BY DEF input
  <1>2. Requests' = Requests /\ Limits' = Limits
    BY <1>1 DEF Requests, Limits
  <1>3. \A c : OfCluster(c)' = OfCluster(c)
    BY <1>1 DEF OfCluster
  <1>4. \A c : Queue(c)' = QueueOf(OfCluster(c)' \ inFlight', priority')
    BY DEF Queue, QueueOf, InOrder, L!Before
  <1>5. \A c : Queue(c)' = Queue(c)
    BY <1>1, <1>3, <1>4, QueueIsOf
  <1>6. \A a : Home(a)' = Home(a)
    BY <1>1 DEF Home
  <1>7. \A a, b : Precedes(a, b)' <=> Precedes(a, b)
    BY <1>1 DEF Precedes
  <1>8. \A S : AskedBy(S)' = AskedBy(S)
    BY <1>2 DEF AskedBy
  <1>9. \A c, p : Flying(c, p)' = Flying(c, p)
    BY <1>1, <1>3 DEF Flying
  <1>10. turn' = turn => Levels' = Levels /\ Keys' = Keys
    <2>1. Keys' = KeysOf(Levels')
      BY DEF Keys, KeysOf, Levels, InOrder
    <2>2. turn' = turn => Levels' = Levels
      BY <1>1, <1>3 DEF Levels
    <2> QED BY <2>1, <2>2, QueueIsOf
  <1>11. \A a : Asked(a)' = Asked(a)
    BY <1>2 DEF Asked
  <1> QED BY <1>2, <1>3, <1>5, <1>6, <1>7, <1>8, <1>9, <1>10, <1>11

\* A step that selects nothing and decides nothing keeps what was decided.
LEMMA DecisionsKept ==
    ASSUME SelectInv, UNCHANGED <<input, selected, decided, allocated>>,
           \A c \in 1 .. Len(Clusters) : Handled(c)' = Handled(c)
    PROVE  Allocations' /\ WithinQuota' /\ InQueueOrder' /\ RightlyDecided'
  <1>0. UNCHANGED input
    OBVIOUS
  <1>1. /\ priority' = priority /\ capacity' = capacity /\ quota' = quota
        /\ selected' = selected /\ decided' = decided /\ allocated' = allocated
    BY DEF input
  <1>2. Requests' = Requests
    BY <1>0, InputsKept
  <1>3. \A c : Chosen(c)' = Chosen(c)
    BY <1>0, <1>1, InputsKept DEF Chosen
  <1>4. \A c, a : Earlier(c, a)' = Earlier(c, a)
    BY <1>0, <1>3, InputsKept DEF Earlier
  <1>5. \A c, a : Prior(c, a)' = Prior(c, a)
    BY <1>0, <1>1, <1>4, InputsKept DEF Prior
  <1>6. \A c, a : FitsAt(c, a)' <=> FitsAt(c, a)
    BY <1>0, <1>1, <1>2, <1>4, InputsKept DEF FitsAt
  <1>7. \A S, n : InNamespace(S, n)' = InNamespace(S, n)
    BY DEF InNamespace
  <1>8. \A c, a : QuotaFitsAt(c, a)' <=> QuotaFitsAt(c, a)
    <2>1. \A S : AskedBy(S)' = AskedBy(S)
      BY <1>0, InputsKept
    <2>2. \A a : Asked(a)' = Asked(a)
      BY <1>0, InputsKept
    <2>3. \A c, a, n : AskedBy(InNamespace(Prior(c, a), n))' =
                          AskedBy(InNamespace(Prior(c, a), n))
      BY <1>2, <1>5, <2>1 DEF AskedBy, InNamespace
    <2> QED BY <1>1, <2>2, <2>3 DEF QuotaFitsAt
  <1>9. Allocations' /\ WithinQuota'
    <2>1. \A n : AskedBy(InNamespace(Range(selected), n))' =
                    AskedBy(InNamespace(Range(selected), n))
      BY <1>0, <1>1, InputsKept DEF InNamespace, AskedBy
    <2> QED BY <1>1, <2>1 DEF Allocations, WithinQuota, SelectInv
  <1>10. InQueueOrder'
    BY <1>0, <1>1, <1>3, InputsKept DEF InQueueOrder, SelectInv
  <1>11. RightlyDecided'
    <2>1. \A a \in AppWrappers : Home(a)' = Home(a) /\ Home(a) \in 1 .. Len(Clusters)
      BY <1>0, InputsKept, InputTypes DEF SelectInv, Shapes
    <2>2. \A a \in AppWrappers : Handled(Home(a))' = Handled(Home(a))
      <3> SUFFICES ASSUME NEW a \in AppWrappers
                   PROVE  Handled(Home(a))' = Handled(Home(a))
        OBVIOUS
      <3>1. Home(a)' = Home(a) /\ Home(a) \in 1 .. Len(Clusters)
        BY <2>1
      <3>2. ASSUME NEW c, c = Home(a) PROVE Handled(Home(a))' = Handled(c)'
        BY <3>1, <3>2 DEF Handled
      <3> QED BY <3>1, <3>2
    <2> QED BY <1>1, <1>3, <1>6, <1>8, <2>2 DEF RightlyDecided, SelectInv
  <1> QED BY <1>9, <1>10, <1>11

\* Nothing is selected at the start.
LEMMA SelectInvInit ==
    ASSUME OneQueueEach
    PROVE  Init => SelectInv
  <1> SUFFICES ASSUME Init PROVE SelectInv
    OBVIOUS
  <1>1. Inputs
    BY SelectAssumption DEF Init, Inputs
  <1>2. Shapes
    BY <1>1, SelectAssumption DEF Init, Shapes
  <1>3. Range(selected) = {} /\ DOMAIN selected = {}
    BY DEF Init, Range
  <1>4. AskedBy({}) = NoWeights
    <2>1. Sum(Requests, {}) = Zero /\ Sum(Limits, {}) = Zero
      BY FS_EmptySet, SumStep
    <2> QED BY <2>1 DEF AskedBy, NoWeights
  <1>5. \A n : InNamespace(Range(selected), n) = {}
    BY <1>3 DEF InNamespace
  <1>6. \A n : AskedBy(InNamespace(Range(selected), n)) = NoWeights
    BY <1>4, <1>5
  <1>7. Allocations
    BY <1>6, LogicOperators DEF Init, Allocations
  <1>8. WithinQuota
    BY <1>6 DEF WithinQuota, PairFits, QuotaFits, NoWeights, Zero
  <1>9. \A c \in 1 .. Len(Clusters) : Handled(c) = {} /\ Chosen(c) = {}
    BY <1>3, SelectAssumption DEF Init, Handled, Chosen
  <1>10. InQueueOrder
    BY <1>3, <1>9 DEF InQueueOrder
  <1>11. RightlyDecided
    BY <1>9 DEF RightlyDecided, Init
  <1> QED BY <1>2, <1>7, <1>8, <1>10, <1>11 DEF SelectInv, Propagated, Remaining, Init

\* buildQueue keeps the invariant: at the last level nothing is to be added.
LEMMA BuildQueueKeeps ==
    ASSUME SelectInv, BuildQueue
    PROVE  SelectInv'
  <1>0. /\ UNCHANGED input /\ pc = "build" /\ pc' = "assert"
        /\ UNCHANGED <<input, selected, decided, allocated>>
        /\ turn' = turn /\ i' = Len(Keys) /\ Inputs
    BY DEF BuildQueue, SelectInv, Shapes
  <1>1. \A c \in 1 .. Len(Clusters) : Handled(c)' = Handled(c)
    BY <1>0, InputsKept DEF Handled, input
  <1>2. Allocations' /\ WithinQuota' /\ InQueueOrder' /\ RightlyDecided'
    BY <1>0, <1>1, DecisionsKept
  <1>3. Shapes'
    BY <1>0 DEF SelectInv, Shapes, Inputs, input
  <1>4. Propagated'
    <2>1. /\ Keys' = Keys /\ Levels' = Levels /\ Requests' = Requests
          /\ \A c, p : Flying(c, p)' = Flying(c, p)
          /\ priority' = priority
      BY <1>0, InputsKept DEF input
    <2>2. /\ Len(Keys) \in Nat
          /\ Keys \in [1 .. Len(Keys) -> Levels]
          /\ Range(Keys) = Levels /\ Levels \subseteq Int
          /\ \A p \in Levels : \E m \in 1 .. Len(Keys) : Keys[m] = p
          /\ \A m, n \in 1 .. Len(Keys) : m < n => Keys[m] < Keys[n]
      BY <1>0, KeysSorted
    <2>3. \A a \in inFlight \cap OfCluster(turn) : priority[a] \in Levels
      BY DEF Levels
    <2> DEFINE At(p) == {a \in Flying(turn, p) : priority[a] = p}
    <2>4. \A p \in Levels : At(p) = {a \in inFlight \cap OfCluster(turn) : priority[a] = p}
      BY <2>2, <2>3 DEF Flying
    <2>5. reserved' = [p \in Levels |-> Sum(Requests, At(p))]
      <3>1. \A p \in Levels :
               L!Total(LAMBDA a : ask[a].requests,
                       {a \in inFlight \cap OfCluster(turn) : priority[a] = p})
                  = Sum(Requests, At(p))
        <4> SUFFICES ASSUME NEW p \in Levels
                     PROVE  L!Total(LAMBDA a : ask[a].requests,
                               {a \in inFlight \cap OfCluster(turn) : priority[a] = p})
                               = Sum(Requests, At(p))
          OBVIOUS
        <4> DEFINE T == {a \in inFlight \cap OfCluster(turn) : priority[a] = p}
        <4>1. T \subseteq AppWrappers
          BY <1>0 DEF Inputs
        <4>2. T = At(p)
          BY <2>4
        <4> HIDE DEF T
        <4>3. L!Total(LAMBDA a : ask[a].requests, T) = Sum(Requests, T)
          BY <1>0, <4>1, TotalOfRequests
        <4> QED BY <4>2, <4>3 DEF T
      <3> QED BY <2>2, <3>1 DEF BuildQueue
    <2>6. \A j \in 1 .. Len(Keys) : j >= Len(Keys) => Flying(turn, Keys[j]) = At(Keys[j])
      <3> SUFFICES ASSUME NEW j \in 1 .. Len(Keys), j >= Len(Keys),
                          NEW a \in Flying(turn, Keys[j])
                   PROVE  priority[a] = Keys[j]
        OBVIOUS
      <3>1. priority[a] \in Levels /\ priority[a] >= Keys[j]
        BY <2>3 DEF Flying
      <3>2. PICK m \in 1 .. Len(Keys) : Keys[m] = priority[a]
        BY <2>2, <3>1
      <3>3. m = j \/ m < j
        BY <2>2
      <3>4. Keys[m] \in Int /\ Keys[j] \in Int
        BY <2>2
      <3> QED BY <2>2, <3>1, <3>2, <3>3, <3>4
    <2>7. \A j \in 1 .. Len(Keys) :
             reserved'[Keys[j]] = Sum(Requests, IF j >= Len(Keys) THEN Flying(turn, Keys[j])
                                                ELSE At(Keys[j]))
      <3> SUFFICES ASSUME NEW j \in 1 .. Len(Keys)
                   PROVE  reserved'[Keys[j]] =
                             Sum(Requests, IF j >= Len(Keys) THEN Flying(turn, Keys[j])
                                           ELSE At(Keys[j]))
        OBVIOUS
      <3>1. Keys[j] \in Levels
        BY <2>2
      <3>2. reserved'[Keys[j]] = Sum(Requests, At(Keys[j]))
        <4> HIDE DEF At
        <4> QED BY <2>5, <3>1
      <3>3. (IF j >= Len(Keys) THEN Flying(turn, Keys[j]) ELSE At(Keys[j])) = At(Keys[j])
        BY <2>6
      <3> HIDE DEF At
      <3> QED BY <3>2, <3>3
    <2>8. reserved' = [p \in Levels |-> reserved'[p]]
      <3> HIDE DEF At
      <3> QED BY <2>5
    <2>9. Levels # {} => Len(Keys) > 0
      <3> SUFFICES ASSUME NEW p \in Levels PROVE Len(Keys) > 0
        OBVIOUS
      <3>1. PICK m \in 1 .. Len(Keys) : Keys[m] = p
        BY <2>2
      <3> QED BY <2>2, <3>1
    <2>10. \A j : /\ At(Keys[j])' = At(Keys[j])
                  /\ Flying(turn, Keys[j])' = Flying(turn, Keys[j])
      <3>1. \A p : Flying(turn, p)' = Flying(turn, p)
        BY <1>0, <2>1 DEF Flying
      <3> QED BY <2>1, <3>1
    <2>11. i' \in 0 .. Len(Keys') /\ (Levels' # {} => i' > 0)
      BY <1>0, <2>1, <2>2, <2>9
    <2>12. \A j \in 1 .. Len(Keys') :
              reserved'[Keys'[j]] =
                 Sum(Requests', IF j >= i' THEN Flying(turn, Keys[j])'
                                ELSE At(Keys[j])')
      <3> HIDE DEF At
      <3> QED BY <1>0, <2>1, <2>7, <2>10
    <2> QED BY <2>1, <2>8, <2>11, <2>12 DEF Propagated
  <1>5. Remaining'
    BY <1>0 DEF Remaining
  <1> QED BY <1>2, <1>3, <1>4, <1>5 DEF SelectInv

\* assertPriorities keeps the invariant: a level and all levels above it, which
\* the next level up has added up, make one sum.
LEMMA AssertPrioritiesKeeps ==
    ASSUME SelectInv, AssertPriorities
    PROVE  SelectInv'
  <1>0. /\ UNCHANGED input /\ pc = "assert"
        /\ UNCHANGED <<input, selected, decided, allocated>>
        /\ turn' = turn /\ Inputs
    BY DEF AssertPriorities, SelectInv, Shapes
  <1>1. /\ Len(Keys) \in Nat
        /\ Keys \in [1 .. Len(Keys) -> Levels]
        /\ Levels \subseteq Int
        /\ \A p \in Levels : \E m \in 1 .. Len(Keys) : Keys[m] = p
        /\ \A m, n \in 1 .. Len(Keys) : m < n => Keys[m] < Keys[n]
        /\ \A m, n \in 1 .. Len(Keys) : Keys[m] = Keys[n] => m = n
    BY <1>0, KeysSorted
  <1> DEFINE At(p) == {a \in Flying(turn, p) : priority[a] = p}
  <1>2. /\ i \in 0 .. Len(Keys)
        /\ Levels # {} => i > 0
        /\ reserved = [p \in Levels |-> reserved[p]]
        /\ \A j \in 1 .. Len(Keys) :
              reserved[Keys[j]] =
                  Sum(Requests, IF j >= i THEN Flying(turn, Keys[j]) ELSE At(Keys[j]))
    BY <1>0 DEF SelectInv, Propagated
  <1>3. /\ Keys' = Keys /\ Levels' = Levels /\ Requests' = Requests
        /\ priority' = priority /\ capacity' = capacity
        /\ \A c : OfCluster(c)' = OfCluster(c) /\ Queue(c)' = Queue(c)
    BY <1>0, InputsKept DEF input
  <1>4. \A p : Flying(turn, p)' = Flying(turn, p) /\ At(p)' = At(p)
    <2>1. \A p : Flying(turn, p)' = Flying(turn, p)
      BY <1>0, <1>3, InputsKept DEF Flying
    <2> QED BY <1>3, <2>1
  <1>5. CASE i > 1
    <2>1. /\ reserved' = [reserved EXCEPT ![Keys[i - 1]] =
                            L!Plus(@, reserved[Keys[i]])]
          /\ i' = i - 1 /\ pc' = pc
      BY <1>5 DEF AssertPriorities
    <2>2. \A c \in 1 .. Len(Clusters) : Handled(c)' = Handled(c)
      BY <1>0, <1>3, <2>1 DEF Handled, input
    <2>3. Allocations' /\ WithinQuota' /\ InQueueOrder' /\ RightlyDecided'
      BY <1>0, <2>2, DecisionsKept
    <2>4. Shapes'
      BY <1>0, <2>1 DEF SelectInv, Shapes, Inputs, input
    <2>5. Remaining'
      BY <1>0, <2>1 DEF Remaining
    <2> DEFINE k == Keys[i - 1]
               l == Keys[i]
    <2>6. /\ i \in 1 .. Len(Keys) /\ i - 1 \in 1 .. Len(Keys) /\ i \in Int
          /\ k \in Levels /\ l \in Levels /\ k \in Int /\ l \in Int /\ k < l
      BY <1>1, <1>2, <1>5
    <2>7. Flying(turn, k) = At(k) \cup Flying(turn, l)
      <3>1. ASSUME NEW a \in Flying(turn, k), priority[a] # k PROVE a \in Flying(turn, l)
        <4>1. priority[a] \in Levels /\ priority[a] >= k /\ a \in inFlight \cap OfCluster(turn)
          BY DEF Flying, Levels
        <4>2. PICK m \in 1 .. Len(Keys) : Keys[m] = priority[a]
          BY <1>1, <4>1
        <4>3. m # i - 1 /\ ~(m < i - 1)
          <5>1. m # i - 1
            BY <3>1, <4>2
          <5>2. m < i - 1 => Keys[m] < k
            BY <1>1, <2>6, <4>2
          <5>3. Keys[m] \in Int /\ Keys[m] >= k
            BY <1>1, <4>1, <4>2
          <5> HIDE DEF k
          <5> QED BY <2>6, <5>1, <5>2, <5>3
        <4>4. m = i \/ i < m
          BY <2>6, <4>3
        <4>5. priority[a] \in Int /\ priority[a] >= l
          <5>1. i < m => l < Keys[m]
            BY <1>1, <2>6, <4>2
          <5>2. m = i => l = Keys[m]
            OBVIOUS
          <5>3. Keys[m] \in Int
            BY <1>1, <4>2
          <5> HIDE DEF l
          <5> QED BY <2>6, <4>2, <4>4, <5>1, <5>2, <5>3
        <4> QED BY <4>1, <4>5 DEF Flying
      <3>2. ASSUME NEW a \in Flying(turn, l) PROVE a \in Flying(turn, k)
        <4>1. priority[a] \in Int /\ priority[a] >= l /\ a \in inFlight \cap OfCluster(turn)
          BY <1>1 DEF Flying, Levels
        <4> QED BY <2>6, <4>1 DEF Flying
      <3> QED BY <3>1, <3>2
    <2>8. At(k) \cap Flying(turn, l) = {}
      BY <2>6 DEF Flying
    <2>9. Sum(Requests, Flying(turn, k)) =
             Plus(Sum(Requests, At(k)), Sum(Requests, Flying(turn, l)))
      <3> DEFINE S == At(k)
                 T == Flying(turn, l)
      <3>1. S \subseteq AppWrappers /\ T \subseteq AppWrappers
        BY <1>0 DEF Flying, Inputs
      <3>2. IsFiniteSet(S) /\ IsFiniteSet(T)
        BY <1>0, <3>1, InputTypes
      <3>3. \A x \in S \cup T : AreWeights(Requests[x])
        BY <1>0, <3>1, InputTypes
      <3>4. S \cap T = {} /\ Flying(turn, k) = S \cup T
        BY <2>7, <2>8
      <3> HIDE DEF S, T
      <3>5. Sum(Requests, S \cup T) = Plus(Sum(Requests, S), Sum(Requests, T))
        BY <3>2, <3>3, <3>4, SumDisjoint
      <3> QED BY <3>4, <3>5 DEF S, T
    <2>10. reserved[k] = Sum(Requests, At(k)) /\ reserved[l] = Sum(Requests, Flying(turn, l))
      <3>1. ~(i - 1 >= i) /\ i >= i
        BY <2>6
      <3> HIDE DEF At
      <3> QED BY <1>2, <2>6, <3>1
    <2>11. reserved'[k] = Sum(Requests, Flying(turn, k))
      <3>1. reserved'[k] = L!Plus(reserved[k], reserved[l])
        BY <1>2, <2>1, <2>6
      <3> HIDE DEF At, k, l
      <3> QED BY <2>9, <2>10, <3>1, LogicOperators
    <2>12. \A j \in 1 .. Len(Keys) :
              reserved'[Keys[j]] =
                 Sum(Requests, IF j >= i - 1 THEN Flying(turn, Keys[j]) ELSE At(Keys[j]))
      <3> SUFFICES ASSUME NEW j \in 1 .. Len(Keys)
                   PROVE  reserved'[Keys[j]] =
                            Sum(Requests, IF j >= i - 1 THEN Flying(turn, Keys[j])
                                          ELSE At(Keys[j]))
        OBVIOUS
      <3>1. CASE j = i - 1
        BY <2>6, <2>11, <3>1
      <3>2. CASE j # i - 1
        <4>1. reserved'[Keys[j]] = reserved[Keys[j]]
          BY <1>1, <1>2, <2>1, <2>6, <3>2
        <4>2. j >= i <=> j >= i - 1
          BY <2>6, <3>2
        <4> HIDE DEF At
        <4> QED BY <1>2, <4>1, <4>2
      <3> QED BY <3>1, <3>2
    <2>13. reserved' = [p \in Levels |-> reserved'[p]]
      BY <1>2, <2>1
    <2>14. \A j \in 1 .. Len(Keys') :
              reserved'[Keys'[j]] =
                 Sum(Requests', IF j >= i' THEN Flying(turn, Keys[j])'
                                ELSE At(Keys[j])')
      <3>1. \A j : /\ At(Keys[j])' = At(Keys[j])
                   /\ Flying(turn, Keys[j])' = Flying(turn, Keys[j])
        BY <1>3, <1>4
      <3> HIDE DEF At
      <3> QED BY <1>3, <2>1, <2>12, <3>1
    <2>15. i' \in 0 .. Len(Keys') /\ i' > 0
      BY <1>2, <1>3, <1>5, <2>1
    <2>16. Propagated'
      BY <1>3, <2>13, <2>14, <2>15 DEF Propagated
    <2> QED BY <2>3, <2>4, <2>5, <2>16 DEF SelectInv
  <1>6. CASE ~(i > 1)
    <2>1. /\ available' = [p \in DOMAIN reserved |-> L!Minus(capacity[turn], reserved[p])]
          /\ i' = 1 /\ pc' = "select" /\ reserved' = reserved
      BY <1>6 DEF AssertPriorities
    <2>2. \A c \in 1 .. Len(Clusters) : Handled(c)' = Handled(c)
      <3> SUFFICES ASSUME NEW c \in 1 .. Len(Clusters) PROVE Handled(c)' = Handled(c)
        OBVIOUS
      <3>1. 1 .. i' - 1 = {}
        BY <2>1
      <3>2. {Queue(c)'[m] : m \in 1 .. i' - 1} = {}
        BY <3>1
      <3> QED BY <1>0, <1>3, <2>1, <3>2 DEF Handled, input
    <2>3. Allocations' /\ WithinQuota' /\ InQueueOrder' /\ RightlyDecided'
      BY <1>0, <2>2, DecisionsKept
    <2>4. Shapes'
      <3>1. Len(Queue(turn)') \in Nat
        BY <1>0, <1>3, QueueSorted DEF Inputs
      <3>2. Queue(turn)' = Queue(turn)
        BY <1>0, <1>3 DEF Queue
      <3>3. i' \in 1 .. Len(Queue(turn)') + 1
        BY <2>1, <3>1
      <3> QED BY <1>0, <2>1, <3>3 DEF SelectInv, Shapes, Inputs, input
    <2>5. Propagated'
      BY <2>1 DEF Propagated
    <2>6. reserved = [p \in Levels |-> Sum(Requests, Flying(turn, p))]
      <3>1. ASSUME NEW p \in Levels PROVE reserved[p] = Sum(Requests, Flying(turn, p))
        <4>1. PICK j \in 1 .. Len(Keys) : Keys[j] = p
          BY <1>1
        <4>2. j >= i
          BY <1>1, <1>2, <1>6
        <4> HIDE DEF At
        <4> QED BY <1>2, <4>1, <4>2
      <3> QED BY <1>2, <3>1
    <2>7. \A p : Above(p)' = {}
      <3>1. turn \in 1 .. Len(Clusters) /\ Handled(turn) = {}
        BY <1>0 DEF Inputs, Handled
      <3>2. Chosen(turn) = {}
        BY <3>1 DEF SelectInv, InQueueOrder
      <3>3. Chosen(turn)' = {}
        BY <1>0, <1>3, <3>2 DEF Chosen
      <3> QED BY <3>3 DEF Above
    <2>8. Sum(Requests', {}) = Zero
      BY FS_EmptySet, SumStep
    <2>9. \A p \in Levels :
             /\ AreWeights(Minus(capacity[turn], Sum(Requests, Flying(turn, p))))
             /\ Minus(Minus(capacity[turn], Sum(Requests, Flying(turn, p))), Zero) =
                   Minus(capacity[turn], Sum(Requests, Flying(turn, p)))
      <3> SUFFICES ASSUME NEW p \in Levels
                   PROVE /\ AreWeights(Minus(capacity[turn], Sum(Requests, Flying(turn, p))))
                         /\ Minus(Minus(capacity[turn], Sum(Requests, Flying(turn, p))), Zero) =
                               Minus(capacity[turn], Sum(Requests, Flying(turn, p)))
        OBVIOUS
      <3> DEFINE S == Flying(turn, p)
      <3>1. S \subseteq AppWrappers
        BY <1>0 DEF Flying, Inputs
      <3>2. IsFiniteSet(S) /\ \A x \in S : AreWeights(Requests[x])
        BY <1>0, <3>1, InputTypes
      <3> HIDE DEF S
      <3>3. AreWeights(Sum(Requests, S)) /\ AreWeights(capacity[turn])
        BY <1>0, <3>2, SumWeights, InputTypes DEF Inputs
      <3>4. AreWeights(Minus(capacity[turn], Sum(Requests, S)))
        BY <3>3, MinusWeights
      <3> QED BY <3>4, MinusLaws DEF S
    <2>10. available' = [p \in Levels |-> Minus(Minus(capacity[turn], Sum(Requests, Flying(turn, p))), Zero)]
      <3>1. DOMAIN reserved = Levels
        BY <2>6
      <3>2. \A p \in Levels : L!Minus(capacity[turn], reserved[p]) =
                Minus(Minus(capacity[turn], Sum(Requests, Flying(turn, p))), Zero)
        BY <2>6, <2>9, LogicOperators
      <3> QED BY <2>1, <3>1, <3>2
    <2>11. Remaining'
      <3>1. \A p : Sum(Requests, Flying(turn, p))' = Sum(Requests, Flying(turn, p))
        BY <1>3, <1>4
      <3>2. \A p : Sum(Requests, Above(p))' = Zero
        BY <2>7, <2>8
      <3>3. capacity[turn]' = capacity[turn]
        BY <1>0, <1>3
      <3> QED BY <1>3, <2>1, <2>6, <2>10, <3>1, <3>2, <3>3 DEF Remaining
    <2> QED BY <2>3, <2>4, <2>5, <2>11 DEF SelectInv
  <1> QED BY <1>5, <1>6

\* Going on with the next cluster keeps the invariant: the queue has been dealt with.
LEMMA NextClusterKeeps ==
    ASSUME SelectInv, NextCluster
    PROVE  SelectInv'
  <1>0. /\ UNCHANGED input /\ pc = "select"
        /\ UNCHANGED <<input, selected, decided, allocated>>
        /\ Inputs /\ turn \in 1 .. Len(Clusters) /\ Len(Clusters) \in Nat
        /\ i \in 1 .. Len(Queue(turn)) + 1 /\ i > Len(Queue(turn))
    BY SelectAssumption DEF NextCluster, SelectInv, Shapes, Inputs
  <1>1. {Queue(turn)[m] : m \in 1 .. i - 1} = OfCluster(turn) \ inFlight
    <2>1. /\ Len(Queue(turn)) \in Nat
          /\ Queue(turn) \in [1 .. Len(Queue(turn)) -> OfCluster(turn) \ inFlight]
          /\ \A a \in OfCluster(turn) \ inFlight :
                \E m \in 1 .. Len(Queue(turn)) : Queue(turn)[m] = a
      BY <1>0, QueueSorted
    <2>2. i - 1 = Len(Queue(turn))
      BY <1>0, <2>1
    <2> QED BY <2>1, <2>2
  <1>2. /\ \A c : OfCluster(c)' = OfCluster(c) /\ inFlight' = inFlight
        /\ turn' \in 1 .. Len(Clusters)
        /\ \/ turn' = turn + 1 /\ pc' = "build"
           \/ turn' = turn /\ turn = Len(Clusters) /\ pc' = "done"
    BY <1>0, InputsKept DEF NextCluster, input
  <1>3. \A c \in 1 .. Len(Clusters) : Handled(c)' = Handled(c)
    <2> SUFFICES ASSUME NEW c \in 1 .. Len(Clusters) PROVE Handled(c)' = Handled(c)
      OBVIOUS
    <2>1. CASE c < turn
      <3>1. c < turn' \/ pc' = "done"
        BY <1>0, <1>2, <2>1
      <3> QED BY <1>2, <2>1, <3>1 DEF Handled
    <2>2. CASE c = turn
      <3>1. c < turn' \/ pc' = "done"
        BY <1>0, <1>2, <2>2
      <3>2. ~(c < turn)
        BY <1>0, <2>2
      <3> QED BY <1>0, <1>1, <1>2, <2>2, <3>1, <3>2 DEF Handled
    <2>3. CASE c > turn
      <3>1. ~(c < turn) /\ c # turn /\ turn' = turn + 1 /\ pc' = "build" /\ ~(c < turn')
        BY <1>0, <1>2, <2>3
      <3> QED BY <1>0, <3>1 DEF Handled
    <2> QED BY <1>0, <2>1, <2>2, <2>3
  <1>4. Allocations' /\ WithinQuota' /\ InQueueOrder' /\ RightlyDecided'
    BY <1>0, <1>3, DecisionsKept
  <1>5. Shapes'
    BY <1>0, <1>2 DEF SelectInv, Shapes, Inputs, input
  <1>6. Propagated' /\ Remaining'
    BY <1>2 DEF Propagated, Remaining
  <1> QED BY <1>4, <1>5, <1>6 DEF SelectInv

\* The loop at its next candidate a: all that was handled for this cluster comes
\* before a in the queue, and all that was selected so far counts against a.
LEMMA NextCandidate ==
    ASSUME SelectInv, pc = "select", i <= Len(Queue(turn)), NEW a, a = Queue(turn)[i]
    PROVE  /\ a \in AppWrappers /\ a \in OfCluster(turn) \ inFlight /\ Home(a) = turn
           /\ a \notin Handled(turn)
           /\ \A b \in Handled(turn) : Precedes(b, a)
           /\ \A c \in 1 .. Len(Clusters) : c > turn => Handled(c) = {}
           /\ Earlier(turn, a) = Chosen(turn)
           /\ Prior(turn, a) = Range(selected)
           /\ Above(priority[a]) = Chosen(turn)
           /\ a \notin Range(selected)
           /\ i \in Nat /\ i \in 1 .. Len(Queue(turn))
  <1>0. /\ Inputs /\ turn \in 1 .. Len(Clusters) /\ Len(Clusters) \in Nat
        /\ i \in 1 .. Len(Queue(turn)) + 1 /\ turn \in Int
        /\ selected \in Seq(AppWrappers)
    BY SelectAssumption DEF SelectInv, Shapes, Inputs
  <1>1. /\ Len(Queue(turn)) \in Nat
        /\ Queue(turn) \in [1 .. Len(Queue(turn)) -> OfCluster(turn) \ inFlight]
        /\ \A m, n \in 1 .. Len(Queue(turn)) :
              m < n => Precedes(Queue(turn)[m], Queue(turn)[n])
    BY <1>0, QueueSorted
  <1>2. i \in Nat /\ i \in 1 .. Len(Queue(turn))
    BY <1>0, <1>1
  <1>3. a \in OfCluster(turn) \ inFlight /\ a \in AppWrappers /\ Home(a) = turn
    BY <1>0, <1>1, <1>2, InputTypes
  <1>4. Handled(turn) = {Queue(turn)[m] : m \in 1 .. i - 1}
    BY <1>0 DEF Handled
  <1>5. \A b \in Handled(turn) : Precedes(b, a) /\ b \in AppWrappers
    <2> SUFFICES ASSUME NEW m \in 1 .. i - 1
                 PROVE  Precedes(Queue(turn)[m], a) /\ Queue(turn)[m] \in AppWrappers
      BY <1>4
    <2>1. m \in 1 .. Len(Queue(turn)) /\ m < i
      BY <1>1, <1>2
    <2> QED BY <1>1, <1>2, <2>1 DEF OfCluster
  <1>6. a \notin Handled(turn)
    BY <1>0, <1>3, <1>5, PrecedesOrders
  <1>7. \A c \in 1 .. Len(Clusters) : c > turn => Handled(c) = {}
    BY <1>0 DEF Handled
  <1>8. Chosen(turn) \subseteq Handled(turn)
    BY <1>0 DEF SelectInv, InQueueOrder
  <1>9. Earlier(turn, a) = Chosen(turn)
    BY <1>5, <1>8 DEF Earlier
  <1>10. Range(selected) \subseteq AppWrappers
    BY <1>0 DEF Range
  <1>11. \A b \in Range(selected) : Home(b) < turn \/ b \in Chosen(turn)
    <2> SUFFICES ASSUME NEW b \in Range(selected)
                 PROVE  Home(b) < turn \/ b \in Chosen(turn)
      OBVIOUS
    <2>1. Home(b) \in 1 .. Len(Clusters) /\ b \in OfCluster(Home(b))
      BY <1>0, <1>10, InputTypes
    <2>2. b \in Chosen(Home(b)) /\ b \in Handled(Home(b))
      BY <2>1 DEF Chosen, SelectInv, InQueueOrder
    <2>3. ~(Home(b) > turn)
      BY <1>7, <2>1, <2>2
    <2> QED BY <1>0, <2>1, <2>2, <2>3
  <1>12. Prior(turn, a) = Range(selected)
    BY <1>9, <1>11 DEF Prior, Chosen
  <1>13. Above(priority[a]) = Chosen(turn)
    BY <1>0, <1>3, <1>5, <1>8, PrecedesOrders DEF Above
  <1>14. a \notin Range(selected)
    BY <1>3, <1>6, <1>8 DEF Chosen
  <1> QED BY <1>2, <1>3, <1>5, <1>6, <1>7, <1>9, <1>12, <1>13, <1>14

\* The tests of the loop.
LEMMA LoopTests ==
    ASSUME SelectInv, pc = "select", i <= Len(Queue(turn)), NEW a, a = Queue(turn)[i]
    PROVE  /\ L!Fits(ask[a].requests, available[priority[a]]) <=> FitsAt(turn, a)
           /\ (Namespace[a] \in DOMAIN quota =>
                  Q!Satisfies(L!Ask(a), quota[Namespace[a]], allocated[Namespace[a]]))
                 <=> QuotaFitsAt(turn, a)
  <1>1. /\ a \in AppWrappers /\ a \in OfCluster(turn)
        /\ Earlier(turn, a) = Chosen(turn)
        /\ Prior(turn, a) = Range(selected)
        /\ Above(priority[a]) = Chosen(turn)
    BY NextCandidate
  <1>2. Inputs
    BY DEF SelectInv, Shapes
  <1>3. ask[a].requests = Requests[a] /\ L!Ask(a) = Asked(a)
    BY <1>1, <1>2, InputTypes, AskIs
  <1>4. priority[a] \in Levels
    BY <1>1 DEF Levels
  <1>5. available[priority[a]] =
           Minus(Minus(capacity[turn], Sum(Requests, Flying(turn, priority[a]))),
                 Sum(Requests, Above(priority[a])))
    BY <1>4 DEF SelectInv, Remaining
  <1>6. L!Fits(ask[a].requests, available[priority[a]]) <=> FitsAt(turn, a)
    BY <1>1, <1>3, <1>5, LogicOperators DEF FitsAt
  <1>7. \A n \in DOMAIN quota : allocated[n] = AskedBy(InNamespace(Range(selected), n))
    BY DEF SelectInv, Allocations
  <1>8. (Namespace[a] \in DOMAIN quota =>
            Q!Satisfies(L!Ask(a), quota[Namespace[a]], allocated[Namespace[a]]))
           <=> QuotaFitsAt(turn, a)
    BY <1>1, <1>3, <1>7, LogicOperators DEF QuotaFitsAt
  <1> QED BY <1>6, <1>8

\* What one turn of the loop does.
LEMMA LoopStep ==
    ASSUME SelectInv, Select, NEW a, a = Queue(turn)[i]
    PROVE  /\ UNCHANGED input /\ pc = "select" /\ pc' = pc /\ turn' = turn
           /\ reserved' = reserved /\ i' = i + 1 /\ i <= Len(Queue(turn))
           /\ \A c \in 1 .. Len(Clusters) :
                 Handled(c)' = IF c = turn THEN Handled(c) \cup {a} ELSE Handled(c)
           /\ \/ /\ FitsAt(turn, a) /\ QuotaFitsAt(turn, a)
                 /\ selected' = Append(selected, a)
                 /\ allocated' = Allocate(a)
                 /\ available' = [p \in DOMAIN available |->
                                    IF p \in LevelsCharged(a)
                                    THEN L!Minus(available[p], ask[a].requests)
                                    ELSE available[p]]
                 /\ decided' = decided
              \/ /\ ~(FitsAt(turn, a) /\ QuotaFitsAt(turn, a))
                 /\ UNCHANGED <<selected, available, allocated>>
                 /\ decided' = [decided EXCEPT ![a] =
                                  IF FitsAt(turn, a) THEN "InsufficientQuota"
                                  ELSE "InsufficientResources"]
  <1>1. /\ UNCHANGED input /\ pc = "select" /\ pc' = pc /\ turn' = turn
        /\ reserved' = reserved /\ i' = i + 1 /\ i <= Len(Queue(turn))
    BY DEF Select
  <1>2. /\ a \in AppWrappers /\ i \in Nat /\ i \in 1 .. Len(Queue(turn))
    BY <1>1, NextCandidate
  <1>3. ASSUME NEW c \in 1 .. Len(Clusters)
        PROVE  Handled(c)' = IF c = turn THEN Handled(c) \cup {a} ELSE Handled(c)
    <2>1. Queue(c)' = Queue(c) /\ OfCluster(c)' = OfCluster(c) /\ inFlight' = inFlight
      BY <1>1, InputsKept DEF input
    <2>2. CASE c # turn
      BY <1>1, <2>1, <2>2 DEF Handled
    <2>3. CASE c = turn
      <3>1. ~(c < turn)
        BY <2>3, SelectAssumption
      <3>2. 1 .. i' - 1 = (1 .. i - 1) \cup {i}
        BY <1>1, <1>2
      <3>3. /\ Handled(c)' = {Queue(c)[m] : m \in 1 .. i' - 1}
            /\ Handled(c) = {Queue(c)[m] : m \in 1 .. i - 1}
        BY <1>1, <2>1, <2>3, <3>1 DEF Handled
      <3> QED BY <2>3, <3>2, <3>3
    <2> QED BY <2>2, <2>3
  <1>4. LET fits      == L!Fits(ask[a].requests, available[priority[a]])
            quotaFits == Namespace[a] \in DOMAIN quota =>
                            Q!Satisfies(L!Ask(a), quota[Namespace[a]],
                                        allocated[Namespace[a]])
        IN  IF fits /\ quotaFits
            THEN /\ selected' = Append(selected, a)
                 /\ allocated' = Allocate(a)
                 /\ available' = [p \in DOMAIN available |->
                                    IF p \in LevelsCharged(a)
                                    THEN L!Minus(available[p], ask[a].requests)
                                    ELSE available[p]]
                 /\ UNCHANGED decided
            ELSE /\ decided' = [decided EXCEPT ![a] =
                                  IF fits THEN "InsufficientQuota"
                                  ELSE "InsufficientResources"]
                 /\ UNCHANGED <<selected, available, allocated>>
    BY DEF Select
  <1> QED BY <1>1, <1>3, <1>4, LoopTests

\* The candidates of the past are not concerned.
LEMMA PastKept ==
    ASSUME SelectInv, Select, NEW a, a = Queue(turn)[i],
           NEW c \in 1 .. Len(Clusters), NEW x \in Handled(c)'
    PROVE  /\ x \in AppWrappers
           /\ FitsAt(c, x)' <=> FitsAt(c, x)
           /\ QuotaFitsAt(c, x)' <=> QuotaFitsAt(c, x)
           /\ x # a => (x \in Chosen(c)' <=> x \in Chosen(c))
  <1>1. /\ UNCHANGED input /\ turn' = turn /\ pc = "select" /\ i <= Len(Queue(turn))
        /\ Handled(c)' = IF c = turn THEN Handled(c) \cup {a} ELSE Handled(c)
        /\ selected' = Append(selected, a) \/ selected' = selected
    BY LoopStep
  <1>2. /\ a \in AppWrappers /\ a \in OfCluster(turn) \ inFlight /\ Home(a) = turn
        /\ \A b \in Handled(turn) : Precedes(b, a)
        /\ \A b \in 1 .. Len(Clusters) : b > turn => Handled(b) = {}
    BY <1>1, NextCandidate
  <1>3. Inputs /\ selected \in Seq(AppWrappers) /\ turn \in 1 .. Len(Clusters)
    BY DEF SelectInv, Shapes, Inputs
  <1>4. Range(selected') = Range(selected) \cup {a} \/ Range(selected') = Range(selected)
    <2>1. ASSUME selected' = Append(selected, a)
          PROVE  Range(selected') = Range(selected) \cup {a}
      <3>1. /\ Len(selected) \in Nat /\ DOMAIN selected = 1 .. Len(selected)
            /\ DOMAIN selected' = 1 .. Len(selected) + 1
            /\ \A m \in 1 .. Len(selected) : selected'[m] = selected[m]
            /\ selected'[Len(selected) + 1] = a
        BY <1>3, <2>1
      <3> QED BY <3>1 DEF Range
    <2> QED BY <1>1, <2>1
  <1>5. x \in AppWrappers /\ (c = turn => ~Precedes(a, x)) /\ c <= turn /\ c \in Int /\ turn \in Int
    <2>1. Handled(c) \subseteq AppWrappers
      <3>1. Queue(c) \in [1 .. Len(Queue(c)) -> OfCluster(c) \ inFlight]
        BY <1>3, QueueSorted
      <3>2. c = turn => i \in Nat /\ i \in 1 .. Len(Queue(c))
        BY <1>1, NextCandidate
      <3> QED BY <3>1, <3>2 DEF Handled, OfCluster
    <2>2. c \in Int /\ turn \in Int
      BY SelectAssumption, <1>3
    <2> QED BY <1>1, <1>2, <1>3, <2>1, <2>2, PrecedesOrders
  <1>6. \A b : b \in Chosen(c)' <=> b \in Chosen(c) \/ (c = turn /\ b = a /\ a \in Range(selected'))
    <2>1. OfCluster(c)' = OfCluster(c) /\ (a \in OfCluster(c) <=> c = turn)
      BY <1>1, <1>2, <1>3, InputsKept, InputTypes
    <2> QED BY <1>4, <2>1 DEF Chosen
  <1>7. Earlier(c, x)' = Earlier(c, x)
    <2>1. \A b : Precedes(b, x)' <=> Precedes(b, x)
      BY <1>1, InputsKept
    <2> QED BY <1>5, <1>6, <2>1 DEF Earlier
  <1>8. Prior(c, x)' = Prior(c, x)
    <2>1. \A b : Home(b)' = Home(b)
      BY <1>1, InputsKept
    <2>2. ~(Home(a) < c)
      BY <1>2, <1>5
    <2>3. {b \in Range(selected') : Home(b) < c} = {b \in Range(selected) : Home(b) < c}
      BY <1>4, <2>2
    <2> QED BY <1>7, <2>1, <2>3 DEF Prior
  <1>9. /\ Requests' = Requests /\ Flying(c, priority[x])' = Flying(c, priority[x])
        /\ capacity' = capacity /\ quota' = quota /\ Asked(x)' = Asked(x)
    BY <1>1, InputsKept DEF input, Flying
  <1>10. FitsAt(c, x)' <=> FitsAt(c, x)
    BY <1>7, <1>9 DEF FitsAt
  <1>11. QuotaFitsAt(c, x)' <=> QuotaFitsAt(c, x)
    <2>1. AskedBy(InNamespace(Prior(c, x), Namespace[x]))' =
             AskedBy(InNamespace(Prior(c, x), Namespace[x]))
      BY <1>1, <1>8, InputsKept DEF AskedBy, InNamespace
    <2> QED BY <1>9, <2>1 DEF QuotaFitsAt
  <1> QED BY <1>5, <1>6, <1>10, <1>11

\* One more AppWrapper in a sum of requests or limits.
LEMMA AskedByInsert ==
    ASSUME Inputs, NEW S, S \subseteq AppWrappers, NEW a \in AppWrappers, a \notin S
    PROVE  /\ AreWeights(Sum(Requests, S)) /\ AreWeights(Sum(Limits, S))
           /\ Sum(Requests, S \cup {a}) = Plus(Sum(Requests, S), Requests[a])
           /\ Sum(Limits, S \cup {a}) = Plus(Sum(Limits, S), Limits[a])
           /\ AskedBy(S \cup {a}) = PairPlus(AskedBy(S), Asked(a))
  <1>1. IsFiniteSet(S)
    BY InputTypes
  <1>2. \A b \in S \cup {a} : AreWeights(Requests[b]) /\ AreWeights(Limits[b])
    BY InputTypes
  <1>3. /\ AreWeights(Sum(Requests, S))
        /\ Sum(Requests, S \cup {a}) = Plus(Sum(Requests, S), Requests[a])
    BY <1>1, <1>2, SumInsert
  <1>4. /\ AreWeights(Sum(Limits, S))
        /\ Sum(Limits, S \cup {a}) = Plus(Sum(Limits, S), Limits[a])
    BY <1>1, <1>2, SumInsert
  <1>5. AskedBy(S \cup {a}) = PairPlus(AskedBy(S), Asked(a))
    BY <1>3, <1>4 DEF AskedBy, Asked, PairPlus
  <1> QED BY <1>3, <1>4, <1>5

\* What fits in what a quota leaves fits in the quota with what was taken from it.
LEMMA QuotaFitsPlus ==
    ASSUME NEW w, NEW r, NEW q, AreWeights(w), AreWeights(r), AreWeights(q),
           QuotaFits(w, q), QuotaFits(r, QuotaMinus(q, w))
    PROVE  QuotaFits(Plus(w, r), q)
  <1> SUFFICES ASSUME NEW k \in DOMAIN Plus(w, r) \cap DOMAIN q, Plus(w, r)[k] > 0
               PROVE  Plus(w, r)[k] <= q[k]
    BY DEF QuotaFits
  <1>1. /\ Plus(w, r)[k] = Quantity(w, k) + Quantity(r, k)
        /\ Quantity(w, k) \in Int /\ Quantity(r, k) \in Int /\ q[k] \in Int
    BY QuantityType DEF Plus, AreWeights
  <1>2. CASE Quantity(r, k) > 0
    <2>1. k \in DOMAIN r /\ r[k] = Quantity(r, k)
      BY <1>2 DEF Quantity
    <2>2. k \in DOMAIN QuotaMinus(q, w) /\ QuotaMinus(q, w)[k] = q[k] - Quantity(w, k)
      BY DEF QuotaMinus
    <2>3. r[k] <= q[k] - Quantity(w, k)
      BY <1>2, <2>1, <2>2 DEF QuotaFits
    <2> QED BY <1>1, <2>1, <2>3
  <1>3. CASE ~(Quantity(r, k) > 0)
    <2>1. Quantity(w, k) > 0
      BY <1>1, <1>3
    <2>2. k \in DOMAIN w /\ w[k] = Quantity(w, k)
      BY <2>1 DEF Quantity
    <2>3. w[k] <= q[k]
      BY <2>1, <2>2 DEF QuotaFits
    <2> QED BY <1>1, <1>3, <2>2, <2>3
  <1> QED BY <1>2, <1>3

\* The quota tracker's allocations, and that they stay within the quotas.
LEMMA SelectAllocates ==
    ASSUME SelectInv, Select
    PROVE  Allocations' /\ WithinQuota'
  <1> DEFINE a == Queue(turn)[i]
  <1>1. /\ UNCHANGED input /\ pc = "select" /\ i <= Len(Queue(turn))
        /\ \/ /\ QuotaFitsAt(turn, a)
              /\ selected' = Append(selected, a)
              /\ allocated' = Allocate(a)
           \/ UNCHANGED <<selected, allocated>>
    BY LoopStep
  <1>2. a \in AppWrappers /\ a \notin Range(selected) /\ Prior(turn, a) = Range(selected)
    BY <1>1, NextCandidate
  <1> HIDE DEF a
  <1>3. Inputs /\ selected \in Seq(AppWrappers) /\ Range(selected) \subseteq AppWrappers
    BY DEF SelectInv, Shapes, Range
  <1>4. quota' = quota /\ \A S : AskedBy(S)' = AskedBy(S)
    BY <1>1, InputsKept DEF input
  <1>5. CASE UNCHANGED <<selected, allocated>>
    <2>1. \A n : AskedBy(InNamespace(Range(selected), n))' =
                    AskedBy(InNamespace(Range(selected), n))
      BY <1>1, <1>5, InputsKept DEF InNamespace, AskedBy
    <2> QED BY <1>4, <1>5, <2>1 DEF Allocations, WithinQuota, SelectInv
  <1>6. CASE /\ QuotaFitsAt(turn, a)
             /\ selected' = Append(selected, a)
             /\ allocated' = Allocate(a)
    <2> DEFINE S(n) == InNamespace(Range(selected), n)
    <2>1. Range(selected') = Range(selected) \cup {a}
      <3>1. /\ Len(selected) \in Nat /\ DOMAIN selected = 1 .. Len(selected)
            /\ DOMAIN selected' = 1 .. Len(selected) + 1
            /\ \A m \in 1 .. Len(selected) : selected'[m] = selected[m]
            /\ selected'[Len(selected) + 1] = a
        BY <1>3, <1>6
      <3> QED BY <3>1 DEF Range
    <2>2. \A n : InNamespace(Range(selected), n)' =
                    IF n = Namespace[a] THEN S(n) \cup {a} ELSE S(n)
      BY <2>1 DEF InNamespace
    <2>3. \A n : S(n) \subseteq AppWrappers /\ a \notin S(n)
      BY <1>2, <1>3 DEF InNamespace
    <2>4. \A n : AskedBy(S(n) \cup {a}) = PairPlus(AskedBy(S(n)), Asked(a))
      <3> SUFFICES ASSUME NEW n PROVE AskedBy(S(n) \cup {a}) = PairPlus(AskedBy(S(n)), Asked(a))
        OBVIOUS
      <3> DEFINE T == S(n)
      <3>1. T \subseteq AppWrappers /\ a \notin T
        BY <2>3
      <3> HIDE DEF T
      <3>2. AskedBy(T \cup {a}) = PairPlus(AskedBy(T), Asked(a))
        BY <1>2, <1>3, <3>1, AskedByInsert
      <3> QED BY <3>2 DEF T
    <2>5. \A n : AskedBy(InNamespace(Range(selected), n))' =
             IF n = Namespace[a] THEN PairPlus(AskedBy(S(n)), Asked(a)) ELSE AskedBy(S(n))
      <3>1. \A n : AskedBy(InNamespace(Range(selected), n))' =
                      AskedBy(InNamespace(Range(selected), n)')
        BY <1>1, InputsKept DEF AskedBy
      <3> HIDE DEF S
      <3> QED BY <2>2, <2>4, <3>1
    <2>6. Allocations'
      <3>1. allocated = [n \in DOMAIN quota |-> AskedBy(S(n))]
        BY DEF SelectInv, Allocations
      <3>2. allocated' = [n \in DOMAIN quota |->
                            IF n = Namespace[a] THEN PairPlus(AskedBy(S(n)), Asked(a))
                            ELSE AskedBy(S(n))]
        <4> HIDE DEF S
        <4> QED BY <1>2, <1>3, <1>6, <3>1, AskIs, LogicOperators DEF Allocate
      <3> HIDE DEF S
      <3> QED BY <1>4, <2>5, <3>2 DEF Allocations
    <2>7. WithinQuota'
      <3>1. \A n \in DOMAIN quota : PairFits(AskedBy(S(n)), quota[n])
        BY DEF SelectInv, WithinQuota
      <3>2. ASSUME NEW n \in DOMAIN quota, n = Namespace[a]
            PROVE  PairFits(PairPlus(AskedBy(S(n)), Asked(a)), quota[n])
        <4> DEFINE T == S(n)
        <4>1. PairFits(Asked(a), PairQuotaMinus(quota[n], AskedBy(T)))
          BY <1>2, <1>6, <3>2 DEF QuotaFitsAt
        <4>2. T \subseteq AppWrappers /\ a \notin T /\ PairFits(AskedBy(T), quota[n])
          BY <2>3, <3>1
        <4> HIDE DEF T
        <4>3. AreWeights(Sum(Requests, T)) /\ AreWeights(Sum(Limits, T))
          BY <1>2, <1>3, <4>2, AskedByInsert
        <4>4. /\ AreWeights(Requests[a]) /\ AreWeights(Limits[a])
              /\ AreWeights(quota[n].requests) /\ AreWeights(quota[n].limits)
          BY <1>2, <1>3, InputTypes
        <4>5. /\ QuotaFits(Sum(Requests, T), quota[n].requests)
              /\ QuotaFits(Sum(Limits, T), quota[n].limits)
          BY <4>2 DEF PairFits, AskedBy
        <4>6. /\ QuotaFits(Requests[a], QuotaMinus(quota[n].requests, Sum(Requests, T)))
              /\ QuotaFits(Limits[a], QuotaMinus(quota[n].limits, Sum(Limits, T)))
          BY <4>1 DEF PairFits, PairQuotaMinus, Asked, AskedBy
        <4>7. /\ QuotaFits(Plus(Sum(Requests, T), Requests[a]), quota[n].requests)
              /\ QuotaFits(Plus(Sum(Limits, T), Limits[a]), quota[n].limits)
          BY <4>3, <4>4, <4>5, <4>6, QuotaFitsPlus
        <4>8. PairFits(PairPlus(AskedBy(T), Asked(a)), quota[n])
          BY <4>7 DEF PairFits, PairPlus, AskedBy, Asked
        <4> QED BY <4>8 DEF T
      <3> HIDE DEF S
      <3> QED BY <1>4, <2>5, <3>1, <3>2 DEF WithinQuota
    <2> QED BY <2>6, <2>7
  <1> QED BY <1>1, <1>5, <1>6

\* What selecting a does to the sequence.
LEMMA SelectAppends ==
    ASSUME SelectInv, NEW a \in AppWrappers, selected' = Append(selected, a)
    PROVE  /\ selected' \in Seq(AppWrappers)
           /\ Range(selected') = Range(selected) \cup {a}
           /\ Len(selected) \in Nat /\ DOMAIN selected = 1 .. Len(selected)
           /\ DOMAIN selected' = 1 .. Len(selected) + 1
           /\ \A m \in 1 .. Len(selected) :
                 selected'[m] = selected[m] /\ selected[m] \in AppWrappers
           /\ selected'[Len(selected) + 1] = a
  <1>1. selected \in Seq(AppWrappers)
    BY DEF SelectInv, Shapes
  <1>2. /\ Len(selected) \in Nat /\ DOMAIN selected = 1 .. Len(selected)
        /\ selected' \in Seq(AppWrappers)
        /\ DOMAIN selected' = 1 .. Len(selected) + 1
        /\ \A m \in 1 .. Len(selected) :
              selected'[m] = selected[m] /\ selected[m] \in AppWrappers
        /\ selected'[Len(selected) + 1] = a
    BY <1>1
  <1>3. Range(selected') = Range(selected) \cup {a}
    BY <1>2 DEF Range
  <1> QED BY <1>2, <1>3

\* What is left for the levels at or below that of what was selected shrinks.
LEMMA SelectCharges ==
    ASSUME SelectInv, Select
    PROVE  Remaining'
  <1> DEFINE a == Queue(turn)[i]
  <1>1. /\ UNCHANGED input /\ pc = "select" /\ i <= Len(Queue(turn)) /\ turn' = turn
        /\ reserved' = reserved
        /\ \/ /\ selected' = Append(selected, a)
              /\ available' = [p \in DOMAIN available |->
                                 IF p \in LevelsCharged(a)
                                 THEN L!Minus(available[p], ask[a].requests)
                                 ELSE available[p]]
           \/ UNCHANGED <<selected, available>>
    BY LoopStep
  <1>2. a \in AppWrappers /\ a \notin Range(selected) /\ a \in OfCluster(turn)
    BY <1>1, NextCandidate
  <1> HIDE DEF a
  <1>3. /\ Inputs /\ Range(selected) \subseteq AppWrappers
        /\ turn \in 1 .. Len(Clusters)
    BY DEF SelectInv, Shapes, Range, Inputs
  <1>4. /\ Requests' = Requests /\ Levels' = Levels
        /\ priority' = priority /\ capacity' = capacity
        /\ OfCluster(turn)' = OfCluster(turn)
        /\ \A p : Flying(turn, p)' = Flying(turn, p)
    BY <1>1, InputsKept DEF input, OfCluster, Flying
  <1>5. /\ reserved = [p \in Levels |-> Sum(Requests, Flying(turn, p))]
        /\ available = [p \in Levels |->
                          Minus(Minus(capacity[turn], Sum(Requests, Flying(turn, p))),
                                Sum(Requests, Above(p)))]
    BY <1>1 DEF SelectInv, Remaining
  <1>6. ASSUME available' = [p \in Levels |->
                   Minus(Minus(capacity[turn], Sum(Requests, Flying(turn, p))),
                         Sum(Requests, Above(p)'))]
        PROVE  Remaining'
    <2>1. \A p : Sum(Requests, Flying(turn, p))' = Sum(Requests, Flying(turn, p))
      BY <1>4
    <2>2. \A p : Sum(Requests, Above(p))' = Sum(Requests, Above(p)')
      BY <1>4
    <2>3. capacity[turn]' = capacity[turn]
      BY <1>1, <1>4
    <2> QED BY <1>1, <1>4, <1>5, <1>6, <2>1, <2>2, <2>3 DEF Remaining
  <1>7. CASE UNCHANGED <<selected, available>>
    <2>1. \A p : Above(p)' = Above(p)
      BY <1>4, <1>7 DEF Above, Chosen
    <2> QED BY <1>5, <1>6, <1>7, <2>1
  <1>8. CASE /\ selected' = Append(selected, a)
             /\ available' = [p \in DOMAIN available |->
                                 IF p \in LevelsCharged(a)
                                 THEN L!Minus(available[p], ask[a].requests)
                                 ELSE available[p]]
    <2>1. Range(selected') = Range(selected) \cup {a}
      BY <1>2, <1>8, SelectAppends
    <2>2. \A p : Above(p)' = IF p <= priority[a] THEN Above(p) \cup {a} ELSE Above(p)
      <3>1. \A p : priority[a] >= p <=> p <= priority[a]
        OBVIOUS
      <3> QED BY <1>2, <1>4, <2>1, <3>1 DEF Above, Chosen
    <2>3. ASSUME NEW p \in Levels
          PROVE  available'[p] =
                    Minus(Minus(capacity[turn], Sum(Requests, Flying(turn, p))),
                          Sum(Requests, Above(p)'))
      <3> DEFINE S == Above(p)
                 w == Minus(capacity[turn], Sum(Requests, Flying(turn, p)))
      <3>1. S \subseteq AppWrappers /\ a \notin S
        BY <1>2, <1>3 DEF Above, Chosen
      <3>2. AreWeights(w)
        <4> DEFINE F == Flying(turn, p)
        <4>1. F \subseteq AppWrappers
          BY <1>3 DEF Flying, Inputs
        <4>2. IsFiniteSet(F) /\ \A x \in F : AreWeights(Requests[x])
          BY <1>3, <4>1, InputTypes
        <4> HIDE DEF F
        <4>3. AreWeights(Sum(Requests, F)) /\ AreWeights(capacity[turn])
          BY <1>3, <4>2, SumWeights, InputTypes
        <4> QED BY <4>3, MinusWeights DEF F
      <3>3. available[p] = Minus(w, Sum(Requests, S)) /\ p \in DOMAIN available
        BY <1>5
      <3>4. /\ ask[a].requests = Requests[a] /\ AreWeights(Requests[a])
        BY <1>2, <1>3, InputTypes
      <3>5. p \in LevelsCharged(a) <=> p <= priority[a]
        BY <3>3 DEF LevelsCharged
      <3>6. Above(p)' = IF p <= priority[a] THEN S \cup {a} ELSE S
        BY <2>2
      <3> HIDE DEF S, w
      <3>7. available'[p] = IF p <= priority[a] THEN Minus(available[p], Requests[a])
                            ELSE available[p]
        BY <1>8, <3>3, <3>4, <3>5, LogicOperators
      <3>8. /\ AreWeights(Sum(Requests, S))
            /\ Sum(Requests, S \cup {a}) = Plus(Sum(Requests, S), Requests[a])
        BY <1>2, <1>3, <3>1, AskedByInsert
      <3>9. Minus(Minus(w, Sum(Requests, S)), Requests[a]) =
               Minus(w, Plus(Sum(Requests, S), Requests[a]))
        BY <3>2, <3>4, <3>8, MinusLaws
      <3>10. available'[p] = Minus(w, Sum(Requests, Above(p)'))
        <4>1. CASE p <= priority[a]
          BY <3>3, <3>6, <3>7, <3>8, <3>9, <4>1
        <4>2. CASE ~(p <= priority[a])
          BY <3>3, <3>6, <3>7, <4>2
        <4> QED BY <4>1, <4>2
      <3> QED BY <3>10 DEF w
    <2>4. available' = [p \in Levels |->
                   Minus(Minus(capacity[turn], Sum(Requests, Flying(turn, p))),
                         Sum(Requests, Above(p)'))]
      BY <1>5, <1>8, <2>3
    <2> QED BY <1>6, <2>4
  <1> QED BY <1>1, <1>7, <1>8

\* Decisions, in queue order.
LEMMA SelectDecides ==
    ASSUME SelectInv, Select
    PROVE  Shapes' /\ InQueueOrder' /\ RightlyDecided'
  <1> DEFINE a == Queue(turn)[i]
             right == IF FitsAt(turn, a) THEN "InsufficientQuota" ELSE "InsufficientResources"
  <1>1. /\ UNCHANGED input /\ pc = "select" /\ pc' = pc /\ i <= Len(Queue(turn))
        /\ turn' = turn /\ i' = i + 1
        /\ \A c \in 1 .. Len(Clusters) :
              Handled(c)' = IF c = turn THEN Handled(c) \cup {a} ELSE Handled(c)
        /\ \/ /\ FitsAt(turn, a) /\ QuotaFitsAt(turn, a)
              /\ selected' = Append(selected, a)
              /\ decided' = decided
           \/ /\ ~(FitsAt(turn, a) /\ QuotaFitsAt(turn, a))
              /\ selected' = selected
              /\ decided' = [decided EXCEPT ![a] = right]
    BY LoopStep
  <1>2. /\ a \in AppWrappers /\ a \notin Range(selected) /\ Home(a) = turn
        /\ a \in OfCluster(turn) \ inFlight
        /\ a \notin Handled(turn) /\ \A b \in Handled(turn) : Precedes(b, a)
        /\ i \in Nat /\ i \in 1 .. Len(Queue(turn))
    BY <1>1, NextCandidate
  <1>3. ASSUME NEW c \in 1 .. Len(Clusters), NEW x \in Handled(c)'
        PROVE  /\ x \in AppWrappers
               /\ FitsAt(c, x)' <=> FitsAt(c, x)
               /\ QuotaFitsAt(c, x)' <=> QuotaFitsAt(c, x)
               /\ x # a => (x \in Chosen(c)' <=> x \in Chosen(c))
    BY PastKept
  <1> HIDE DEF a
  <1>4. /\ Inputs /\ selected \in Seq(AppWrappers) /\ Range(selected) \subseteq AppWrappers
        /\ turn \in 1 .. Len(Clusters)
        /\ decided \in [AppWrappers -> {"none", "InsufficientQuota", "InsufficientResources"}]
    BY DEF SelectInv, Shapes, Range, Inputs
  <1>5. /\ \A c : OfCluster(c)' = OfCluster(c)
        /\ \A b : Home(b)' = Home(b)
        /\ \A b, d : Precedes(b, d)' <=> Precedes(b, d)
        /\ Queue(turn)' = Queue(turn)
    BY <1>1, InputsKept DEF Queue
  <1>6. Shapes'
    <2>1. selected' \in Seq(AppWrappers)
      BY <1>1, <1>2, <1>4, SelectAppends
    <2>2. decided' \in [AppWrappers -> {"none", "InsufficientQuota", "InsufficientResources"}]
      BY <1>1, <1>2, <1>4
    <2>3. i' \in 1 .. Len(Queue(turn)') + 1
      <3>1. Len(Queue(turn)) \in Nat
        BY <1>4, QueueSorted
      <3> QED BY <1>1, <1>2, <1>5, <3>1
    <2>4. Inputs'
      BY <1>1, <1>4 DEF Inputs, input
    <2> QED BY <1>1, <2>1, <2>2, <2>3, <2>4 DEF Shapes, SelectInv
  <1>7. \A c \in 1 .. Len(Clusters) : Chosen(c) \subseteq Handled(c)
    BY DEF SelectInv, InQueueOrder
  <1>8. \A c \in 1 .. Len(Clusters) : Chosen(c)' \subseteq Handled(c)'
    <2> SUFFICES ASSUME NEW c \in 1 .. Len(Clusters), NEW x \in Chosen(c)'
                 PROVE  x \in Handled(c)'
      OBVIOUS
    <2>1. x \in OfCluster(c) /\ (x \in Range(selected) \/ x = a)
      BY <1>1, <1>2, <1>5, SelectAppends DEF Chosen
    <2>2. CASE x \in Range(selected)
      BY <1>1, <1>7, <2>1, <2>2 DEF Chosen
    <2>3. CASE x = a
      <3>1. c = turn
        BY <1>2, <1>4, <2>1, <2>3, InputTypes
      <3> QED BY <1>1, <2>3, <3>1
    <2> QED BY <2>1, <2>2, <2>3
  <1>9. InQueueOrder'
    <2>1. \A m, n \in DOMAIN selected :
             m < n /\ Home(selected[m]) = Home(selected[n])
                 => Precedes(selected[m], selected[n])
      BY DEF SelectInv, InQueueOrder
    <2>2. CASE selected' = selected
      <3>1. \A m, n \in DOMAIN selected' :
               m < n /\ Home(selected'[m]) = Home(selected'[n])
                  => Precedes(selected'[m], selected'[n])
        BY <2>1, <2>2
      <3>2. /\ \A m : Home(selected[m])' = Home(selected'[m])
            /\ \A m, n : Precedes(selected[m], selected[n])' <=>
                            Precedes(selected'[m], selected'[n])
        BY <1>1 DEF Home, Precedes, input
      <3> QED BY <1>8, <3>1, <3>2 DEF InQueueOrder
    <2>3. CASE selected' = Append(selected, a)
      <3>1. /\ Len(selected) \in Nat /\ DOMAIN selected = 1 .. Len(selected)
            /\ DOMAIN selected' = 1 .. Len(selected) + 1
            /\ \A m \in 1 .. Len(selected) :
                  selected'[m] = selected[m] /\ selected[m] \in AppWrappers
            /\ selected'[Len(selected) + 1] = a
        BY <1>2, <2>3, SelectAppends
      <3>2. ASSUME NEW m \in DOMAIN selected', NEW n \in DOMAIN selected', m < n,
                   Home(selected'[m]) = Home(selected'[n])
            PROVE  Precedes(selected'[m], selected'[n])
        <4>1. m \in 1 .. Len(selected) /\ selected'[m] = selected[m]
          BY <3>1, <3>2
        <4>2. CASE n \in 1 .. Len(selected)
          BY <2>1, <3>1, <3>2, <4>1, <4>2
        <4>3. CASE n = Len(selected) + 1
          <5>1. Home(selected[m]) = turn /\ selected[m] \in AppWrappers
            BY <1>2, <3>1, <3>2, <4>1, <4>3
          <5>2. selected[m] \in Chosen(turn)
            BY <1>4, <3>1, <4>1, <5>1, InputTypes DEF Chosen, Range
          <5>3. Precedes(selected[m], a)
            BY <1>2, <1>4, <1>7, <5>2
          <5> QED BY <3>1, <4>1, <4>3, <5>3
        <4> QED BY <3>1, <4>2, <4>3
      <3>3. /\ \A m : Home(selected[m])' = Home(selected'[m])
            /\ \A m, n : Precedes(selected[m], selected[n])' <=>
                            Precedes(selected'[m], selected'[n])
        BY <1>1 DEF Home, Precedes, input
      <3> QED BY <1>8, <3>2, <3>3 DEF InQueueOrder
    <2> QED BY <1>1, <2>2, <2>3
  <1>10. a \in Chosen(turn)' <=> FitsAt(turn, a) /\ QuotaFitsAt(turn, a)
    <2>1. a \in OfCluster(turn)'
      BY <1>1, <1>2 DEF OfCluster, input
    <2>2. CASE selected' = selected
      <3>1. a \notin Chosen(turn)'
        BY <1>2, <2>2 DEF Chosen
      <3>2. selected # Append(selected, a)
        BY <1>4
      <3> QED BY <1>1, <2>2, <3>1, <3>2
    <2>3. CASE selected' = Append(selected, a)
      <3>1. a \in Chosen(turn)'
        BY <1>2, <2>1, <2>3, SelectAppends DEF Chosen
      <3>2. selected # Append(selected, a)
        BY <1>4
      <3> QED BY <1>1, <2>3, <3>1, <3>2
    <2> QED BY <1>1, <2>2, <2>3
  <1>11. /\ \A x \in AppWrappers : x # a => decided'[x] = decided[x]
         /\ decided'[a] = IF FitsAt(turn, a) /\ QuotaFitsAt(turn, a) THEN decided[a] ELSE right
    BY <1>1, <1>2, <1>4
  <1>12. decided[a] = "none"
    BY <1>2 DEF SelectInv, RightlyDecided
  <1>13. ASSUME NEW c \in 1 .. Len(Clusters), NEW x \in Handled(c)'
         PROVE  /\ x \in Chosen(c)' <=> FitsAt(c, x)' /\ QuotaFitsAt(c, x)'
                /\ decided'[x] = IF x \in Chosen(c)' THEN "none"
                                 ELSE IF FitsAt(c, x)' THEN "InsufficientQuota"
                                 ELSE "InsufficientResources"
    <2>1. /\ x \in AppWrappers
          /\ FitsAt(c, x)' <=> FitsAt(c, x)
          /\ QuotaFitsAt(c, x)' <=> QuotaFitsAt(c, x)
          /\ x # a => (x \in Chosen(c)' <=> x \in Chosen(c))
      BY <1>3
    <2>2. CASE x = a
      <3>1. c = turn
        <4>1. c # turn => a \in Handled(c)
          BY <1>1, <1>13, <2>2
        <4>2. c # turn /\ a \in Handled(c) => a \in OfCluster(c)
          BY DEF Handled
        <4>3. Home(a) = turn
          BY <1>2
        <4>4. a \in OfCluster(c) => Home(a) = c
          BY <1>2, <1>4, InputTypes
        <4> QED BY <4>1, <4>2, <4>3, <4>4
      <3>2. Chosen(c)' = Chosen(turn)'
        BY <1>1, <1>5, <3>1 DEF Chosen, OfCluster
      <3>3. FitsAt(c, x) = FitsAt(turn, a) /\ QuotaFitsAt(c, x) = QuotaFitsAt(turn, a)
        BY <2>2, <3>1
      <3>4. /\ x \in Chosen(c)' <=> FitsAt(turn, a) /\ QuotaFitsAt(turn, a)
            /\ decided'[x] = IF FitsAt(turn, a) /\ QuotaFitsAt(turn, a) THEN "none"
                             ELSE right
        BY <1>10, <1>11, <1>12, <2>2, <3>2
      <3> QED BY <2>1, <3>3, <3>4
    <2>3. CASE x # a
      <3>1. x \in Handled(c)
        BY <1>1, <1>13, <2>3
      <3>2. /\ x \in Chosen(c) <=> FitsAt(c, x) /\ QuotaFitsAt(c, x)
            /\ decided[x] = IF x \in Chosen(c) THEN "none"
                            ELSE IF FitsAt(c, x) THEN "InsufficientQuota"
                            ELSE "InsufficientResources"
        BY <3>1 DEF SelectInv, RightlyDecided
      <3> QED BY <1>11, <2>1, <2>3, <3>2
    <2> QED BY <2>2, <2>3
  <1>14. ASSUME NEW x \in AppWrappers, x \notin Handled(Home(x))'
         PROVE  decided'[x] = "none"
    <2>0. Home(x)' = Home(x)
      BY <1>5
    <2>1. PICK h \in 1 .. Len(Clusters) : h = Home(x)
      BY <1>4, InputTypes
    <2>2. Handled(Home(x))' = Handled(h)'
      BY <2>0, <2>1 DEF Handled
    <2>3. x \notin Handled(h) /\ (h = turn => x # a)
      BY <1>1, <1>14, <2>1, <2>2
    <2>4. x # a
      BY <1>2, <2>1, <2>3
    <2>5. decided[x] = "none"
      BY <2>1, <2>3 DEF SelectInv, RightlyDecided
    <2> QED BY <1>11, <2>4, <2>5
  <1>15. RightlyDecided'
    BY <1>13, <1>14 DEF RightlyDecided
  <1> QED BY <1>6, <1>9, <1>15

\* What Select makes of the invariant.
LEMMA SelectKeeps ==
    ASSUME SelectInv, Select
    PROVE  SelectInv'
  <1>1. Propagated'
    BY DEF Select, Propagated
  <1> QED BY <1>1, SelectAllocates, SelectCharges, SelectDecides DEF SelectInv

\* A step that changes nothing.
LEMMA StutterKeeps ==
    ASSUME SelectInv, UNCHANGED vars
    PROVE  SelectInv'
  <1>1. UNCHANGED input /\ UNCHANGED <<pc, turn, reserved, available, i, allocated, selected, decided>>
    BY DEF vars
  <1>2. /\ pc' = pc /\ turn' = turn /\ reserved' = reserved /\ available' = available
        /\ i' = i /\ allocated' = allocated /\ selected' = selected /\ decided' = decided
        /\ capacity' = capacity /\ priority' = priority
    BY <1>1 DEF input
  <1>3. /\ Requests' = Requests /\ \A c : OfCluster(c)' = OfCluster(c)
        /\ \A c, p : Flying(c, p)' = Flying(c, p)
        /\ Levels' = Levels /\ Keys' = Keys
        /\ \A c : Queue(c)' = Queue(c)
    <2>1. Requests' = Requests /\ \A c : OfCluster(c)' = OfCluster(c)
      BY <1>1, InputsKept
    <2>2. inFlight' = inFlight
      BY <1>1 DEF input
    <2>3. Levels' = Levels
      BY <1>2, <2>1 DEF Levels, OfCluster
    <2>4. /\ \A c, p : Flying(c, p)' = Flying(c, p)
          /\ Keys' = Keys
          /\ \A c : Queue(c)' = Queue(c)
      BY <1>1, <1>2, InputsKept
    <2> QED BY <2>1, <2>3, <2>4
  <1>4. Queue(turn)' = Queue(turn)
    BY <1>2, <1>3 DEF Queue, OfCluster
  <1>5. Shapes'
    <2>1. Inputs'
      BY <1>1, <1>2 DEF Inputs, input, SelectInv, Shapes
    <2> QED BY <1>2, <1>4, <2>1 DEF Shapes, SelectInv
  <1>6. Allocations' /\ WithinQuota' /\ InQueueOrder' /\ RightlyDecided'
    <2>1. \A c \in 1 .. Len(Clusters) : Handled(c)' = Handled(c)
      BY <1>1, <1>2, <1>3 DEF Handled, input
    <2>2. UNCHANGED <<input, selected, decided, allocated>>
      BY <1>1
    <2> QED BY <2>1, <2>2, DecisionsKept
  <1>7. Propagated'
    <2>1. \A j : /\ Flying(turn, Keys[j])' = Flying(turn, Keys[j])
                 /\ Keys[j]' = Keys[j] /\ reserved[Keys[j]]' = reserved[Keys[j]]
      BY <1>1, <1>2, <1>3 DEF Flying, OfCluster, input
    <2> DEFINE Seen(j) == IF j >= i THEN Flying(turn, Keys[j])
                          ELSE {a \in Flying(turn, Keys[j]) : priority[a] = Keys[j]}
    <2>2. \A j : Seen(j)' = Seen(j)
      BY <1>2, <2>1
    <2>3. \A j : Sum(Requests, Seen(j))' = Sum(Requests, Seen(j))
      <3> HIDE DEF Seen
      <3> QED BY <1>3, <2>2
    <2>4. pc = "assert" => \A j \in 1 .. Len(Keys) :
                              reserved[Keys[j]] = Sum(Requests, Seen(j))
      BY DEF Propagated, SelectInv
    <2>5. pc' = "assert" => \A j \in 1 .. Len(Keys)' :
                               reserved[Keys[j]]' = Sum(Requests, Seen(j))'
      <3> HIDE DEF Seen
      <3> QED BY <1>2, <1>3, <2>1, <2>3, <2>4
    <2>6. pc' = "assert" => /\ i' \in 0 .. Len(Keys)'
                            /\ Levels' # {} => i' > 0
                            /\ reserved' = [p \in Levels' |-> reserved'[p]]
      BY <1>2, <1>3 DEF Propagated, SelectInv
    <2> QED BY <2>5, <2>6 DEF Propagated
  <1>8. Remaining'
    <2>1. \A p : Flying(turn, p)' = Flying(turn, p) /\ Above(p)' = Above(p)
      BY <1>1, <1>2, <1>3 DEF Flying, Above, Chosen, OfCluster, input
    <2> QED BY <1>2, <1>3, <2>1 DEF Remaining, SelectInv
  <1> QED BY <1>5, <1>6, <1>7, <1>8 DEF SelectInv

\* SelectInv is an inductive invariant of the loops of dispatch_logic.go.
THEOREM SelectInvariant ==
    ASSUME OneQueueEach
    PROVE  Spec => []SelectInv
  <1>0. Init => SelectInv
    BY SelectInvInit
  <1>1. SelectInv /\ [Next]_vars => SelectInv'
    BY BuildQueueKeeps, AssertPrioritiesKeeps, SelectKeeps, NextClusterKeeps,
       StutterKeeps DEF Next
  <1> QED BY <1>0, <1>1, PTL DEF Spec

\* A second time in the list, an AppWrapper would precede itself.
LEMMA ListedOnce ==
    ASSUME SelectInv
    PROVE  \A m, n \in DOMAIN selected : selected[m] = selected[n] => m = n
  <1>1. Inputs /\ selected \in Seq(AppWrappers)
    BY DEF SelectInv, Shapes
  <1>2. /\ \A m \in DOMAIN selected : selected[m] \in AppWrappers
        /\ DOMAIN selected \subseteq Nat
    BY <1>1
  <1>3. \A m, n \in DOMAIN selected :
           m < n /\ Home(selected[m]) = Home(selected[n])
               => Precedes(selected[m], selected[n])
    BY DEF SelectInv, InQueueOrder
  <1>4. \A a \in AppWrappers : ~Precedes(a, a)
    BY <1>1, PrecedesOrders
  <1> SUFFICES ASSUME NEW m \in DOMAIN selected, NEW n \in DOMAIN selected,
                      selected[m] = selected[n], m # n
               PROVE  FALSE
    OBVIOUS
  <1>5. m < n \/ n < m
    BY <1>2
  <1> QED BY <1>2, <1>3, <1>4, <1>5

\* ReservationsPropagate, from what is left when the loop over the queue runs.
LEMMA PropagateHolds ==
    ASSUME SelectInv
    PROVE  ReservationsPropagate
  <1>1. Inputs
    BY DEF SelectInv, Shapes
  <1>2. \A p : L!Reserved(Booked(turn), p) = Sum(Requests, Flying(turn, p))
    BY <1>1, LogicSums
  <1> QED BY <1>2 DEF ReservationsPropagate, SelectInv, Remaining

\* assertPriorities (dispatch_logic.go) propagates reservations down the levels,
\* whatever the levels and what is booked at each.
THEOREM ReservationsArePropagated ==
    ASSUME OneQueueEach
    PROVE  Spec => []ReservationsPropagate
  <1>1. SelectInv => ReservationsPropagate
    BY PropagateHolds
  <1> QED BY <1>1, SelectInvariant, PTL

-----------------------------------------------------------------------------
(* What the loop selects.                                                  *)

\* Sums over places in the list of what is selected.
LEMMA SumsOverList ==
    ASSUME SelectInv, NEW T, T \subseteq DOMAIN selected
    PROVE  /\ {selected[m] : m \in T} \subseteq AppWrappers
           /\ L!Total(LAMBDA m : ask[selected[m]].requests, T) =
                 Sum(Requests, {selected[m] : m \in T})
           /\ L!PairTotal(LAMBDA m : L!Ask(selected[m]), T) =
                 AskedBy({selected[m] : m \in T})
  <1>1. Inputs /\ selected \in Seq(AppWrappers)
    BY DEF SelectInv, Shapes
  <1>2. IsFiniteSet(T)
    <2>1. DOMAIN selected = 1 .. Len(selected) /\ Len(selected) \in Nat
      BY <1>1
    <2>2. IsFiniteSet(1 .. Len(selected))
      BY <2>1, FS_Interval
    <2> QED BY <2>1, <2>2, FS_Subset
  <1>3. \A m \in T : selected[m] \in AppWrappers
    BY <1>1
  <1>4. \A m, n \in T : selected[m] = selected[n] => m = n
    BY ListedOnce
  <1>5. \A m \in T : /\ AreWeights(Requests[selected[m]])
                     /\ AreWeights(Limits[selected[m]])
                     /\ ask[selected[m]].requests = Requests[selected[m]]
                     /\ L!Ask(selected[m]) = Asked(selected[m])
    BY <1>1, <1>3, InputTypes, AskIs
  <1> DEFINE R == [m \in T |-> Requests[selected[m]]]
             M == [m \in T |-> Limits[selected[m]]]
             U == {selected[m] : m \in T}
  <1>6. Sum(R, T) = Sum(Requests, U) /\ Sum(M, T) = Sum(Limits, U)
    BY <1>2, <1>4, <1>5, SumImage
  <1>7. L!Total(LAMBDA m : ask[selected[m]].requests, T) = Sum(Requests, U)
    <2> DEFINE Loop(g) == g = [s \in SUBSET T |->
                                 IF s = {} THEN Zero
                                 ELSE Plus(ask[selected[Pick(s)]].requests,
                                           g[s \ {Pick(s)}])]
               h == CHOOSE g : Loop(g)
    <2>1. L!Total(LAMBDA m : ask[selected[m]].requests, T) = h[T]
      BY DEF L!Total, L!MapThenFoldSet, L!Plus, L!Zero, L!Quantity,
             Plus, Zero, Quantity, Pick
    <2>2. ASSUME NEW g PROVE Loop(g) <=> Adds(R, T, g)
      <3>1. \A s \in SUBSET T : s # {} => ask[selected[Pick(s)]].requests = R[Pick(s)]
        <4> SUFFICES ASSUME NEW s \in SUBSET T, s # {}
                     PROVE  ask[selected[Pick(s)]].requests = R[Pick(s)]
          OBVIOUS
        <4>1. Pick(s) \in T
          BY DEF Pick
        <4> QED BY <1>5, <4>1
      <3> HIDE DEF R
      <3> QED BY <3>1 DEF Adds
    <2>3. Loop(h)
      <3>1. \E g : Loop(g)
        BY <1>2, <2>2, AddsExists
      <3> HIDE DEF Loop
      <3> QED BY <3>1
    <2>4. Adds(R, T, h)
      BY <2>2, <2>3
    <2> HIDE DEF h, R, U
    <2>5. h[T] = Sum(R, T)
      BY <1>2, <2>4, SumAdds
    <2> QED BY <1>6, <2>1, <2>5
  <1>8. L!PairTotal(LAMBDA m : L!Ask(selected[m]), T) = AskedBy(U)
    <2> DEFINE Loop(g) == g = [s \in SUBSET T |->
                                 IF s = {} THEN NoWeights
                                 ELSE PairPlus(L!Ask(selected[Pick(s)]), g[s \ {Pick(s)}])]
               h == CHOOSE g : Loop(g)
    <2>1. L!PairTotal(LAMBDA m : L!Ask(selected[m]), T) = h[T]
      BY DEF L!PairTotal, L!MapThenFoldSet, L!PairPlus, L!NoWeights,
             L!Plus, L!Zero, L!Quantity, PairPlus, NoWeights, Plus, Zero, Quantity, Pick
    <2>2. ASSUME NEW g PROVE Loop(g) <=> PairAdds(R, M, T, g)
      <3>1. \A s \in SUBSET T : s # {} =>
               L!Ask(selected[Pick(s)]) = [requests |-> R[Pick(s)], limits |-> M[Pick(s)]]
        <4> SUFFICES ASSUME NEW s \in SUBSET T, s # {}
                     PROVE  L!Ask(selected[Pick(s)]) =
                               [requests |-> R[Pick(s)], limits |-> M[Pick(s)]]
          OBVIOUS
        <4>1. Pick(s) \in T
          BY DEF Pick
        <4> QED BY <1>5, <4>1 DEF Asked
      <3> HIDE DEF R, M
      <3> QED BY <3>1 DEF PairAdds
    <2>3. Loop(h)
      <3>1. \E g : Loop(g)
        BY <1>2, <2>2, PairSum
      <3> HIDE DEF Loop
      <3> QED BY <3>1
    <2>4. PairAdds(R, M, T, h)
      BY <2>2, <2>3
    <2> HIDE DEF h, R, M, U
    <2>5. h[T] = [requests |-> Sum(R, T), limits |-> Sum(M, T)]
      BY <1>2, <2>4, PairSum
    <2> QED BY <1>6, <2>1, <2>5 DEF AskedBy
  <1> QED BY <1>3, <1>7, <1>8

\* SelectedWithinQuota, from what the quota tracker has allocated.
LEMMA WithinQuotaHolds ==
    ASSUME SelectInv
    PROVE  SelectedWithinQuota
  <1> SUFFICES ASSUME NEW n \in DOMAIN quota
               PROVE  L!PairFits(L!PairTotal(LAMBDA m : L!Ask(selected[m]),
                                    {m \in DOMAIN selected : Namespace[selected[m]] = n}),
                                 quota[n])
    BY DEF SelectedWithinQuota
  <1> DEFINE T == {m \in DOMAIN selected : Namespace[selected[m]] = n}
  <1>1. L!PairTotal(LAMBDA m : L!Ask(selected[m]), T) = AskedBy({selected[m] : m \in T})
    BY SumsOverList
  <1>2. {selected[m] : m \in T} = InNamespace(Range(selected), n)
    BY DEF InNamespace, Range
  <1>3. PairFits(AskedBy(InNamespace(Range(selected), n)), quota[n])
    BY DEF SelectInv, WithinQuota
  <1>4. AskedBy({selected[m] : m \in T}) = AskedBy(InNamespace(Range(selected), n))
    BY <1>2
  <1> HIDE DEF T
  <1>5. L!PairFits(AskedBy(InNamespace(Range(selected), n)), quota[n])
    BY <1>3, LogicOperators
  <1>6. L!PairFits(L!PairTotal(LAMBDA m : L!Ask(selected[m]), T), quota[n])
    BY <1>1, <1>4, <1>5
  <1> QED BY <1>6 DEF T

\* What is selected in a namespace for all clusters together stays within its
\* quota, however many clusters, namespaces and resources there are.
THEOREM SelectionRespectsQuota ==
    ASSUME OneQueueEach
    PROVE  Spec => []SelectedWithinQuota
  <1>1. SelectInv => SelectedWithinQuota
    BY WithinQuotaHolds
  <1> QED BY <1>1, SelectInvariant, PTL

\* The test of DispatchLogic against the capacity, for what is booked by the
\* AppWrappers of B.
LEMMA CapacityTest ==
    ASSUME Inputs, NEW c \in 1 .. Len(Clusters), NEW a \in AppWrappers,
           NEW S, S \subseteq AppWrappers, NEW B, B \subseteq AppWrappers
    PROVE  L!FitsCapacity(a, S, capacity[c], [b \in B |-> ask[b].requests]) <=>
              Fits(Requests[a],
                   Minus(Minus(capacity[c],
                               Sum(Requests, {b \in B : priority[b] >= priority[a]})),
                         Sum(Requests, {b \in S : Precedes(b, a)})))
  <1> DEFINE F == [b \in B |-> ask[b].requests]
             T == {b \in B : priority[b] >= priority[a]}
             E == {b \in S : Precedes(b, a)}
  <1>1. L!Reserved(F, priority[a]) = Sum(Requests, T)
    <2>0. DOMAIN F = B
      OBVIOUS
    <2>1. L!Reserved(F, priority[a]) = Sum(F, {b \in DOMAIN F : priority[b] >= priority[a]})
      <3> HIDE DEF F
      <3> QED BY DEF L!Reserved, L!Total, L!MapThenFoldSet, L!Plus, L!Zero, L!Quantity,
                     Sum, Adds, Plus, Zero, Quantity, Pick
    <2>2. {b \in DOMAIN F : priority[b] >= priority[a]} = T
      BY <2>0
    <2>3. \A b \in T : F[b] = Requests[b]
      BY DEF Requests
    <2>4. IsFiniteSet(T)
      BY InputTypes
    <2> HIDE DEF F, T
    <2>5. Sum(F, T) = Sum(Requests, T)
      BY <2>3, <2>4, SumSame
    <2> QED BY <2>1, <2>2, <2>5
  <1>2. {b \in S : L!Before(b, a)} = E
    BY DEF L!Before, Precedes
  <1>3. L!TotalRequest(E) = Sum(Requests, E)
    <2>1. E \subseteq AppWrappers
      OBVIOUS
    <2> HIDE DEF E
    <2> QED BY <2>1, LogicSums
  <1>4. L!AggregateRequests[a] = Requests[a]
    BY AskIs
  <1> HIDE DEF F, E, T
  <1>5. L!FitsCapacity(a, S, capacity[c], F) <=>
           L!Fits(L!AggregateRequests[a],
                  L!Minus(L!Minus(capacity[c], L!Reserved(F, priority[a])),
                          L!TotalRequest({b \in S : L!Before(b, a)})))
    BY DEF L!FitsCapacity, L!Available
  <1>6. L!TotalRequest({b \in S : L!Before(b, a)}) = L!TotalRequest(E)
    BY <1>2
  <1>7. L!FitsCapacity(a, S, capacity[c], F) <=>
           L!Fits(Requests[a],
                  L!Minus(L!Minus(capacity[c], Sum(Requests, T)), Sum(Requests, E)))
    BY <1>1, <1>3, <1>4, <1>5, <1>6
  <1>8. L!FitsCapacity(a, S, capacity[c], F) <=>
           Fits(Requests[a], Minus(Minus(capacity[c], Sum(Requests, T)), Sum(Requests, E)))
    BY <1>7, LogicOperators
  <1> QED BY <1>8 DEF F, E, T

\* The test of DispatchLogic against the quota that earlier clusters leave: what
\* they took and what the AppWrappers of S before a took are taken together.
LEMMA QuotaTest ==
    ASSUME SelectInv, NEW c \in 1 .. Len(Clusters), NEW a \in AppWrappers,
           NEW S, {b \in S : Precedes(b, a)} = Earlier(c, a)
    PROVE  L!FitsQuota(a, S, QuotaFor(c)) <=> QuotaFitsAt(c, a)
  <1>1. Inputs /\ selected \in Seq(AppWrappers) /\ Range(selected) \subseteq AppWrappers
    BY DEF SelectInv, Shapes, Range
  <1> DEFINE n == Namespace[a]
             Before == {b \in Range(selected) : Home(b) < c}
             E == Earlier(c, a)
             X == InNamespace(Before, n)
             Y == InNamespace(E, n)
  <1>2. /\ Before \subseteq AppWrappers /\ E \subseteq AppWrappers
        /\ Prior(c, a) = Before \cup E
    BY <1>1 DEF Prior, Earlier, Chosen
  <1>3. UNION {Chosen(b) : b \in 1 .. c - 1} = Before
    <2>1. \A b \in 1 .. c - 1 : b \in 1 .. Len(Clusters)
      BY <1>1, InputTypes
    <2>2. \A b \in 1 .. c - 1 : Chosen(b) = {d \in Range(selected) : Home(d) = b}
      BY <1>1, <2>1, InputTypes DEF Chosen
    <2>3. \A d \in Range(selected) : Home(d) < c => Home(d) \in 1 .. c - 1
      BY <1>1, InputTypes
    <2>4. \A b \in 1 .. c - 1 : b < c
      BY <1>1, InputTypes
    <2>5. ASSUME NEW d \in Before PROVE d \in UNION {Chosen(b) : b \in 1 .. c - 1}
      <3>1. Home(d) \in 1 .. c - 1 /\ d \in Chosen(Home(d))
        BY <2>2, <2>3, <2>5
      <3> QED BY <3>1
    <2>6. ASSUME NEW b \in 1 .. c - 1, NEW d \in Chosen(b) PROVE d \in Before
      BY <2>2, <2>4, <2>6
    <2> HIDE DEF Before
    <2> QED BY <2>5, <2>6
  <1>4. /\ X \subseteq AppWrappers /\ Y \subseteq AppWrappers /\ X \cap Y = {}
        /\ InNamespace(Prior(c, a), n) = X \cup Y
    <2>1. \A b \in E : b \in OfCluster(c) /\ b \in AppWrappers
      BY <1>2 DEF Earlier, Chosen
    <2>2. \A b \in E : Home(b) = c
      BY <1>1, <2>1, InputTypes
    <2>3. \A b \in Before : Home(b) # c
      BY <1>1, <1>2, InputTypes
    <2> HIDE DEF E, Before
    <2> QED BY <1>2, <2>2, <2>3 DEF InNamespace
  <1>5. L!Allocated(Before, n) = AskedBy(X) /\ L!Allocated(E, n) = AskedBy(Y)
    <2> HIDE DEF Before, E
    <2> QED BY <1>1, <1>2, LogicSums
  <1>6. AskedBy(X \cup Y) = [requests |-> Plus(Sum(Requests, X), Sum(Requests, Y)),
                             limits |-> Plus(Sum(Limits, X), Sum(Limits, Y))]
    <2>1. /\ IsFiniteSet(X) /\ IsFiniteSet(Y)
          /\ \A x \in X \cup Y : AreWeights(Requests[x]) /\ AreWeights(Limits[x])
      <3> HIDE DEF X, Y
      <3> QED BY <1>1, <1>4, InputTypes
    <2> HIDE DEF X, Y
    <2> QED BY <1>4, <2>1, SumDisjoint DEF AskedBy
  <1>7. n \in DOMAIN quota =>
           PairQuotaMinus(PairQuotaMinus(quota[n], AskedBy(X)), AskedBy(Y)) =
               PairQuotaMinus(quota[n], AskedBy(X \cup Y))
    <2> SUFFICES ASSUME n \in DOMAIN quota
                 PROVE  PairQuotaMinus(PairQuotaMinus(quota[n], AskedBy(X)), AskedBy(Y)) =
                           PairQuotaMinus(quota[n], AskedBy(X \cup Y))
      OBVIOUS
    <2>1. /\ AreWeights(quota[n].requests) /\ AreWeights(quota[n].limits)
      BY <1>1, InputTypes
    <2>2. /\ AreWeights(Sum(Requests, X)) /\ AreWeights(Sum(Requests, Y))
          /\ AreWeights(Sum(Limits, X)) /\ AreWeights(Sum(Limits, Y))
      <3>1. /\ IsFiniteSet(X) /\ IsFiniteSet(Y)
            /\ \A x \in X : AreWeights(Requests[x]) /\ AreWeights(Limits[x])
            /\ \A x \in Y : AreWeights(Requests[x]) /\ AreWeights(Limits[x])
        <4> HIDE DEF X, Y
        <4> QED BY <1>1, <1>4, InputTypes
      <3> HIDE DEF X, Y
      <3> QED BY <3>1, SumWeights
    <2> HIDE DEF X, Y, n
    <2>3. /\ QuotaMinus(QuotaMinus(quota[n].requests, Sum(Requests, X)), Sum(Requests, Y)) =
                QuotaMinus(quota[n].requests, Plus(Sum(Requests, X), Sum(Requests, Y)))
          /\ QuotaMinus(QuotaMinus(quota[n].limits, Sum(Limits, X)), Sum(Limits, Y)) =
                QuotaMinus(quota[n].limits, Plus(Sum(Limits, X), Sum(Limits, Y)))
      BY <2>1, <2>2, QuotaMinusLaws
    <2>4. AskedBy(X) = [requests |-> Sum(Requests, X), limits |-> Sum(Limits, X)]
      BY DEF AskedBy
    <2>5. AskedBy(Y) = [requests |-> Sum(Requests, Y), limits |-> Sum(Limits, Y)]
      BY DEF AskedBy
    <2> QED BY <1>6, <2>3, <2>4, <2>5 DEF PairQuotaMinus
  <1>8. DOMAIN QuotaFor(c) = DOMAIN quota
    BY DEF QuotaFor
  <1>9. n \in DOMAIN quota => QuotaFor(c)[n] = PairQuotaMinus(quota[n], AskedBy(X))
    <2> HIDE DEF Before, X, n
    <2>1. n \in DOMAIN quota =>
            QuotaFor(c)[n] = L!PairQuotaMinus(quota[n],
                                L!Allocated(UNION {Chosen(b) : b \in 1 .. c - 1}, n))
      BY DEF QuotaFor
    <2>2. L!Allocated(UNION {Chosen(b) : b \in 1 .. c - 1}, n) = AskedBy(X)
      BY <1>3, <1>5
    <2> QED BY <2>1, <2>2, LogicOperators
  <1>10. L!Ask(a) = Asked(a)
    BY <1>1, AskIs
  <1>11. L!FitsQuota(a, S, QuotaFor(c)) <=>
           (n \in DOMAIN quota =>
               L!PairFits(L!Ask(a), L!PairQuotaMinus(QuotaFor(c)[n], L!Allocated(E, n))))
    <2>1. {b \in S : L!Before(b, a)} = E
      <3>1. \A b : L!Before(b, a) <=> Precedes(b, a)
        BY DEF L!Before, Precedes
      <3> QED BY <3>1
    <2>2. L!Allocated({b \in S : L!Before(b, a)}, n) = L!Allocated(E, n)
      BY <2>1
    <2>3. L!FitsQuota(a, S, QuotaFor(c)) <=>
           (n \in DOMAIN QuotaFor(c) =>
               L!PairFits(L!Ask(a), L!PairQuotaMinus(QuotaFor(c)[n],
                                       L!Allocated({b \in S : L!Before(b, a)}, n))))
      BY DEF L!FitsQuota
    <2> HIDE DEF E, n
    <2> QED BY <1>8, <2>2, <2>3
  <1>12. QuotaFitsAt(c, a) <=>
           (n \in DOMAIN quota =>
               PairFits(Asked(a), PairQuotaMinus(quota[n], AskedBy(X \cup Y))))
    <2>1. AskedBy(InNamespace(Prior(c, a), n)) = AskedBy(X \cup Y)
      BY <1>4
    <2>2. QuotaFitsAt(c, a) <=>
           (n \in DOMAIN quota =>
               PairFits(Asked(a), PairQuotaMinus(quota[n],
                                     AskedBy(InNamespace(Prior(c, a), n)))))
      BY DEF QuotaFitsAt
    <2> HIDE DEF X, Y, n
    <2> QED BY <2>1, <2>2
  <1> HIDE DEF n, X, Y, E, Before
  <1>13. n \in DOMAIN quota =>
           (L!PairFits(L!Ask(a), L!PairQuotaMinus(QuotaFor(c)[n], L!Allocated(E, n))) <=>
            PairFits(Asked(a), PairQuotaMinus(PairQuotaMinus(quota[n], AskedBy(X)), AskedBy(Y))))
    BY <1>5, <1>9, <1>10, LogicOperators
  <1> QED BY <1>7, <1>11, <1>12, <1>13

\* At the end, a candidate for cluster c is selected exactly if it passes both
\* tests of the loop.
LEMMA AllDecided ==
    ASSUME SelectInv, pc = "done", NEW c \in 1 .. Len(Clusters), NEW a \in Range(Queue(c))
    PROVE  /\ a \in OfCluster(c) \ inFlight /\ a \in AppWrappers
           /\ a \in Chosen(c) <=> FitsAt(c, a) /\ QuotaFitsAt(c, a)
           /\ decided[a] = IF a \in Chosen(c) THEN "none"
                           ELSE IF FitsAt(c, a) THEN "InsufficientQuota"
                           ELSE "InsufficientResources"
  <1>1. Inputs
    BY DEF SelectInv, Shapes
  <1>2. Range(Queue(c)) = OfCluster(c) \ inFlight
    BY <1>1, QueueSorted
  <1>3. Handled(c) = OfCluster(c) \ inFlight
    BY DEF Handled
  <1>4. a \in Handled(c) /\ a \in AppWrappers
    BY <1>2, <1>3 DEF OfCluster
  <1> QED BY <1>2, <1>4 DEF SelectInv, RightlyDecided

\* LoopSelects.
LEMMA LoopHolds ==
    ASSUME SelectInv
    PROVE  LoopSelects
  <1> SUFFICES ASSUME pc = "done", NEW c \in 1 .. Len(Clusters)
               PROVE  /\ L!IsSelection(Chosen(c), Range(Queue(c)), capacity[c], Booked(c),
                                       QuotaFor(c))
                      /\ \A m, n \in DOMAIN selected :
                            m < n /\ {selected[m], selected[n]} \subseteq OfCluster(c)
                                => L!Before(selected[m], selected[n])
                      /\ \A a \in Range(Queue(c)) :
                            decided[a] = IF a \in Chosen(c) THEN "none"
                                         ELSE L!Reason(a, Chosen(c), capacity[c], Booked(c))
    BY SelectAssumption DEF LoopSelects
  <1>1. Inputs /\ selected \in Seq(AppWrappers) /\ Chosen(c) \subseteq AppWrappers
    BY DEF SelectInv, Shapes, Chosen, OfCluster
  <1>2. ASSUME NEW a \in Range(Queue(c))
        PROVE  /\ L!FitsCapacity(a, Chosen(c), capacity[c], Booked(c)) <=> FitsAt(c, a)
               /\ L!FitsQuota(a, Chosen(c), QuotaFor(c)) <=> QuotaFitsAt(c, a)
    <2>1. a \in AppWrappers
      BY <1>2, AllDecided
    <2>2. L!FitsCapacity(a, Chosen(c), capacity[c], Booked(c)) <=> FitsAt(c, a)
      <3> DEFINE B == inFlight \cap OfCluster(c)
      <3>1. B \subseteq AppWrappers
        BY DEF OfCluster
      <3>2. Booked(c) = [b \in B |-> ask[b].requests]
        BY DEF Booked
      <3>3. /\ {b \in B : priority[b] >= priority[a]} = Flying(c, priority[a])
            /\ {b \in Chosen(c) : Precedes(b, a)} = Earlier(c, a)
        BY DEF Flying, Earlier
      <3> HIDE DEF B
      <3>4. L!FitsCapacity(a, Chosen(c), capacity[c], [b \in B |-> ask[b].requests]) <=>
              Fits(Requests[a],
                   Minus(Minus(capacity[c],
                               Sum(Requests, {b \in B : priority[b] >= priority[a]})),
                         Sum(Requests, {b \in Chosen(c) : Precedes(b, a)})))
        BY <1>1, <2>1, <3>1, CapacityTest
      <3> QED BY <3>2, <3>3, <3>4 DEF FitsAt
    <2>3. {b \in Chosen(c) : Precedes(b, a)} = Earlier(c, a)
      BY DEF Earlier
    <2> QED BY <2>1, <2>2, <2>3, QuotaTest
  <1>3. L!IsSelection(Chosen(c), Range(Queue(c)), capacity[c], Booked(c), QuotaFor(c))
    BY <1>2, AllDecided DEF L!IsSelection
  <1>4. ASSUME NEW m \in DOMAIN selected, NEW n \in DOMAIN selected, m < n,
               {selected[m], selected[n]} \subseteq OfCluster(c)
        PROVE  L!Before(selected[m], selected[n])
    <2>1. Home(selected[m]) = c /\ Home(selected[n]) = c
      BY <1>1, <1>4, InputTypes
    <2>2. Precedes(selected[m], selected[n])
      BY <1>4, <2>1 DEF SelectInv, InQueueOrder
    <2> QED BY <2>2 DEF L!Before, Precedes
  <1>5. ASSUME NEW a \in Range(Queue(c))
        PROVE  decided[a] = IF a \in Chosen(c) THEN "none"
                            ELSE L!Reason(a, Chosen(c), capacity[c], Booked(c))
    BY <1>2, <1>5, AllDecided DEF L!Reason
  <1> QED BY <1>3, <1>4, <1>5

\* The loops of dispatch_logic.go compute the selection that DispatchLogic states,
\* in queue order, and give every other candidate the right reason, for any number
\* of AppWrappers, clusters, namespaces, priority levels and resources.
THEOREM LoopComputesSelection ==
    ASSUME OneQueueEach
    PROVE  Spec => []LoopSelects
  <1>1. SelectInv => LoopSelects
    BY LoopHolds
  <1> QED BY <1>1, SelectInvariant, PTL

\* NoPriorityInversion: at priority p and above, the tests only count what is in
\* flight, or selected before, at such a priority.
LEMMA InversionHolds ==
    ASSUME SelectInv
    PROVE  NoPriorityInversion
  <1> SUFFICES ASSUME pc = "done", NEW c \in 1 .. Len(Clusters), NEW p \in Priorities
               PROVE  LET high == {a \in AppWrappers : priority[a] >= p} IN
                      L!IsSelection(Chosen(c) \cap high, Range(Queue(c)) \cap high,
                                    capacity[c],
                                    [a \in inFlight \cap OfCluster(c) \cap high |->
                                        ask[a].requests],
                                    QuotaFor(c))
    BY SelectAssumption DEF NoPriorityInversion
  <1> DEFINE high == {a \in AppWrappers : priority[a] >= p}
             S == Chosen(c) \cap high
             B == inFlight \cap OfCluster(c) \cap high
  <1>1. Inputs /\ p \in Int
    BY SelectAssumption DEF SelectInv, Shapes
  <1>2. S \subseteq AppWrappers /\ B \subseteq AppWrappers
    OBVIOUS
  <1>3. ASSUME NEW a \in Range(Queue(c)) \cap high
        PROVE  /\ L!FitsCapacity(a, S, capacity[c], [b \in B |-> ask[b].requests]) <=>
                     FitsAt(c, a)
               /\ L!FitsQuota(a, S, QuotaFor(c)) <=> QuotaFitsAt(c, a)
    <2>1. a \in AppWrappers /\ priority[a] >= p
      OBVIOUS
    <2>2. \A b \in AppWrappers : priority[b] \in Int
      BY <1>1, InputTypes
    <2>3. {b \in S : Precedes(b, a)} = Earlier(c, a)
      <3>1. Chosen(c) \subseteq AppWrappers
        BY DEF Chosen, OfCluster
      <3>2. \A b \in AppWrappers : Precedes(b, a) => priority[b] >= priority[a]
        BY <1>1, <2>1, PrecedesOrders
      <3>3. \A b \in AppWrappers : Precedes(b, a) => b \in high
        BY <1>1, <2>1, <2>2, <3>2
      <3> HIDE DEF high
      <3> QED BY <3>1, <3>3 DEF Earlier
    <2>4. {b \in B : priority[b] >= priority[a]} = Flying(c, priority[a])
      <3>1. \A b \in AppWrappers : priority[b] >= priority[a] => b \in high
        BY <1>1, <2>1, <2>2
      <3>2. OfCluster(c) \subseteq AppWrappers
        BY DEF OfCluster
      <3> HIDE DEF high
      <3> QED BY <3>1, <3>2 DEF Flying
    <2> HIDE DEF S, B, high
    <2>5. L!FitsCapacity(a, S, capacity[c], [b \in B |-> ask[b].requests]) <=>
              Fits(Requests[a],
                   Minus(Minus(capacity[c],
                               Sum(Requests, {b \in B : priority[b] >= priority[a]})),
                         Sum(Requests, {b \in S : Precedes(b, a)})))
      BY <1>1, <1>2, <2>1, CapacityTest
    <2>6. L!FitsCapacity(a, S, capacity[c], [b \in B |-> ask[b].requests]) <=> FitsAt(c, a)
      BY <2>3, <2>4, <2>5 DEF FitsAt
    <2> QED BY <2>1, <2>3, <2>6, QuotaTest
  <1>4. \A a \in Range(Queue(c)) \cap high :
           a \in S <=> FitsAt(c, a) /\ QuotaFitsAt(c, a)
    BY AllDecided
  <1>5. L!IsSelection(S, Range(Queue(c)) \cap high, capacity[c],
                      [b \in B |-> ask[b].requests], QuotaFor(c))
    <2> HIDE DEF S, B, high
    <2> QED BY <1>3, <1>4 DEF L!IsSelection
  <1> QED BY <1>5

\* What is queued or booked at lower priorities does not change what is selected
\* at a higher one for the same cluster (selectForDispatch, dispatch_logic.go).
THEOREM PrioritiesAreRespected ==
    ASSUME OneQueueEach
    PROVE  Spec => []NoPriorityInversion
  <1>1. SelectInv => NoPriorityInversion
    BY InversionHolds
  <1> QED BY <1>1, SelectInvariant, PTL

\* No AppWrapper asks for a negative quantity of anything.
NonNegativeRequests ==
    \A w \in Asks : \A k \in DOMAIN w.requests : w.requests[k] >= 0

\* SelectedFit: the AppWrapper at place n was tested against exactly what is at the
\* places before it.
LEMMA FitHolds ==
    ASSUME NonNegativeRequests, SelectInv
    PROVE  SelectedFit
  <1>1. Inputs /\ selected \in Seq(AppWrappers)
    BY DEF SelectInv, Shapes
  <1>2. /\ Len(selected) \in Nat /\ DOMAIN selected = 1 .. Len(selected)
        /\ \A m \in DOMAIN selected : selected[m] \in AppWrappers
    BY <1>1
  <1> SUFFICES ASSUME NEW n \in DOMAIN selected, NEW c \in 1 .. turn,
                      selected[n] \in OfCluster(c),
                      NEW k \in DOMAIN ask[selected[n]].requests,
                      ask[selected[n]].requests[k] > 0
               PROVE  LET a      == selected[n]
                          before == {m \in 1 .. n : selected[m] \in OfCluster(c)}
                          load   == L!Plus(L!Reserved(Booked(c), priority[a]),
                                           L!Total(LAMBDA m : ask[selected[m]].requests,
                                                   before))
                      IN  k \in DOMAIN capacity[c] /\ load[k] <= capacity[c][k]
    BY DEF SelectedFit
  <1> DEFINE a == selected[n]
             before == {m \in 1 .. n : selected[m] \in OfCluster(c)}
             load == L!Plus(L!Reserved(Booked(c), priority[a]),
                            L!Total(LAMBDA m : ask[selected[m]].requests, before))
             E == Earlier(c, a)
             F == Flying(c, priority[a])
  <1>3. /\ a \in AppWrappers /\ c \in 1 .. Len(Clusters) /\ c \in Nat
        /\ before \subseteq DOMAIN selected
    <2>1. turn \in 1 .. Len(Clusters) /\ turn \in Nat /\ Len(Clusters) \in Nat
      BY <1>1, InputTypes DEF Inputs
    <2> QED BY <1>2, <2>1
  <1>4. a \in Chosen(c)
    BY DEF Chosen, Range
  <1>5. FitsAt(c, a)
    <2>1. a \in Handled(c)
      BY <1>3, <1>4 DEF SelectInv, InQueueOrder
    <2> HIDE DEF a
    <2> QED BY <1>3, <1>4, <2>1 DEF SelectInv, RightlyDecided
  <1>6. {selected[m] : m \in before} = E \cup {a} /\ a \notin E
    <2>1. \A m \in DOMAIN selected : selected[m] \in OfCluster(c) => Home(selected[m]) = c
      BY <1>1, <1>2, <1>3, InputTypes
    <2>2. \A l, m \in DOMAIN selected :
             l < m /\ selected[l] \in OfCluster(c) /\ selected[m] \in OfCluster(c)
                 => Precedes(selected[l], selected[m])
      BY <2>1 DEF SelectInv, InQueueOrder
    <2>3. /\ ~Precedes(a, a)
          /\ \A b \in AppWrappers : Precedes(a, b) => ~Precedes(b, a)
      BY <1>1, <1>3, PrecedesOrders
    <2>4. ASSUME NEW m \in before PROVE selected[m] \in E \cup {a}
      <3>1. m \in DOMAIN selected /\ selected[m] \in OfCluster(c) /\ (m < n \/ m = n)
        BY <1>2, <1>3, <2>4
      <3>2. CASE m < n
        BY <2>2, <3>1, <3>2 DEF Earlier, Chosen, Range
      <3> QED BY <3>1, <3>2
    <2>5. ASSUME NEW b \in E PROVE \E m \in before : selected[m] = b
      <3>1. PICK m \in DOMAIN selected : selected[m] = b
        BY <2>5 DEF Earlier, Chosen, Range
      <3>2. b \in OfCluster(c) /\ Precedes(b, a) /\ b \in AppWrappers
        BY <2>5 DEF Earlier, Chosen, OfCluster
      <3>3. m < n
        <4>1. ~(n < m)
          BY <2>2, <2>3, <3>1, <3>2
        <4>2. m # n
          BY <2>3, <3>1, <3>2
        <4> QED BY <1>2, <4>1, <4>2
      <3> QED BY <1>2, <3>1, <3>2, <3>3
    <2>6. n \in before
      BY <1>2
    <2>7. a \notin E
      BY <2>3 DEF Earlier
    <2> HIDE DEF E
    <2>8. {selected[m] : m \in before} \subseteq E \cup {a}
      BY <2>4
    <2>9. E \cup {a} \subseteq {selected[m] : m \in before}
      BY <2>5, <2>6
    <2> QED BY <2>7, <2>8, <2>9
  <1>7. E \subseteq AppWrappers /\ F \subseteq AppWrappers
    BY DEF Earlier, Chosen, OfCluster, Flying
  <1>8. \A b \in AppWrappers : ArePositive(Requests[b])
    <2> SUFFICES ASSUME NEW b \in AppWrappers PROVE ArePositive(Requests[b])
      OBVIOUS
    <2>1. ask[b] \in Asks /\ Requests[b] = ask[b].requests /\ AreWeights(Requests[b])
      BY <1>1, InputTypes DEF Inputs
    <2> QED BY <2>1 DEF NonNegativeRequests, ArePositive
  <1>9. load = Plus(Sum(Requests, F), Sum(Requests, E \cup {a}))
    <2>1. L!Reserved(Booked(c), priority[a]) = Sum(Requests, F)
      <3> HIDE DEF a
      <3> QED BY <1>1, LogicSums
    <2>2. L!Total(LAMBDA m : ask[selected[m]].requests, before) =
             Sum(Requests, {selected[m] : m \in before})
      BY <1>3, SumsOverList
    <2>3. Sum(Requests, {selected[m] : m \in before}) = Sum(Requests, E \cup {a})
      BY <1>6
    <2> HIDE DEF F, E, a, before
    <2> QED BY <2>1, <2>2, <2>3, LogicOperators
  <1>10. /\ Requests[a] = ask[a].requests /\ AreWeights(Requests[a])
         /\ k \in DOMAIN Requests[a] /\ Requests[a][k] > 0
    BY <1>1, <1>3, InputTypes
  <1>11. AreWeights(capacity[c])
    BY <1>1, <1>3, InputTypes
  <1>12. Fits(Requests[a], Minus(Minus(capacity[c], Sum(Requests, F)), Sum(Requests, E)))
    BY <1>5 DEF FitsAt
  <1> HIDE DEF a, before, load, E, F
  <1>13. IsFiniteSet(E) /\ IsFiniteSet(F)
    BY <1>1, <1>7, InputTypes
  <1>14. /\ AreWeights(Sum(Requests, E)) /\ AreWeights(Sum(Requests, F))
         /\ Quantity(Sum(Requests, E), k) >= 0 /\ Quantity(Sum(Requests, F), k) >= 0
    <2>1. /\ \A x \in E : ArePositive(Requests[x]) /\ AreWeights(Requests[x])
          /\ \A x \in F : ArePositive(Requests[x]) /\ AreWeights(Requests[x])
      BY <1>7, <1>8 DEF ArePositive
    <2> QED BY <1>13, <2>1, SumWeights, SumPositive
  <1>15. Sum(Requests, E \cup {a}) = Plus(Sum(Requests, E), Requests[a])
    <2>1. \A y \in E \cup {a} : AreWeights(Requests[y])
      BY <1>3, <1>7, <1>8 DEF ArePositive
    <2> QED BY <1>6, <1>13, <2>1, SumInsert
  <1>16. k \in DOMAIN capacity[c] /\ load[k] <= capacity[c][k]
    BY <1>9, <1>10, <1>11, <1>12, <1>14, <1>15, FitsBeside
  <1> QED BY <1>16 DEF load, before, a

\* An AppWrapper is selected only if its cluster has every resource it asks for,
\* and enough of it for what is booked there at its priority or above, for what
\* was selected there before it, and for itself (selectForDispatch).
THEOREM SelectionFits ==
    ASSUME OneQueueEach, NonNegativeRequests
    PROVE  Spec => []SelectedFit
  <1>1. SelectInv => SelectedFit
    BY FitHolds
  <1> QED BY <1>1, SelectInvariant, PTL

\* DispatchLogic describes one selection only: two that differed would do so first
\* at some candidate, for which the same AppWrappers count in both.  So the loop
\* computes the selection the Dispatcher chooses, and no other.
THEOREM SelectionIsUnique ==
    ASSUME Inputs, NEW C, C \subseteq AppWrappers,
           NEW S, S \subseteq C, NEW T, T \subseteq C,
           NEW cap, NEW booked, NEW left,
           L!IsSelection(S, C, cap, booked, left), L!IsSelection(T, C, cap, booked, left)
    PROVE  S = T
  <1> DEFINE D == {a \in C : ~(a \in S <=> a \in T)}
             R == {e \in D \X D : Precedes(e[2], e[1])}
  <1> SUFFICES ASSUME D # {} PROVE FALSE
    OBVIOUS
  <1>1. D \subseteq AppWrappers /\ IsFiniteSet(D)
    BY InputTypes
  <1>2. Orders(R, D)
    <2>1. \A x, y \in D : <<x, y>> \in R <=> Precedes(y, x)
      OBVIOUS
    <2> HIDE DEF R, D
    <2> QED BY <1>1, <2>1, PrecedesOrders DEF Orders
  <1>3. PICK a \in D : \A b \in D \ {a} : <<b, a>> \in R
    <2> HIDE DEF R, D
    <2> QED BY <1>1, <1>2, LastExists
  <1>4. \A b \in D \ {a} : Precedes(a, b)
    BY <1>3
  <1>5. /\ ~Precedes(a, a) /\ \A b \in AppWrappers : Precedes(a, b) => ~Precedes(b, a)
    BY <1>1, <1>3, PrecedesOrders
  <1>6. \A b : L!Before(b, a) <=> Precedes(b, a)
    BY DEF L!Before, Precedes
  <1>7. {b \in S : L!Before(b, a)} = {b \in T : L!Before(b, a)}
    BY <1>1, <1>4, <1>5, <1>6
  <1>8. /\ L!FitsCapacity(a, S, cap, booked) <=> L!FitsCapacity(a, T, cap, booked)
        /\ L!FitsQuota(a, S, left) <=> L!FitsQuota(a, T, left)
    <2>1. /\ L!TotalRequest({b \in S : L!Before(b, a)}) =
                L!TotalRequest({b \in T : L!Before(b, a)})
          /\ L!Allocated({b \in S : L!Before(b, a)}, Namespace[a]) =
                L!Allocated({b \in T : L!Before(b, a)}, Namespace[a])
      BY <1>7
    <2> QED BY <2>1 DEF L!FitsCapacity, L!FitsQuota
  <1> QED BY <1>3, <1>8 DEF L!IsSelection
=============================================================================
