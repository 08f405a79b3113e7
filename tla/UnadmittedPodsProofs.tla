------------------------ MODULE UnadmittedPodsProofs ------------------------
(***************************************************************************)
(* Proofs about UnadmittedPods: whatever the number and the order of the   *)
(* AppWrappers in flight, getUnadmittedPodsWeights (dispatcher.go) never   *)
(* counts more demand than their pods leave open, and all of it if none    *)
(* has more pods than it asks for.                                         *)
(*                                                                         *)
(* Argument.  A turn of the loop clamps at zero what the turns before it   *)
(* counted and what this AppWrapper lacks, taken together; Missing clamps  *)
(* each on its own, which is never less.  The two are equal if there is    *)
(* nothing to clamp.                                                       *)
(***************************************************************************)
EXTENDS UnadmittedPods, WeightsProofs

\* One turn of the loop keeps below, or up with, the sum of what is lacking.
LEMMA TurnBounds ==
    ASSUME NEW w, NEW a, NEW c, AreWeights(w), AreWeights(a), AreWeights(c), NEW k,
           NEW e \in Int, Quantity(w, k) >= 0, Quantity(w, k) <= e, Quantity(c, k) >= 0
    PROVE  /\ Quantity(Charged(w, a, c), k) >= 0
           /\ Quantity(Charged(w, a, c), k) <= e + Quantity(Lack(a, c), k)
           /\ Quantity(w, k) = e /\ Quantity(a, k) >= 0 /\ Quantity(c, k) <= Quantity(a, k)
                 => Quantity(Charged(w, a, c), k) = e + Quantity(Lack(a, c), k)
  <1> DEFINE x == Quantity(w, k)
             y == Quantity(a, k)
             z == Quantity(c, k)
             u == Quantity(Charged(w, a, c), k)
             v == Quantity(Lack(a, c), k)
  <1>1. x \in Int /\ y \in Int /\ z \in Int
    BY QuantityType
  <1>2. /\ k \notin DOMAIN w => x = 0
        /\ k \notin DOMAIN a => y = 0
    BY DEF Quantity
  <1>3. u = IF k \in DOMAIN w \cup DOMAIN a /\ x + y - z > 0 THEN x + y - z ELSE 0
    BY ChargedQuantity
  <1>4. v = IF k \in DOMAIN a /\ y - z > 0 THEN y - z ELSE 0
    BY LackQuantity
  <1>5. x >= 0 /\ x <= e /\ z >= 0
    OBVIOUS
  <1> HIDE DEF x, y, z, u, v
  <1>6. /\ u >= 0 /\ u <= e + v
        /\ x = e /\ y >= 0 /\ z <= y => u = e + v
    <2>1. CASE k \in DOMAIN a
      BY <1>1, <1>2, <1>3, <1>4, <1>5, <2>1
    <2>2. CASE k \notin DOMAIN a
      BY <1>1, <1>2, <1>3, <1>4, <1>5, <2>2
    <2> QED BY <2>1, <2>2
  <1> QED BY <1>6 DEF x, y, z, u, v

-----------------------------------------------------------------------------
(* The loop.                                                               *)

\* What the AppWrapper at each place of the list lacks.
RequestsLacking ==
    [n \in DOMAIN list |-> Lack(ask[list[n]].requests, created[list[n]].requests)]
LimitsLacking ==
    [n \in DOMAIN list |-> Lack(ask[list[n]].limits, created[list[n]].limits)]

\* The types of the variables.
Types ==
    /\ list \in Seq(AppWrappers)
    /\ ask \in [AppWrappers -> Asks]
    /\ created \in [AppWrappers -> PodWeights]
    /\ i \in 0 .. Len(list)
    /\ weightsPair = [requests |-> weightsPair.requests, limits |-> weightsPair.limits]
    /\ AreWeights(weightsPair.requests)
    /\ AreWeights(weightsPair.limits)

\* No AppWrapper has more pods than it asks for.
NoSurplus == \A a \in AppWrappers : AtMost(created[a], ask[a])

\* No AppWrapper asks for a negative quantity of anything.
NonNegativeAsks ==
    \A w \in Asks : /\ \A k \in DOMAIN w.requests : w.requests[k] >= 0
                    /\ \A k \in DOMAIN w.limits : w.limits[k] >= 0

\* What is counted is between 0 and what is lacking, and no less without surplus.
Bounded ==
    \A k : /\ Quantity(weightsPair.requests, k) >= 0
           /\ Quantity(weightsPair.limits, k) >= 0
           /\ Quantity(weightsPair.requests, k) <= Quantity(Sum(RequestsLacking, 1 .. i), k)
           /\ Quantity(weightsPair.limits, k) <= Quantity(Sum(LimitsLacking, 1 .. i), k)
           /\ NonNegativeAsks /\ NoSurplus =>
                 /\ Quantity(weightsPair.requests, k) =
                       Quantity(Sum(RequestsLacking, 1 .. i), k)
                 /\ Quantity(weightsPair.limits, k) =
                       Quantity(Sum(LimitsLacking, 1 .. i), k)

\* The invariant.
UnadmittedInv == Types /\ Bounded

\* The weights of the AppWrapper at each place.
LEMMA PlaceTypes ==
    ASSUME Types, NEW n \in DOMAIN list
    PROVE  /\ list[n] \in AppWrappers
           /\ AreWeights(ask[list[n]].requests) /\ AreWeights(ask[list[n]].limits)
           /\ AreWeights(created[list[n]].requests)
           /\ AreWeights(created[list[n]].limits)
           /\ AreWeights(RequestsLacking[n]) /\ AreWeights(LimitsLacking[n])
           /\ \A k : /\ Quantity(created[list[n]].requests, k) >= 0
                     /\ Quantity(created[list[n]].limits, k) >= 0
                     /\ Quantity(RequestsLacking[n], k) \in Int
                     /\ Quantity(LimitsLacking[n], k) \in Int
  <1>1. /\ list[n] \in AppWrappers
        /\ ask[list[n]] \in Asks /\ created[list[n]] \in PodWeights
    BY DEF Types
  <1>2. /\ AreWeights(ask[list[n]].requests) /\ AreWeights(ask[list[n]].limits)
        /\ AreWeights(created[list[n]].requests)
        /\ AreWeights(created[list[n]].limits)
    BY <1>1, UnadmittedAssumption DEF AreWeights
  <1>3. AreWeights(RequestsLacking[n]) /\ AreWeights(LimitsLacking[n])
    BY <1>2, LackQuantity DEF RequestsLacking, LimitsLacking
  <1>4. \A k : /\ Quantity(created[list[n]].requests, k) >= 0
               /\ Quantity(created[list[n]].limits, k) >= 0
    <2>1. \A w \in PodWeights : /\ \A k \in DOMAIN w.requests : w.requests[k] >= 0
                               /\ \A k \in DOMAIN w.limits : w.limits[k] >= 0
      BY UnadmittedAssumption
    <2>2. /\ ArePositive(created[list[n]].requests)
          /\ ArePositive(created[list[n]].limits)
      BY <1>1, <1>2, <2>1 DEF ArePositive
    <2> QED BY <2>2, QuantityType
  <1>5. \A k : /\ Quantity(RequestsLacking[n], k) \in Int
               /\ Quantity(LimitsLacking[n], k) \in Int
    BY <1>3, QuantityType
  <1> QED BY <1>1, <1>2, <1>3, <1>4, <1>5

\* Expected adds up requests and limits apart.
LEMMA ExpectedIs ==
    ASSUME Types
    PROVE  Expected = [requests |-> Sum(RequestsLacking, 1 .. i),
                       limits |-> Sum(LimitsLacking, 1 .. i)]
  <1> DEFINE T == 1 .. i
             Loop(g) == g = [s \in SUBSET T |->
                               IF s = {} THEN NoWeights
                               ELSE PairPlus(Missing(list[Pick(s)]), g[s \ {Pick(s)}])]
             h == CHOOSE g : Loop(g)
  <1>1. IsFiniteSet(T) /\ T \subseteq DOMAIN list
    <2>1. i \in Nat /\ i <= Len(list) /\ Len(list) \in Nat /\ DOMAIN list = 1 .. Len(list)
      BY DEF Types
    <2>2. IsFiniteSet(1 .. i)
      BY <2>1, FS_Interval
    <2> QED BY <2>1, <2>2
  <1>2. Expected = h[T]
    BY DEF Expected, PairTotal, MapThenFoldSet, Pick
  <1> HIDE DEF T
  <1>3. ASSUME NEW g PROVE Loop(g) <=> PairAdds(RequestsLacking, LimitsLacking, T, g)
    <2>1. \A s \in SUBSET T : s # {} =>
             Missing(list[Pick(s)]) = [requests |-> RequestsLacking[Pick(s)],
                                       limits |-> LimitsLacking[Pick(s)]]
      <3> SUFFICES ASSUME NEW s \in SUBSET T, s # {}
                   PROVE  Missing(list[Pick(s)]) = [requests |-> RequestsLacking[Pick(s)],
                                                    limits |-> LimitsLacking[Pick(s)]]
        OBVIOUS
      <3>1. Pick(s) \in DOMAIN list
        BY <1>1 DEF Pick
      <3> QED BY <3>1 DEF Missing, PairMaximum, PairQuotaMinus, NoWeights, Lack,
                          RequestsLacking, LimitsLacking
    <2> QED BY <2>1 DEF PairAdds
  <1>4. Loop(h)
    <2>1. \E g : Loop(g)
      BY <1>1, <1>3, PairSum
    <2> HIDE DEF Loop
    <2> QED BY <2>1
  <1>5. PairAdds(RequestsLacking, LimitsLacking, T, h)
    BY <1>3, <1>4
  <1> HIDE DEF h
  <1> QED BY <1>1, <1>2, <1>5, PairSum DEF T

\* Nothing is counted before the loop.
LEMMA UnadmittedInvInit == Init => UnadmittedInv
  <1> SUFFICES ASSUME Init PROVE UnadmittedInv
    OBVIOUS
  <1>1. Cardinality(AppWrappers) \in Nat
    BY UnadmittedAssumption, FS_CardinalityType
  <1>2. list \in Seq(AppWrappers) /\ Len(list) \in Nat
    BY <1>1 DEF Init
  <1>3. AreWeights(Zero) /\ \A k : Quantity(Zero, k) = 0
    BY ZeroWeights DEF ArePositive
  <1>4. Types
    BY <1>2, <1>3 DEF Init, Types, NoWeights
  <1>5. 1 .. i = {}
    BY DEF Init
  <1>6. \A F : Sum(F, 1 .. i) = Zero
    BY <1>5, FS_EmptySet, SumStep
  <1>7. weightsPair.requests = Zero /\ weightsPair.limits = Zero
    BY DEF Init, NoWeights
  <1>8. Bounded
    BY <1>3, <1>6, <1>7 DEF Bounded
  <1> QED BY <1>4, <1>8 DEF UnadmittedInv

\* A turn of the loop.
LEMMA NextKeeps ==
    ASSUME UnadmittedInv, Next
    PROVE  UnadmittedInv'
  <1> DEFINE n == i + 1
             a == ask[list[n]]
             c == created[list[n]]
             w == weightsPair
             R == Sum(RequestsLacking, 1 .. i)
             M == Sum(LimitsLacking, 1 .. i)
  <1>1. /\ Types /\ i' = n /\ list' = list /\ ask' = ask /\ created' = created
        /\ i \in Nat /\ Len(list) \in Nat /\ DOMAIN list = 1 .. Len(list) /\ i < Len(list)
        /\ weightsPair' = Account(w, a, c)
    BY DEF UnadmittedInv, Types, Next
  <1>2. /\ n \in DOMAIN list /\ n \notin 1 .. i /\ 1 .. n = (1 .. i) \cup {n}
        /\ IsFiniteSet(1 .. i) /\ 1 .. i \subseteq DOMAIN list
    <2>1. i \in Nat
      BY <1>1
    <2>2. IsFiniteSet(1 .. i)
      BY <2>1, FS_Interval
    <2> QED BY <1>1, <2>2
  <1>3. /\ weightsPair'.requests = Charged(w.requests, a.requests, c.requests)
        /\ weightsPair'.limits = Charged(w.limits, a.limits, c.limits)
        /\ weightsPair' = [requests |-> weightsPair'.requests,
                           limits |-> weightsPair'.limits]
    BY <1>1 DEF Account, PairMaximum, PairQuotaMinus, PairPlus, NoWeights, Charged
  <1>4. /\ RequestsLacking' = RequestsLacking /\ LimitsLacking' = LimitsLacking
        /\ NoSurplus' <=> NoSurplus
    BY <1>1 DEF RequestsLacking, LimitsLacking, NoSurplus, AtMost
  <1>5. /\ AreWeights(w.requests) /\ AreWeights(w.limits)
        /\ AreWeights(a.requests) /\ AreWeights(a.limits)
        /\ AreWeights(c.requests) /\ AreWeights(c.limits)
        /\ list[n] \in AppWrappers
        /\ \A k : Quantity(c.requests, k) >= 0 /\ Quantity(c.limits, k) >= 0
    <2> HIDE DEF n
    <2> QED BY <1>1, <1>2, PlaceTypes DEF Types
  <1>6. Types'
    <2>1. AreWeights(weightsPair'.requests) /\ AreWeights(weightsPair'.limits)
      BY <1>3, <1>5, ChargedQuantity
    <2> QED BY <1>1, <1>3, <2>1 DEF Types
  <1>7. /\ RequestsLacking[n] = Lack(a.requests, c.requests)
        /\ LimitsLacking[n] = Lack(a.limits, c.limits)
    BY <1>2 DEF RequestsLacking, LimitsLacking
  <1>8. ASSUME NEW k
        PROVE  /\ Quantity(R, k) \in Int /\ Quantity(M, k) \in Int
               /\ Quantity(Sum(RequestsLacking, 1 .. n), k) =
                     Quantity(R, k) + Quantity(Lack(a.requests, c.requests), k)
               /\ Quantity(Sum(LimitsLacking, 1 .. n), k) =
                     Quantity(M, k) + Quantity(Lack(a.limits, c.limits), k)
    <2>1. /\ \A y \in (1 .. i) \cup {n} : AreWeights(RequestsLacking[y])
          /\ \A y \in (1 .. i) \cup {n} : AreWeights(LimitsLacking[y])
      BY <1>1, <1>2, PlaceTypes
    <2>2. /\ AreWeights(R) /\ AreWeights(M)
          /\ Sum(RequestsLacking, (1 .. i) \cup {n}) = Plus(R, RequestsLacking[n])
          /\ Sum(LimitsLacking, (1 .. i) \cup {n}) = Plus(M, LimitsLacking[n])
      <3> HIDE DEF n
      <3> QED BY <1>2, <2>1, SumInsert
    <2>3. AreWeights(RequestsLacking[n]) /\ AreWeights(LimitsLacking[n])
      BY <2>1
    <2> HIDE DEF R, M, n, a, c
    <2>4. /\ Quantity(Plus(R, RequestsLacking[n]), k) =
                Quantity(R, k) + Quantity(RequestsLacking[n], k)
          /\ Quantity(Plus(M, LimitsLacking[n]), k) =
                Quantity(M, k) + Quantity(LimitsLacking[n], k)
      BY <2>2, <2>3, PlusQuantity
    <2>5. Quantity(R, k) \in Int /\ Quantity(M, k) \in Int
      BY <2>2, QuantityType
    <2>6. /\ Sum(RequestsLacking, 1 .. n) = Sum(RequestsLacking, (1 .. i) \cup {n})
          /\ Sum(LimitsLacking, 1 .. n) = Sum(LimitsLacking, (1 .. i) \cup {n})
      BY <1>2
    <2> QED BY <1>7, <2>2, <2>4, <2>5, <2>6
  <1>9. ASSUME NonNegativeAsks, NoSurplus, NEW k
        PROVE  /\ Quantity(a.requests, k) >= 0
               /\ Quantity(c.requests, k) <= Quantity(a.requests, k)
               /\ Quantity(a.limits, k) >= 0
               /\ Quantity(c.limits, k) <= Quantity(a.limits, k)
    <2>1. a \in Asks /\ AtMost(c, a)
      BY <1>1, <1>5, <1>9 DEF Types, NoSurplus
    <2> HIDE DEF a, c
    <2>2. /\ \A l \in DOMAIN a.requests : a.requests[l] >= 0
          /\ \A l \in DOMAIN a.limits : a.limits[l] >= 0
      BY <1>9, <2>1 DEF NonNegativeAsks
    <2>3. Quantity(a.requests, k) >= 0 /\ Quantity(a.limits, k) >= 0
      BY <2>2 DEF Quantity
    <2>4. /\ \A l \in DOMAIN c.requests : c.requests[l] <= Quantity(a.requests, l)
          /\ \A l \in DOMAIN c.limits : c.limits[l] <= Quantity(a.limits, l)
      BY <2>1 DEF AtMost
    <2>5. k \in DOMAIN c.requests => Quantity(c.requests, k) <= Quantity(a.requests, k)
      BY <2>4 DEF Quantity
    <2>6. k \notin DOMAIN c.requests => Quantity(c.requests, k) = 0
      BY DEF Quantity
    <2>7. k \in DOMAIN c.limits => Quantity(c.limits, k) <= Quantity(a.limits, k)
      BY <2>4 DEF Quantity
    <2>8. k \notin DOMAIN c.limits => Quantity(c.limits, k) = 0
      BY DEF Quantity
    <2>9. Quantity(a.requests, k) \in Int /\ Quantity(a.limits, k) \in Int
      BY <1>5, QuantityType
    <2> QED BY <2>3, <2>5, <2>6, <2>7, <2>8, <2>9
  <1>10. ASSUME NEW k
         PROVE  /\ Quantity(w.requests, k) >= 0 /\ Quantity(w.requests, k) <= Quantity(R, k)
                /\ Quantity(w.limits, k) >= 0 /\ Quantity(w.limits, k) <= Quantity(M, k)
                /\ NonNegativeAsks /\ NoSurplus =>
                      /\ Quantity(w.requests, k) = Quantity(R, k)
                      /\ Quantity(w.limits, k) = Quantity(M, k)
    BY DEF UnadmittedInv, Bounded
  <1> HIDE DEF a, c, w, R, M, n
  <1>11. ASSUME NEW k
         PROVE  LET r == Charged(w.requests, a.requests, c.requests)
                    m == Charged(w.limits, a.limits, c.limits)
                IN  /\ Quantity(r, k) >= 0
                    /\ Quantity(r, k) <= Quantity(Sum(RequestsLacking, 1 .. n), k)
                    /\ Quantity(m, k) >= 0
                    /\ Quantity(m, k) <= Quantity(Sum(LimitsLacking, 1 .. n), k)
                    /\ NonNegativeAsks /\ NoSurplus =>
                          /\ Quantity(r, k) = Quantity(Sum(RequestsLacking, 1 .. n), k)
                          /\ Quantity(m, k) = Quantity(Sum(LimitsLacking, 1 .. n), k)
    <2> DEFINE r == Charged(w.requests, a.requests, c.requests)
               m == Charged(w.limits, a.limits, c.limits)
               lr == Lack(a.requests, c.requests)
               lm == Lack(a.limits, c.limits)
    <2>1. /\ Quantity(r, k) >= 0
          /\ Quantity(r, k) <= Quantity(R, k) + Quantity(lr, k)
          /\ Quantity(w.requests, k) = Quantity(R, k) /\ Quantity(a.requests, k) >= 0
             /\ Quantity(c.requests, k) <= Quantity(a.requests, k)
                => Quantity(r, k) = Quantity(R, k) + Quantity(lr, k)
      BY <1>5, <1>8, <1>10, TurnBounds
    <2>2. /\ Quantity(m, k) >= 0
          /\ Quantity(m, k) <= Quantity(M, k) + Quantity(lm, k)
          /\ Quantity(w.limits, k) = Quantity(M, k) /\ Quantity(a.limits, k) >= 0
             /\ Quantity(c.limits, k) <= Quantity(a.limits, k)
                => Quantity(m, k) = Quantity(M, k) + Quantity(lm, k)
      BY <1>5, <1>8, <1>10, TurnBounds
    <2>3. /\ Quantity(Sum(RequestsLacking, 1 .. n), k) = Quantity(R, k) + Quantity(lr, k)
          /\ Quantity(Sum(LimitsLacking, 1 .. n), k) = Quantity(M, k) + Quantity(lm, k)
      BY <1>8
    <2> HIDE DEF r, m, lr, lm
    <2>4. NonNegativeAsks /\ NoSurplus =>
             /\ Quantity(r, k) = Quantity(R, k) + Quantity(lr, k)
             /\ Quantity(m, k) = Quantity(M, k) + Quantity(lm, k)
      BY <1>9, <1>10, <2>1, <2>2
    <2>5. /\ Quantity(r, k) >= 0
          /\ Quantity(r, k) <= Quantity(Sum(RequestsLacking, 1 .. n), k)
          /\ Quantity(m, k) >= 0
          /\ Quantity(m, k) <= Quantity(Sum(LimitsLacking, 1 .. n), k)
          /\ NonNegativeAsks /\ NoSurplus =>
                /\ Quantity(r, k) = Quantity(Sum(RequestsLacking, 1 .. n), k)
                /\ Quantity(m, k) = Quantity(Sum(LimitsLacking, 1 .. n), k)
      BY <2>1, <2>2, <2>3, <2>4
    <2> QED BY <2>5 DEF r, m
  <1>12. /\ Sum(RequestsLacking', 1 .. i') = Sum(RequestsLacking, 1 .. n)
         /\ Sum(LimitsLacking', 1 .. i') = Sum(LimitsLacking, 1 .. n)
    BY <1>1, <1>4
  <1>13. Bounded'
    BY <1>3, <1>4, <1>11, <1>12 DEF Bounded
  <1> QED BY <1>6, <1>13 DEF UnadmittedInv

\* UnadmittedInv is an inductive invariant of the loop of getUnadmittedPodsWeights.
THEOREM UnadmittedInvariant == Spec => []UnadmittedInv
  <1>1. UnadmittedInv /\ UNCHANGED vars => UnadmittedInv'
    BY DEF UnadmittedInv, Types, Bounded, vars, RequestsLacking, LimitsLacking, NoSurplus,
           AtMost
  <1>2. UnadmittedInv /\ [Next]_vars => UnadmittedInv'
    BY <1>1, NextKeeps
  <1> QED BY <1>2, UnadmittedInvInit, PTL DEF Spec

\* The order of the list and surplus pods never make getUnadmittedPodsWeights
\* (dispatcher.go) count demand that no AppWrapper in flight has.
THEOREM DemandIsNotOverstated == Spec => []NotOverstated
  <1>1. UnadmittedInv => NotOverstated
    BY ExpectedIs DEF UnadmittedInv, Bounded, NotOverstated, AtMost, Quantity
  <1> QED BY <1>1, UnadmittedInvariant, PTL

\* Without surplus pods it counts all of the demand: what it clamps to zero was
\* zero.
THEOREM DemandIsExact ==
    ASSUME NonNegativeAsks
    PROVE  Spec => []ExactWithoutSurplus
  <1>1. UnadmittedInv => ExactWithoutSurplus
    BY ExpectedIs DEF UnadmittedInv, Bounded, ExactWithoutSurplus, NoSurplus, AtMost, Quantity
  <1> QED BY <1>1, UnadmittedInvariant, PTL
=============================================================================
