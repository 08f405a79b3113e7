--------------------------- MODULE WeightsProofs ---------------------------
(***************************************************************************)
(* Arithmetic on weights (weights.go), a resource at a time, and sums of   *)
(* weights over finite sets: a sum does not depend on the order of its     *)
(* terms, is split, bounded and compared term by term.                     *)
(*                                                                         *)
(* The fold that computes a sum picks its elements in an order of its own, *)
(* so Sum is described by the loop it follows (Adds), and facts about it   *)
(* are proved by induction over the parts of the set.  The induction       *)
(* theorems of the library take an operator; FiniteInduction states the    *)
(* same of a set of sets, which the provers can use.                       *)
(***************************************************************************)
EXTENDS Weights, FiniteSetTheorems, TLAPS

\* The element the fold takes next.
Pick(s) == CHOOSE x \in s : TRUE

\* g follows the loop that adds up F over any part of S.
Adds(F, S, g) ==
    g = [s \in SUBSET S |->
            IF s = {} THEN Zero ELSE Plus(F[Pick(s)], g[s \ {Pick(s)}])]

\* The sum of F over S.
Sum(F, S) == (CHOOSE g : Adds(F, S, g))[S]

\* The sums of dispatch_logic.go and weights.go are such sums.
LEMMA TotalIsSum ==
    ASSUME NEW F, NEW S
    PROVE  Total(LAMBDA x : F[x], S) = Sum(F, S)
  BY DEF Total, MapThenFoldSet, Sum, Adds, Pick

\* Induction over the parts of a finite set: a set Good of sets that contains T
\* whenever it contains every proper part of T contains S.
LEMMA FiniteInduction ==
    ASSUME NEW S, IsFiniteSet(S), NEW Good,
           \A T \in SUBSET S : (\A U \in SUBSET T : U # T => U \in Good) => T \in Good
    PROVE  S \in Good
  <1> DEFINE Bad == {T \in SUBSET S : T \notin Good}
  <1> SUFFICES ASSUME Bad # {} PROVE FALSE
    OBVIOUS
  <1>1. IsWellFoundedOn(StrictSubsetOrdering(S), SUBSET S)
    <2>1. FiniteSubsetsOf(S) = SUBSET S
      BY FS_FiniteSubsetsOfFinite
    <2>2. IsWellFoundedOn(StrictSubsetOrdering(S), FiniteSubsetsOf(S))
      BY FS_StrictSubsetOrderingWellFounded, Zenon
    <2> QED BY <2>1, <2>2, Zenon
  <1>2. PICK T \in Bad : \A U \in Bad : ~(<<U, T>> \in StrictSubsetOrdering(S))
    <2> HIDE DEF Bad
    <2>1. Bad \subseteq SUBSET S
      BY DEF Bad
    <2> QED BY <1>1, <2>1, WFMin
  <1>3. \A U \in SUBSET T : U # T => U \in Good
    <2> SUFFICES ASSUME NEW U \in SUBSET T, U # T, U \notin Good PROVE FALSE
      OBVIOUS
    <2>1. U \in Bad
      OBVIOUS
    <2>2. <<U, T>> \in StrictSubsetOrdering(S)
      BY DEF StrictSubsetOrdering
    <2> QED BY <1>2, <2>1, <2>2
  <1> QED BY <1>3

\* One turn of the loop.
LEMMA AddsStep ==
    ASSUME NEW F, NEW S, NEW g, Adds(F, S, g), NEW T \in SUBSET S
    PROVE  /\ T = {} => g[T] = Zero
           /\ T # {} => /\ Pick(T) \in T
                        /\ g[T] = Plus(F[Pick(T)], g[T \ {Pick(T)}])
  <1>1. T # {} => Pick(T) \in T
    BY DEF Pick
  <1> HIDE DEF Pick
  <1>2. g[T] = IF T = {} THEN Zero ELSE Plus(F[Pick(T)], g[T \ {Pick(T)}])
    BY DEF Adds
  <1> QED BY <1>1, <1>2

\* The loop does the same on a part of two sets.
LEMMA AddsAgree ==
    ASSUME NEW F, NEW S, NEW T, NEW g, NEW h, Adds(F, S, g), Adds(F, T, h),
           NEW U, U \subseteq S, U \subseteq T, IsFiniteSet(U)
    PROVE  g[U] = h[U]
  <1> DEFINE Good == {V \in SUBSET U : g[V] = h[V]}
  <1>1. ASSUME NEW V \in SUBSET U, \A W \in SUBSET V : W # V => W \in Good
        PROVE  V \in Good
    <2>1. CASE V = {}
      BY <2>1, AddsStep, ZenonT(40)
    <2>2. CASE V # {}
      <3> DEFINE W == V \ {Pick(V)}
      <3>1. /\ Pick(V) \in V
            /\ g[V] = Plus(F[Pick(V)], g[W])
            /\ h[V] = Plus(F[Pick(V)], h[W])
        BY <2>2, AddsStep
      <3>2. W \in SUBSET V /\ W # V
        BY <3>1
      <3>3. g[W] = h[W]
        BY <3>2, <1>1
      <3> QED BY <3>1, <3>3
    <2> QED BY <2>1, <2>2
  <1> HIDE DEF Good
  <1>2. U \in Good
    BY <1>1, FiniteInduction
  <1> QED BY <1>2 DEF Good

\* The loop on a part of a set.
LEMMA AddsPart ==
    ASSUME NEW F, NEW S, NEW g, Adds(F, S, g), NEW T \in SUBSET S
    PROVE  Adds(F, T, [s \in SUBSET T |-> g[s]])
  <1> DEFINE h == [s \in SUBSET T |-> g[s]]
             e(s) == IF s = {} THEN Zero ELSE Plus(F[Pick(s)], h[s \ {Pick(s)}])
  <1>1. ASSUME NEW s \in SUBSET T PROVE h[s] = e(s)
    <2>1. h[s] = g[s]
      OBVIOUS
    <2>2. s # {} => h[s \ {Pick(s)}] = g[s \ {Pick(s)}]
      OBVIOUS
    <2> QED BY <2>1, <2>2, AddsStep
  <1>2. h = [s \in SUBSET T |-> e(s)]
    BY <1>1
  <1> QED BY <1>2 DEF Adds

\* There is a function that follows the loop: a sum exists.
LEMMA AddsExists ==
    ASSUME NEW F, NEW S, IsFiniteSet(S)
    PROVE  \E g : Adds(F, S, g)
  <1> DEFINE Good == {T \in SUBSET S : \E g : Adds(F, T, g)}
  <1>1. ASSUME NEW T \in SUBSET S, \A U \in SUBSET T : U # T => U \in Good
        PROVE  T \in Good
    <2>1. CASE T = {}
      <3> DEFINE g == [s \in SUBSET T |-> Zero]
      <3>1. Adds(F, T, g)
        BY <2>1 DEF Adds
      <3> QED BY <3>1
    <2>2. CASE T # {}
      <3> DEFINE x == Pick(T)
                 U == T \ {x}
      <3>1. x \in T
        BY <2>2 DEF Pick
      <3>2. U \in Good
        BY <1>1, <3>1
      <3>3. PICK h : Adds(F, U, h)
        BY <3>2
      <3> DEFINE part(s) == CHOOSE k : Adds(F, s, k)
                 g == [s \in SUBSET T |->
                         IF s = T THEN Plus(F[x], h[U]) ELSE part(s)[s]]
                 e(s) == IF s = {} THEN Zero
                         ELSE Plus(F[Pick(s)], g[s \ {Pick(s)}])
      <3>4. ASSUME NEW s \in SUBSET T, s # T
            PROVE  Adds(F, s, part(s)) /\ IsFiniteSet(s)
        <4>1. \E k : Adds(F, s, k)
          BY <1>1, <3>4
        <4> QED BY <4>1, FS_Subset
      <3>5. g[U] = h[U]
        <4>1. U \in SUBSET T /\ U # T
          BY <3>1
        <4>2. part(U)[U] = h[U]
          <5> HIDE DEF U
          <5> QED BY <3>3, <3>4, <4>1, AddsAgree
        <4> QED BY <4>1, <4>2
      <3>6. ASSUME NEW s \in SUBSET T PROVE g[s] = e(s)
        <4>1. CASE s = T
          BY <4>1, <2>2, <3>5
        <4>2. CASE s # T
          <5> DEFINE t == s \ {Pick(s)}
          <5>1. t \in SUBSET T /\ t # T /\ t \in SUBSET s
            BY <4>2
          <5>2. g[s] = part(s)[s] /\ g[t] = part(t)[t]
            BY <4>2, <5>1
          <5>3. part(s)[t] = part(t)[t]
            <6> HIDE DEF t, part
            <6> QED BY <3>4, <4>2, <5>1, AddsAgree
          <5>4. part(s)[s] = IF s = {} THEN Zero ELSE Plus(F[Pick(s)], part(s)[t])
            <6> HIDE DEF part
            <6> QED BY <3>4, <4>2, AddsStep
          <5> HIDE DEF part
          <5> QED BY <5>2, <5>3, <5>4
        <4> QED BY <4>1, <4>2
      <3>7. Adds(F, T, g)
        <4>1. g = [s \in SUBSET T |-> e(s)]
          <5> HIDE DEF e
          <5> QED BY <3>6
        <4> QED BY <4>1 DEF Adds
      <3> QED BY <3>7
    <2> QED BY <2>1, <2>2
  <1> HIDE DEF Good
  <1>2. S \in Good
    BY <1>1, FiniteInduction
  <1> QED BY <1>2 DEF Good

\* The loop on a finite set ends, with the sum.
LEMMA SumAdds ==
    ASSUME NEW F, NEW S, IsFiniteSet(S), NEW g, Adds(F, S, g)
    PROVE  Sum(F, S) = g[S]
  <1> DEFINE h == CHOOSE h : Adds(F, S, h)
  <1>1. Adds(F, S, h)
    OBVIOUS
  <1>2. h[S] = g[S]
    <2> HIDE DEF h
    <2> QED BY <1>1, AddsAgree
  <1> QED BY <1>2 DEF Sum

\* The sum adds one element at a time.
LEMMA SumStep ==
    ASSUME NEW F, NEW S, IsFiniteSet(S)
    PROVE  /\ S = {} => Sum(F, S) = Zero
           /\ S # {} => /\ Pick(S) \in S
                        /\ Sum(F, S) = Plus(F[Pick(S)], Sum(F, S \ {Pick(S)}))
  <1>1. PICK g : Adds(F, S, g)
    BY AddsExists
  <1>2. Sum(F, S) = g[S]
    BY <1>1, SumAdds
  <1> DEFINE T == S \ {Pick(S)}
  <1>3. Sum(F, T) = g[T]
    <2> DEFINE h == [s \in SUBSET T |-> g[s]]
    <2>1. Adds(F, T, h)
      BY <1>1, AddsPart
    <2>2. IsFiniteSet(T)
      BY FS_Subset
    <2>3. h[T] = g[T]
      OBVIOUS
    <2> HIDE DEF h, T
    <2> QED BY <2>1, <2>2, <2>3, SumAdds
  <1>4. /\ S = {} => g[S] = Zero
        /\ S # {} => Pick(S) \in S /\ g[S] = Plus(F[Pick(S)], g[T])
    BY <1>1, AddsStep
  <1> QED BY <1>2, <1>3, <1>4

-----------------------------------------------------------------------------
(* Weights, quantity by quantity.                                          *)

\* Quantities are integers.
AreWeights(w) == w \in [DOMAIN w -> Int]

\* No quantity is negative.
ArePositive(w) == AreWeights(w) /\ \A k \in DOMAIN w : w[k] >= 0

\* The empty map is one of weights.
LEMMA ZeroWeights == ArePositive(Zero) /\ \A k : Quantity(Zero, k) = 0
  BY DEF ArePositive, AreWeights, Zero, Quantity

\* A quantity is a number, 0 if there is none.
LEMMA QuantityType ==
    ASSUME NEW w, NEW k
    PROVE  /\ AreWeights(w) => Quantity(w, k) \in Int
           /\ ArePositive(w) => Quantity(w, k) >= 0
  BY DEF AreWeights, ArePositive, Quantity

\* Add (weights.go), a resource at a time.
LEMMA PlusWeights ==
    ASSUME NEW w, NEW r, AreWeights(w), AreWeights(r)
    PROVE  /\ AreWeights(Plus(w, r))
           /\ \A k : Quantity(Plus(w, r), k) = Quantity(w, k) + Quantity(r, k)
           /\ DOMAIN Plus(w, r) = DOMAIN w \cup DOMAIN r
  <1>1. DOMAIN Plus(w, r) = DOMAIN w \cup DOMAIN r
    BY DEF Plus
  <1>2. \A k : Quantity(w, k) \in Int /\ Quantity(r, k) \in Int
    BY QuantityType
  <1>3. AreWeights(Plus(w, r))
    BY <1>2 DEF Plus, AreWeights
  <1>4. ASSUME NEW k PROVE Quantity(Plus(w, r), k) = Quantity(w, k) + Quantity(r, k)
    <2>1. CASE k \in DOMAIN w \cup DOMAIN r
      BY <1>1, <2>1 DEF Plus, Quantity
    <2>2. CASE k \notin DOMAIN w \cup DOMAIN r
      BY <1>1, <2>2 DEF Quantity
    <2> QED BY <2>1, <2>2
  <1> QED BY <1>1, <1>3, <1>4

\* Sub (weights.go), a resource at a time.
LEMMA MinusWeights ==
    ASSUME NEW w, NEW r, AreWeights(w), AreWeights(r)
    PROVE  /\ AreWeights(Minus(w, r))
           /\ \A k : Quantity(Minus(w, r), k) = Quantity(w, k) - Quantity(r, k)
           /\ DOMAIN Minus(w, r) = DOMAIN w \cup DOMAIN r
  <1>1. DOMAIN Minus(w, r) = DOMAIN w \cup DOMAIN r
    BY DEF Minus
  <1>2. \A k : Quantity(w, k) \in Int /\ Quantity(r, k) \in Int
    BY QuantityType
  <1>3. AreWeights(Minus(w, r))
    BY <1>2 DEF Minus, AreWeights
  <1>4. ASSUME NEW k PROVE Quantity(Minus(w, r), k) = Quantity(w, k) - Quantity(r, k)
    <2>1. CASE k \in DOMAIN w \cup DOMAIN r
      BY <1>1, <2>1 DEF Minus, Quantity
    <2>2. CASE k \notin DOMAIN w \cup DOMAIN r
      BY <1>1, <2>2 DEF Quantity
    <2> QED BY <2>1, <2>2
  <1> QED BY <1>1, <1>3, <1>4

\* A resource of a sum, ...
LEMMA PlusQuantity ==
    ASSUME NEW w, NEW r, AreWeights(w), AreWeights(r), NEW k
    PROVE  /\ AreWeights(Plus(w, r))
           /\ Quantity(w, k) \in Int /\ Quantity(r, k) \in Int
           /\ Quantity(Plus(w, r), k) = Quantity(w, k) + Quantity(r, k)
  BY PlusWeights, QuantityType

\* ... and of a difference.
LEMMA MinusQuantity ==
    ASSUME NEW w, NEW r, AreWeights(w), AreWeights(r), NEW k
    PROVE  /\ AreWeights(Minus(w, r))
           /\ Quantity(w, k) \in Int /\ Quantity(r, k) \in Int
           /\ Quantity(Minus(w, r), k) = Quantity(w, k) - Quantity(r, k)
  BY MinusWeights, QuantityType

\* Max (weights.go), a resource at a time.
LEMMA MaximumWeights ==
    ASSUME NEW w, NEW r, AreWeights(w), AreWeights(r)
    PROVE  /\ AreWeights(Maximum(w, r))
           /\ \A k : Quantity(Maximum(w, r), k) >= Quantity(w, k)
           /\ ArePositive(w) => ArePositive(Maximum(w, r))
  <1>1. DOMAIN Maximum(w, r) = DOMAIN w \cup DOMAIN r
    BY DEF Maximum
  <1>2. \A k : Quantity(w, k) \in Int
    BY QuantityType
  <1>3. \A k \in DOMAIN r : r[k] \in Int
    BY DEF AreWeights
  <1>4. AreWeights(Maximum(w, r))
    BY <1>2, <1>3 DEF Maximum, AreWeights
  <1>5. ASSUME NEW k PROVE Quantity(Maximum(w, r), k) >= Quantity(w, k)
    <2>1. CASE k \in DOMAIN w \cup DOMAIN r
      <3>1. Quantity(Maximum(w, r), k) =
               IF k \in DOMAIN r /\ Quantity(w, k) < r[k] THEN r[k]
               ELSE Quantity(w, k)
        BY <1>1, <2>1 DEF Maximum, Quantity
      <3> QED BY <3>1, <1>2, <1>3
    <2>2. CASE k \notin DOMAIN w \cup DOMAIN r
      BY <1>1, <2>2 DEF Quantity
    <2> QED BY <2>1, <2>2
  <1>6. ASSUME ArePositive(w), NEW k \in DOMAIN Maximum(w, r)
        PROVE  Maximum(w, r)[k] >= 0
    <2>1. Quantity(w, k) \in Int /\ Quantity(w, k) >= 0
      BY <1>6, QuantityType DEF ArePositive
    <2>2. Quantity(Maximum(w, r), k) = Maximum(w, r)[k]
      BY <1>6 DEF Quantity
    <2>3. Maximum(w, r)[k] \in Int
      BY <1>4, <1>6 DEF AreWeights
    <2> QED BY <2>1, <2>2, <2>3, <1>5
  <1> QED BY <1>4, <1>5, <1>6 DEF ArePositive

\* Fits, quantity by quantity.
LEMMA FitsQuantities ==
    ASSUME NEW w, NEW r
    PROVE  Fits(w, r) <=>
               \A k : Quantity(w, k) > 0 =>
                          k \in DOMAIN r /\ ~(Quantity(w, k) > r[k])
  <1>1. Fits(w, r) <=> \A k \in DOMAIN w :
                          w[k] > 0 => k \in DOMAIN r /\ ~(w[k] > r[k])
    BY DEF Fits, Insufficient
  <1>2. \A k : k \in DOMAIN w => Quantity(w, k) = w[k]
    BY DEF Quantity
  <1>3. \A k : k \notin DOMAIN w => Quantity(w, k) = 0
    BY DEF Quantity
  <1> QED BY <1>1, <1>2, <1>3

-----------------------------------------------------------------------------
(* Sums of weights.                                                        *)

\* A sum of weights is a map of weights.
LEMMA SumWeights ==
    ASSUME NEW F, NEW S, IsFiniteSet(S), \A x \in S : AreWeights(F[x])
    PROVE  AreWeights(Sum(F, S))
  <1> DEFINE Good == {T \in SUBSET S : AreWeights(Sum(F, T))}
  <1>1. ASSUME NEW T \in SUBSET S, \A U \in SUBSET T : U # T => U \in Good
        PROVE  T \in Good
    <2>1. IsFiniteSet(T)
      BY FS_Subset
    <2>2. CASE T = {}
      BY <2>1, <2>2, SumStep, ZeroWeights DEF ArePositive
    <2>3. CASE T # {}
      <3> DEFINE U == T \ {Pick(T)}
      <3>1. Pick(T) \in T /\ Sum(F, T) = Plus(F[Pick(T)], Sum(F, U))
        BY <2>1, <2>3, SumStep
      <3>2. AreWeights(Sum(F, U))
        BY <1>1, <3>1
      <3> HIDE DEF U
      <3> QED BY <3>1, <3>2, PlusWeights
    <2> QED BY <2>2, <2>3
  <1> HIDE DEF Good
  <1>2. S \in Good
    BY <1>1, FiniteInduction
  <1> QED BY <1>2 DEF Good

\* Plus is commutative and associative.
LEMMA PlusSwap ==
    ASSUME NEW u, NEW v, NEW w, AreWeights(u), AreWeights(v), AreWeights(w)
    PROVE  Plus(u, Plus(v, w)) = Plus(v, Plus(u, w))
  <1> DEFINE l == Plus(u, Plus(v, w))
             r == Plus(v, Plus(u, w))
  <1>1. AreWeights(Plus(v, w)) /\ AreWeights(Plus(u, w))
    BY PlusWeights
  <1>2. AreWeights(l) /\ AreWeights(r) /\ DOMAIN l = DOMAIN r
    <2>1. /\ DOMAIN Plus(v, w) = DOMAIN v \cup DOMAIN w
          /\ DOMAIN Plus(u, w) = DOMAIN u \cup DOMAIN w
      BY PlusWeights
    <2>2. /\ DOMAIN l = DOMAIN u \cup DOMAIN Plus(v, w)
          /\ DOMAIN r = DOMAIN v \cup DOMAIN Plus(u, w)
      BY <1>1, PlusWeights
    <2>3. DOMAIN l = DOMAIN r
      BY <2>1, <2>2
    <2> QED BY <2>3, <1>1, PlusWeights
  <1>3. ASSUME NEW k \in DOMAIN l PROVE l[k] = r[k]
    <2>1. Quantity(l, k) = Quantity(u, k) + Quantity(Plus(v, w), k)
      BY <1>1, PlusQuantity
    <2>2. Quantity(r, k) = Quantity(v, k) + Quantity(Plus(u, w), k)
      BY <1>1, PlusQuantity
    <2>3. /\ Quantity(Plus(v, w), k) = Quantity(v, k) + Quantity(w, k)
          /\ Quantity(Plus(u, w), k) = Quantity(u, k) + Quantity(w, k)
      BY PlusQuantity
    <2>4. Quantity(u, k) \in Int /\ Quantity(v, k) \in Int /\ Quantity(w, k) \in Int
      BY QuantityType
    <2>5. Quantity(l, k) = Quantity(r, k)
      BY <2>1, <2>2, <2>3, <2>4
    <2> HIDE DEF l, r
    <2> QED BY <2>5, <1>2 DEF Quantity
  <1> HIDE DEF l, r
  <1>4. l = r
    BY <1>2, <1>3 DEF AreWeights
  <1> QED BY <1>4 DEF l, r

\* The sum does not depend on the order of the loop: any element may come first.
LEMMA SumTake ==
    ASSUME NEW F, NEW S, IsFiniteSet(S), \A x \in S : AreWeights(F[x]),
           NEW x \in S
    PROVE  Sum(F, S) = Plus(F[x], Sum(F, S \ {x}))
  <1> DEFINE Good == {T \in SUBSET S :
                        \A y \in T : Sum(F, T) = Plus(F[y], Sum(F, T \ {y}))}
  <1>1. ASSUME NEW T \in SUBSET S, \A U \in SUBSET T : U # T => U \in Good
        PROVE  T \in Good
    <2> SUFFICES ASSUME NEW y \in T
                 PROVE  Sum(F, T) = Plus(F[y], Sum(F, T \ {y}))
      OBVIOUS
    <2> DEFINE z == Pick(T)
               U == T \ {y, z}
    <2>1. IsFiniteSet(T) /\ IsFiniteSet(U) /\ IsFiniteSet(T \ {y}) /\ IsFiniteSet(T \ {z})
      BY FS_Subset
    <2>2. z \in T /\ Sum(F, T) = Plus(F[z], Sum(F, T \ {z}))
      BY <2>1, SumStep
    <2>3. CASE y = z
      BY <2>2, <2>3
    <2>4. CASE y # z
      <3>1. Sum(F, T \ {z}) = Plus(F[y], Sum(F, U))
        <4>1. T \ {z} \in Good /\ y \in T \ {z}
          BY <1>1, <2>2, <2>4
        <4>2. (T \ {z}) \ {y} = U
          OBVIOUS
        <4> QED BY <4>1, <4>2
      <3>2. Sum(F, T \ {y}) = Plus(F[z], Sum(F, U))
        <4>1. T \ {y} \in Good /\ z \in T \ {y}
          BY <1>1, <2>2, <2>4
        <4>2. (T \ {y}) \ {z} = U
          OBVIOUS
        <4> QED BY <4>1, <4>2
      <3>3. AreWeights(F[y]) /\ AreWeights(F[z]) /\ AreWeights(Sum(F, U))
        BY <2>1, <2>2, SumWeights
      <3> HIDE DEF z, U
      <3> QED BY <2>2, <3>1, <3>2, <3>3, PlusSwap
    <2> QED BY <2>3, <2>4
  <1> HIDE DEF Good
  <1>2. S \in Good
    BY <1>1, FiniteInduction
  <1> QED BY <1>2 DEF Good

\* A quantity of a sum, with one element taken out.
LEMMA SumQuantity ==
    ASSUME NEW F, NEW S, IsFiniteSet(S), \A x \in S : AreWeights(F[x]), NEW k
    PROVE  /\ Quantity(Sum(F, S), k) \in Int
           /\ Quantity(Sum(F, {}), k) = 0
           /\ \A x \in S : /\ Quantity(F[x], k) \in Int
                           /\ Quantity(Sum(F, S \ {x}), k) \in Int
                           /\ Quantity(Sum(F, S), k) =
                                 Quantity(F[x], k) + Quantity(Sum(F, S \ {x}), k)
  <1>1. Quantity(Sum(F, S), k) \in Int
    BY SumWeights, QuantityType
  <1>2. Quantity(Sum(F, {}), k) = 0
    BY FS_EmptySet, SumStep, ZeroWeights
  <1>3. ASSUME NEW x \in S
        PROVE  /\ Quantity(F[x], k) \in Int
               /\ Quantity(Sum(F, S \ {x}), k) \in Int
               /\ Quantity(Sum(F, S), k) =
                     Quantity(F[x], k) + Quantity(Sum(F, S \ {x}), k)
    <2>1. AreWeights(F[x]) /\ AreWeights(Sum(F, S \ {x}))
      <3>1. IsFiniteSet(S \ {x})
        BY FS_Subset
      <3> QED BY <3>1, SumWeights
    <2>2. Sum(F, S) = Plus(F[x], Sum(F, S \ {x}))
      BY SumTake
    <2>3. Quantity(F[x], k) \in Int /\ Quantity(Sum(F, S \ {x}), k) \in Int
      BY <2>1, QuantityType
    <2>4. Quantity(Plus(F[x], Sum(F, S \ {x})), k) =
             Quantity(F[x], k) + Quantity(Sum(F, S \ {x}), k)
      BY <2>1, PlusWeights
    <2> QED BY <2>2, <2>3, <2>4
  <1> QED BY <1>1, <1>2, <1>3

\* If each term grows, the sum grows.
LEMMA SumDominated ==
    ASSUME NEW F, NEW G, NEW S, IsFiniteSet(S), NEW k,
           \A x \in S : AreWeights(F[x]) /\ AreWeights(G[x]),
           \A x \in S : Quantity(F[x], k) <= Quantity(G[x], k)
    PROVE  Quantity(Sum(F, S), k) <= Quantity(Sum(G, S), k)
  <1> DEFINE Good == {T \in SUBSET S :
                        Quantity(Sum(F, T), k) <= Quantity(Sum(G, T), k)}
  <1>1. ASSUME NEW T \in SUBSET S, \A U \in SUBSET T : U # T => U \in Good
        PROVE  T \in Good
    <2>1. IsFiniteSet(T)
      BY FS_Subset
    <2>2. CASE T = {}
      <3>1. Quantity(Sum(F, {}), k) = 0 /\ Quantity(Sum(G, {}), k) = 0
        BY <2>1, SumQuantity
      <3> QED BY <2>2, <3>1
    <2>3. CASE T # {}
      <3>1. PICK x \in T : TRUE
        BY <2>3
      <3> DEFINE U == T \ {x}
      <3>2. Quantity(Sum(F, U), k) <= Quantity(Sum(G, U), k)
        BY <1>1
      <3>3. /\ Quantity(F[x], k) \in Int
            /\ Quantity(Sum(F, U), k) \in Int
            /\ Quantity(Sum(F, T), k) = Quantity(F[x], k) + Quantity(Sum(F, U), k)
        BY <2>1, SumQuantity
      <3>4. /\ Quantity(G[x], k) \in Int
            /\ Quantity(Sum(G, U), k) \in Int
            /\ Quantity(Sum(G, T), k) = Quantity(G[x], k) + Quantity(Sum(G, U), k)
        BY <2>1, SumQuantity
      <3>5. Quantity(F[x], k) <= Quantity(G[x], k)
        OBVIOUS
      <3> HIDE DEF U
      <3>6. Quantity(Sum(F, T), k) <= Quantity(Sum(G, T), k)
        BY <3>2, <3>3, <3>4, <3>5
      <3> QED BY <3>6
    <2> QED BY <2>2, <2>3
  <1> HIDE DEF Good
  <1>2. S \in Good
    BY <1>1, FiniteInduction
  <1> QED BY <1>2 DEF Good

\* A sum of quantities that are not negative is not negative.
LEMMA SumPositive ==
    ASSUME NEW F, NEW S, IsFiniteSet(S), \A x \in S : ArePositive(F[x]), NEW k
    PROVE  Quantity(Sum(F, S), k) >= 0
  <1> DEFINE Good == {T \in SUBSET S : Quantity(Sum(F, T), k) >= 0}
  <1>0. \A x \in S : AreWeights(F[x])
    BY DEF ArePositive
  <1>1. ASSUME NEW T \in SUBSET S, \A U \in SUBSET T : U # T => U \in Good
        PROVE  T \in Good
    <2>1. IsFiniteSet(T)
      BY FS_Subset
    <2>2. CASE T = {}
      <3>1. Quantity(Sum(F, {}), k) = 0
        BY <2>1, <1>0, SumQuantity
      <3> QED BY <2>2, <3>1
    <2>3. CASE T # {}
      <3>1. PICK x \in T : TRUE
        BY <2>3
      <3> DEFINE U == T \ {x}
      <3>2. Quantity(Sum(F, U), k) >= 0
        BY <1>1
      <3>3. /\ Quantity(F[x], k) \in Int
            /\ Quantity(Sum(F, U), k) \in Int
            /\ Quantity(Sum(F, T), k) = Quantity(F[x], k) + Quantity(Sum(F, U), k)
        <4>1. \A y \in T : AreWeights(F[y])
          BY <1>0
        <4> HIDE DEF Good
        <4>2. \A y \in T : /\ Quantity(F[y], k) \in Int
                          /\ Quantity(Sum(F, T \ {y}), k) \in Int
                          /\ Quantity(Sum(F, T), k) =
                                Quantity(F[y], k) + Quantity(Sum(F, T \ {y}), k)
          BY <2>1, <4>1, SumQuantity
        <4> QED BY <4>2
      <3>4. Quantity(F[x], k) >= 0
        BY QuantityType
      <3> HIDE DEF U
      <3>5. Quantity(Sum(F, T), k) >= 0
        BY <3>2, <3>3, <3>4
      <3> QED BY <3>5
    <2> QED BY <2>2, <2>3
  <1> HIDE DEF Good
  <1>2. S \in Good
    BY <1>1, FiniteInduction
  <1> QED BY <1>2 DEF Good

\* More elements, a larger sum.
LEMMA SumGrows ==
    ASSUME NEW F, NEW S, IsFiniteSet(S), \A x \in S : ArePositive(F[x]), NEW k,
           NEW T \in SUBSET S
    PROVE  Quantity(Sum(F, T), k) <= Quantity(Sum(F, S), k)
  <1> DEFINE Good == {V \in SUBSET S :
                        \A U \in SUBSET V :
                            Quantity(Sum(F, U), k) <= Quantity(Sum(F, V), k)}
  <1>0. \A x \in S : AreWeights(F[x])
    BY DEF ArePositive
  <1>1. ASSUME NEW V \in SUBSET S, \A U \in SUBSET V : U # V => U \in Good
        PROVE  V \in Good
    <2> SUFFICES ASSUME NEW U \in SUBSET V
                 PROVE  Quantity(Sum(F, U), k) <= Quantity(Sum(F, V), k)
      OBVIOUS
    <2>1. IsFiniteSet(V) /\ IsFiniteSet(U)
      BY FS_Subset
    <2>2. Quantity(Sum(F, U), k) \in Int
      BY <1>0, <2>1, SumQuantity
    <2>3. CASE U = V
      BY <2>2, <2>3
    <2>4. CASE U # V
      <3>1. PICK x \in V : x \notin U
        BY <2>4
      <3> DEFINE W == V \ {x}
      <3>2. Quantity(Sum(F, U), k) <= Quantity(Sum(F, W), k)
        <4>1. U \in SUBSET W /\ W \in Good
          BY <1>1, <3>1
        <4> QED BY <4>1
      <3>3. /\ Quantity(F[x], k) \in Int
            /\ Quantity(Sum(F, W), k) \in Int
            /\ Quantity(Sum(F, V), k) = Quantity(F[x], k) + Quantity(Sum(F, W), k)
        <4>1. \A y \in V : AreWeights(F[y])
          BY <1>0
        <4> HIDE DEF Good
        <4>2. \A y \in V : /\ Quantity(F[y], k) \in Int
                          /\ Quantity(Sum(F, V \ {y}), k) \in Int
                          /\ Quantity(Sum(F, V), k) =
                                Quantity(F[y], k) + Quantity(Sum(F, V \ {y}), k)
          BY <2>1, <4>1, SumQuantity
        <4> QED BY <4>2
      <3>4. Quantity(F[x], k) >= 0
        BY QuantityType
      <3> HIDE DEF W
      <3> QED BY <2>2, <3>2, <3>3, <3>4
    <2> QED BY <2>3, <2>4
  <1> HIDE DEF Good
  <1>2. S \in Good
    BY <1>1, FiniteInduction
  <1> QED BY <1>2 DEF Good

\* The sum over two sets is at most what the sums over each of them add up to.
LEMMA SumUnion ==
    ASSUME NEW F, NEW S, NEW T, IsFiniteSet(S), IsFiniteSet(T), NEW k,
           \A x \in S \cup T : ArePositive(F[x])
    PROVE  Quantity(Sum(F, S \cup T), k) <=
               Quantity(Sum(F, S), k) + Quantity(Sum(F, T), k)
  <1> DEFINE Good == {V \in SUBSET T :
                        Quantity(Sum(F, S \cup V), k) <=
                            Quantity(Sum(F, S), k) + Quantity(Sum(F, V), k)}
  <1>0. \A x \in S \cup T : AreWeights(F[x])
    BY DEF ArePositive
  <1>1. ASSUME NEW V \in SUBSET T, \A U \in SUBSET V : U # V => U \in Good
        PROVE  V \in Good
    <2>1. IsFiniteSet(V) /\ IsFiniteSet(S \cup V)
      BY FS_Subset, FS_Union
    <2>2. Quantity(Sum(F, S), k) \in Int
      BY <1>0, SumQuantity
    <2>3. CASE V = {}
      <3>1. Quantity(Sum(F, {}), k) = 0 /\ S \cup V = S
        BY <1>0, <2>3, SumQuantity
      <3> QED BY <2>2, <2>3, <3>1
    <2>4. CASE V # {}
      <3>1. PICK x \in V : TRUE
        BY <2>4
      <3> DEFINE U == V \ {x}
                 q(X) == Quantity(Sum(F, X), k)
      <3>2. q(S \cup U) <= q(S) + q(U)
        BY <1>1
      <3>3. /\ Quantity(F[x], k) \in Int
            /\ q(U) \in Int
            /\ q(V) = Quantity(F[x], k) + q(U)
        BY <2>1, <1>0, SumQuantity
      <3>4. Quantity(F[x], k) >= 0
        BY QuantityType
      <3>5. q(S \cup V) \in Int
        BY <2>1, <1>0, SumQuantity
      <3>6. CASE x \in S
        <4>1. q(S \cup V) = q(S \cup U)
          <5>1. S \cup V = S \cup U
            BY <3>6
          <5> QED BY <5>1
        <4>2. q(S) \in Int
          BY <2>2
        <4> HIDE DEF U, q
        <4>3. q(S \cup V) <= q(S) + q(V)
          BY <4>1, <4>2, <3>2, <3>3, <3>4, <3>5
        <4> QED BY <4>3 DEF q
      <3>7. CASE x \notin S
        <4>1. (S \cup V) \ {x} = S \cup U
          BY <3>7
        <4>2. /\ q(S \cup U) \in Int
              /\ q(S \cup V) = Quantity(F[x], k) + q(S \cup U)
          <5> DEFINE W == S \cup V
          <5>1. IsFiniteSet(W) /\ x \in W /\ \A y \in W : AreWeights(F[y])
            BY <2>1, <1>0
          <5> HIDE DEF W
          <5>2. /\ Quantity(Sum(F, W \ {x}), k) \in Int
                /\ Quantity(Sum(F, W), k) =
                      Quantity(F[x], k) + Quantity(Sum(F, W \ {x}), k)
            BY <5>1, SumQuantity
          <5> QED BY <5>2, <4>1 DEF W
        <4>3. q(S) \in Int
          BY <2>2
        <4> HIDE DEF U, q
        <4>4. q(S \cup V) <= q(S) + q(V)
          BY <4>2, <4>3, <3>2, <3>3
        <4> QED BY <4>4 DEF q
      <3> QED BY <3>6, <3>7
    <2> QED BY <2>3, <2>4
  <1> HIDE DEF Good
  <1>2. T \in Good
    BY <1>1, FiniteInduction
  <1> QED BY <1>2 DEF Good
-----------------------------------------------------------------------------
(* Equations between weights.                                              *)

\* Two maps with the same keys and the same quantities are the same.
LEMMA WeightsEqual ==
    ASSUME NEW w, NEW r, AreWeights(w), AreWeights(r), DOMAIN w = DOMAIN r,
           \A k : Quantity(w, k) = Quantity(r, k)
    PROVE  w = r
  <1>1. \A k \in DOMAIN w : w[k] = r[k]
    BY DEF Quantity
  <1> QED BY <1>1 DEF AreWeights

\* Adding nothing, and the order in which weights are added.
LEMMA PlusLaws ==
    ASSUME NEW u, NEW v, AreWeights(u), AreWeights(v)
    PROVE  /\ Plus(u, Zero) = u
           /\ Plus(Zero, u) = u
           /\ Plus(u, v) = Plus(v, u)
  <1>1. /\ DOMAIN Zero = {} /\ AreWeights(Zero)
        /\ \A k : Quantity(Zero, k) = 0
    BY ZeroWeights DEF ArePositive, Zero
  <1>2. \A k : Quantity(u, k) \in Int /\ Quantity(v, k) \in Int
    BY QuantityType
  <1>3. Plus(u, Zero) = u
    <2> DEFINE p == Plus(u, Zero)
    <2>1. /\ AreWeights(p) /\ DOMAIN p = DOMAIN u \cup DOMAIN Zero
          /\ \A k : Quantity(p, k) = Quantity(u, k) + Quantity(Zero, k)
      BY <1>1, PlusWeights
    <2> HIDE DEF p
    <2>2. \A k : Quantity(p, k) = Quantity(u, k)
      BY <1>1, <1>2, <2>1
    <2>3. p = u
      BY <1>1, <2>1, <2>2, WeightsEqual
    <2> QED BY <2>3 DEF p
  <1>4. Plus(Zero, u) = u
    <2> DEFINE p == Plus(Zero, u)
    <2>1. /\ AreWeights(p) /\ DOMAIN p = DOMAIN Zero \cup DOMAIN u
          /\ \A k : Quantity(p, k) = Quantity(Zero, k) + Quantity(u, k)
      BY <1>1, PlusWeights
    <2> HIDE DEF p
    <2>2. \A k : Quantity(p, k) = Quantity(u, k)
      BY <1>1, <1>2, <2>1
    <2>3. p = u
      BY <1>1, <2>1, <2>2, WeightsEqual
    <2> QED BY <2>3 DEF p
  <1>5. Plus(u, v) = Plus(v, u)
    <2> DEFINE p == Plus(u, v)
               q == Plus(v, u)
    <2>1. /\ AreWeights(p) /\ DOMAIN p = DOMAIN u \cup DOMAIN v
          /\ \A k : Quantity(p, k) = Quantity(u, k) + Quantity(v, k)
      BY PlusWeights
    <2>2. /\ AreWeights(q) /\ DOMAIN q = DOMAIN u \cup DOMAIN v
          /\ \A k : Quantity(q, k) = Quantity(v, k) + Quantity(u, k)
      <3>1. DOMAIN q = DOMAIN u \cup DOMAIN v
        BY DEF Plus
      <3> QED BY <3>1, PlusQuantity
    <2> HIDE DEF p, q
    <2>3. \A k : Quantity(p, k) = Quantity(q, k)
      BY <1>2, <2>1, <2>2
    <2>4. p = q
      BY <2>1, <2>2, <2>3, WeightsEqual
    <2> QED BY <2>4 DEF p, q
  <1> QED BY <1>3, <1>4, <1>5

\* Plus is associative.
LEMMA PlusAssociates ==
    ASSUME NEW u, NEW v, NEW w, AreWeights(u), AreWeights(v), AreWeights(w)
    PROVE  Plus(Plus(u, v), w) = Plus(u, Plus(v, w))
  <1>1. AreWeights(Plus(u, v)) /\ AreWeights(Plus(u, w))
    BY PlusWeights
  <1>2. Plus(Plus(u, v), w) = Plus(w, Plus(u, v)) /\ Plus(w, v) = Plus(v, w)
    BY <1>1, PlusLaws
  <1>3. Plus(w, Plus(u, v)) = Plus(u, Plus(w, v))
    BY PlusSwap
  <1> QED BY <1>2, <1>3

\* Subtracting one after the other, from a capacity ...
LEMMA MinusLaws ==
    ASSUME NEW u, NEW v, NEW w, AreWeights(u), AreWeights(v), AreWeights(w)
    PROVE  /\ Minus(u, Zero) = u
           /\ Minus(Minus(u, v), w) = Minus(u, Plus(v, w))
  <1>1. /\ DOMAIN Zero = {} /\ AreWeights(Zero)
        /\ \A k : Quantity(Zero, k) = 0
    BY ZeroWeights DEF ArePositive, Zero
  <1>2. \A k : Quantity(u, k) \in Int /\ Quantity(v, k) \in Int /\ Quantity(w, k) \in Int
    BY QuantityType
  <1>3. Minus(u, Zero) = u
    <2> DEFINE p == Minus(u, Zero)
    <2>1. /\ AreWeights(p) /\ DOMAIN p = DOMAIN u \cup DOMAIN Zero
          /\ \A k : Quantity(p, k) = Quantity(u, k) - Quantity(Zero, k)
      BY <1>1, MinusWeights
    <2> HIDE DEF p
    <2>2. \A k : Quantity(p, k) = Quantity(u, k)
      BY <1>1, <1>2, <2>1
    <2>3. p = u
      BY <1>1, <2>1, <2>2, WeightsEqual
    <2> QED BY <2>3 DEF p
  <1>4. AreWeights(Minus(u, v)) /\ AreWeights(Plus(v, w))
    BY MinusWeights, PlusWeights
  <1>5. \A k : Quantity(Minus(Minus(u, v), w), k) = Quantity(Minus(u, Plus(v, w)), k)
    <2> DEFINE m == Minus(u, v)
               p == Plus(v, w)
    <2>1. \A k : Quantity(m, k) = Quantity(u, k) - Quantity(v, k)
      BY MinusWeights
    <2>2. \A k : Quantity(p, k) = Quantity(v, k) + Quantity(w, k)
      BY PlusWeights
    <2>3. AreWeights(m) /\ AreWeights(p)
      BY <1>4
    <2> HIDE DEF m, p
    <2>4. \A k : Quantity(Minus(m, w), k) = Quantity(m, k) - Quantity(w, k)
      BY <2>3, MinusWeights
    <2>5. \A k : Quantity(Minus(u, p), k) = Quantity(u, k) - Quantity(p, k)
      BY <2>3, MinusWeights
    <2>6. \A k : Quantity(Minus(m, w), k) = Quantity(Minus(u, p), k)
      BY <1>2, <2>1, <2>2, <2>4, <2>5
    <2> QED BY <2>6 DEF m, p
  <1>6. DOMAIN Minus(Minus(u, v), w) = DOMAIN Minus(u, Plus(v, w))
    <2>1. DOMAIN Minus(u, v) = DOMAIN u \cup DOMAIN v
      BY MinusWeights
    <2>2. DOMAIN Plus(v, w) = DOMAIN v \cup DOMAIN w
      BY PlusWeights
    <2>3. DOMAIN Minus(Minus(u, v), w) = (DOMAIN u \cup DOMAIN v) \cup DOMAIN w
      BY <1>4, <2>1, MinusWeights
    <2>4. DOMAIN Minus(u, Plus(v, w)) = DOMAIN u \cup (DOMAIN v \cup DOMAIN w)
      BY <1>4, <2>2, MinusWeights
    <2> QED BY <2>3, <2>4
  <1>7. AreWeights(Minus(Minus(u, v), w)) /\ AreWeights(Minus(u, Plus(v, w)))
    BY <1>4, MinusWeights
  <1> QED BY <1>3, <1>5, <1>6, <1>7, WeightsEqual

\* ... and from a quota.
LEMMA QuotaMinusLaws ==
    ASSUME NEW u, NEW v, NEW w, AreWeights(u), AreWeights(v), AreWeights(w)
    PROVE  /\ QuotaMinus(u, Zero) = u
           /\ QuotaMinus(QuotaMinus(u, v), w) = QuotaMinus(u, Plus(v, w))
  <1>1. \A k : Quantity(Zero, k) = 0
    BY ZeroWeights
  <1>2. \A k : Quantity(v, k) \in Int /\ Quantity(w, k) \in Int
    BY QuantityType
  <1>3. \A k \in DOMAIN u : u[k] \in Int
    BY DEF AreWeights
  <1>4. QuotaMinus(u, Zero) = u
    <2>1. QuotaMinus(u, Zero) = [k \in DOMAIN u |-> u[k] - Quantity(Zero, k)]
      BY DEF QuotaMinus
    <2>2. \A k \in DOMAIN u : u[k] - Quantity(Zero, k) = u[k]
      BY <1>1, <1>3
    <2> QED BY <2>1, <2>2 DEF AreWeights
  <1>5. QuotaMinus(QuotaMinus(u, v), w) = QuotaMinus(u, Plus(v, w))
    <2> DEFINE m == QuotaMinus(u, v)
               p == Plus(v, w)
    <2>1. DOMAIN m = DOMAIN u /\ \A k \in DOMAIN u : m[k] = u[k] - Quantity(v, k)
      BY DEF QuotaMinus
    <2>2. \A k : Quantity(p, k) = Quantity(v, k) + Quantity(w, k)
      BY PlusWeights
    <2> HIDE DEF m, p
    <2>3. \A k \in DOMAIN u : m[k] - Quantity(w, k) = u[k] - Quantity(p, k)
      BY <1>2, <1>3, <2>1, <2>2
    <2>4. /\ QuotaMinus(m, w) = [k \in DOMAIN u |-> m[k] - Quantity(w, k)]
          /\ QuotaMinus(u, p) = [k \in DOMAIN u |-> u[k] - Quantity(p, k)]
      BY <2>1 DEF QuotaMinus
    <2>5. QuotaMinus(m, w) = QuotaMinus(u, p)
      BY <2>3, <2>4
    <2> QED BY <2>5 DEF m, p
  <1> QED BY <1>4, <1>5

-----------------------------------------------------------------------------
(* Equations between sums.                                                 *)

\* What w asks for fits in what u and v leave of the capacity only if the capacity
\* has that resource, and enough of it for the three together.
LEMMA FitsBeside ==
    ASSUME NEW cap, NEW u, NEW v, NEW w,
           AreWeights(cap), AreWeights(u), AreWeights(v), AreWeights(w),
           NEW k \in DOMAIN w, w[k] > 0, Quantity(u, k) >= 0, Quantity(v, k) >= 0,
           Fits(w, Minus(Minus(cap, u), v))
    PROVE  k \in DOMAIN cap /\ Plus(u, Plus(v, w))[k] <= cap[k]
  <1> DEFINE both == Plus(v, w)
             load == Plus(u, both)
             rest == Minus(cap, u)
             left == Minus(rest, v)
  <1>1. Quantity(w, k) = w[k]
    BY DEF Quantity
  <1>2. /\ Quantity(u, k) \in Int /\ Quantity(v, k) \in Int
        /\ Quantity(w, k) \in Int /\ Quantity(cap, k) \in Int
    BY QuantityType
  <1>3. /\ AreWeights(both) /\ k \in DOMAIN both
        /\ Quantity(both, k) = Quantity(v, k) + Quantity(w, k)
    <2>1. k \in DOMAIN both
      BY DEF Plus
    <2>2. AreWeights(both) /\ Quantity(both, k) = Quantity(v, k) + Quantity(w, k)
      BY PlusQuantity
    <2> QED BY <2>1, <2>2
  <1>4. AreWeights(rest) /\ Quantity(rest, k) = Quantity(cap, k) - Quantity(u, k)
    BY MinusQuantity
  <1>5. Quantity(load, k) = Quantity(u, k) + Quantity(both, k) /\ load[k] = Quantity(load, k)
    <2> HIDE DEF both
    <2>1. k \in DOMAIN load /\ Quantity(load, k) = Quantity(u, k) + Quantity(both, k)
      <3>1. k \in DOMAIN load
        BY <1>3 DEF Plus
      <3> QED BY <1>3, <3>1, PlusQuantity
    <2> QED BY <2>1 DEF Quantity
  <1>6. Quantity(left, k) = Quantity(rest, k) - Quantity(v, k)
    <2> HIDE DEF rest
    <2> QED BY <1>4, MinusQuantity
  <1>7. k \in DOMAIN left /\ ~(Quantity(w, k) > left[k])
    <2>1. Fits(w, left)
      OBVIOUS
    <2> HIDE DEF left
    <2> QED BY <1>1, <2>1, FitsQuantities
  <1> HIDE DEF both, load, rest, left
  <1>8. left[k] = Quantity(left, k)
    BY <1>7 DEF Quantity
  <1>9. Quantity(cap, k) > 0 /\ load[k] <= Quantity(cap, k)
    BY <1>1, <1>2, <1>3, <1>4, <1>5, <1>6, <1>7, <1>8
  <1>10. k \in DOMAIN cap /\ cap[k] = Quantity(cap, k)
    BY <1>9 DEF Quantity
  <1> QED BY <1>9, <1>10 DEF load, both

\* One more term.
LEMMA SumInsert ==
    ASSUME NEW F, NEW S, IsFiniteSet(S), NEW x, x \notin S,
           \A y \in S \cup {x} : AreWeights(F[y])
    PROVE  /\ AreWeights(Sum(F, S))
           /\ Sum(F, S \cup {x}) = Plus(Sum(F, S), F[x])
  <1> DEFINE T == S \cup {x}
  <1>1. IsFiniteSet(T) /\ x \in T /\ T \ {x} = S
    BY FS_AddElement
  <1>2. AreWeights(Sum(F, S))
    BY SumWeights
  <1>3. Sum(F, T) = Plus(F[x], Sum(F, T \ {x}))
    <2> HIDE DEF T
    <2> QED BY <1>1, SumTake DEF T
  <1>4. Sum(F, T \ {x}) = Sum(F, S)
    BY <1>1
  <1>5. Plus(F[x], Sum(F, S)) = Plus(Sum(F, S), F[x])
    BY <1>2, PlusLaws
  <1> QED BY <1>2, <1>3, <1>4, <1>5

\* Equal terms have equal sums.
LEMMA SumSame ==
    ASSUME NEW F, NEW G, NEW S, IsFiniteSet(S), \A x \in S : F[x] = G[x]
    PROVE  Sum(F, S) = Sum(G, S)
  <1>1. PICK g : Adds(F, S, g)
    BY AddsExists
  <1>2. Adds(G, S, g)
    <2>1. \A s \in SUBSET S : s # {} => F[Pick(s)] = G[Pick(s)]
      BY DEF Pick
    <2> QED BY <1>1, <2>1 DEF Adds
  <1> QED BY <1>1, <1>2, SumAdds

\* The sum over two sets that have nothing in common.
LEMMA SumDisjoint ==
    ASSUME NEW F, NEW S, NEW T, IsFiniteSet(S), IsFiniteSet(T), S \cap T = {},
           \A x \in S \cup T : AreWeights(F[x])
    PROVE  Sum(F, S \cup T) = Plus(Sum(F, S), Sum(F, T))
  <1> DEFINE Good == {V \in SUBSET T : Sum(F, S \cup V) = Plus(Sum(F, S), Sum(F, V))}
  <1>1. ASSUME NEW V \in SUBSET T, \A U \in SUBSET V : U # V => U \in Good
        PROVE  V \in Good
    <2>0. AreWeights(Sum(F, S)) /\ IsFiniteSet(V)
      BY SumWeights, FS_Subset
    <2>1. CASE V = {}
      <3>1. S \cup V = S /\ Sum(F, V) = Zero
        BY <2>0, <2>1, SumStep
      <3>2. Plus(Sum(F, S), Zero) = Sum(F, S)
        BY <2>0, PlusLaws
      <3>3. Sum(F, S \cup V) = Sum(F, S)
        BY <3>1
      <3> QED BY <3>1, <3>2, <3>3
    <2>2. CASE V # {}
      <3>1. PICK x \in V : TRUE
        BY <2>2
      <3> DEFINE U == V \ {x}
      <3>2. /\ U \in SUBSET V /\ U # V /\ U \in SUBSET T
            /\ x \notin U /\ x \notin S \cup U
            /\ V = U \cup {x} /\ S \cup V = (S \cup U) \cup {x}
            /\ IsFiniteSet(U) /\ IsFiniteSet(S \cup U)
        BY <2>0, <3>1, FS_Subset, FS_Union
      <3>3. Sum(F, S \cup U) = Plus(Sum(F, S), Sum(F, U))
        BY <1>1, <3>2
      <3> HIDE DEF U
      <3>4. /\ AreWeights(Sum(F, U)) /\ AreWeights(F[x])
            /\ Sum(F, U \cup {x}) = Plus(Sum(F, U), F[x])
        BY <3>1, <3>2, SumInsert
      <3>5. Sum(F, (S \cup U) \cup {x}) = Plus(Sum(F, S \cup U), F[x])
        <4> DEFINE W == S \cup U
        <4>1. \A y \in W \cup {x} : AreWeights(F[y])
          BY <3>2
        <4> HIDE DEF W
        <4>2. Sum(F, W \cup {x}) = Plus(Sum(F, W), F[x])
          BY <3>2, <4>1, SumInsert DEF W
        <4> QED BY <4>2 DEF W
      <3>6. Plus(Plus(Sum(F, S), Sum(F, U)), F[x]) = Plus(Sum(F, S), Plus(Sum(F, U), F[x]))
        BY <2>0, <3>4, PlusAssociates
      <3>7. Sum(F, S \cup V) = Sum(F, (S \cup U) \cup {x}) /\ Sum(F, V) = Sum(F, U \cup {x})
        BY <3>2
      <3>8. Sum(F, S \cup V) = Plus(Sum(F, S), Sum(F, V))
        BY <3>3, <3>4, <3>5, <3>6, <3>7
      <3> QED BY <3>8
    <2> QED BY <2>1, <2>2
  <1> HIDE DEF Good
  <1>2. T \in Good
    BY <1>1, FiniteInduction
  <1> QED BY <1>2 DEF Good

\* A sum over the indices of a sequence without repetitions.
LEMMA SumImage ==
    ASSUME NEW F, NEW e, NEW S, IsFiniteSet(S),
           \A m, n \in S : e[m] = e[n] => m = n,
           \A m \in S : AreWeights(F[e[m]])
    PROVE  Sum([m \in S |-> F[e[m]]], S) = Sum(F, {e[m] : m \in S})
  <1> DEFINE G == [m \in S |-> F[e[m]]]
             Image(V) == {e[m] : m \in V}
             Good == {V \in SUBSET S : Sum(G, V) = Sum(F, Image(V))}
  <1>1. ASSUME NEW V \in SUBSET S, \A U \in SUBSET V : U # V => U \in Good
        PROVE  V \in Good
    <2>0. IsFiniteSet(V)
      BY FS_Subset
    <2>1. CASE V = {}
      <3>1. Image(V) = {} /\ IsFiniteSet({})
        BY <2>1, FS_EmptySet
      <3>2. Sum(G, V) = Zero /\ Sum(F, Image(V)) = Zero
        <4> HIDE DEF G, Image
        <4> QED BY <2>1, <3>1, SumStep
      <3> QED BY <3>2
    <2>2. CASE V # {}
      <3>1. PICK x \in V : TRUE
        BY <2>2
      <3> DEFINE U == V \ {x}
      <3>2. U \in SUBSET V /\ U # V /\ x \notin U /\ V = U \cup {x} /\ IsFiniteSet(U)
        BY <2>0, <3>1, FS_Subset
      <3>3. Sum(G, U) = Sum(F, Image(U))
        BY <1>1, <3>2
      <3>4. Sum(G, V) = Plus(Sum(G, U), G[x])
        <4>1. \A y \in U \cup {x} : AreWeights(G[y])
          BY <3>1
        <4>2. Sum(G, U \cup {x}) = Plus(Sum(G, U), G[x])
          <5> HIDE DEF G, U
          <5> QED BY <3>2, <4>1, SumInsert
        <4> QED BY <3>2, <4>2
      <3>5. Sum(F, Image(V)) = Plus(Sum(F, Image(U)), F[e[x]])
        <4>1. e[x] \notin Image(U) /\ Image(V) = Image(U) \cup {e[x]}
          BY <3>1
        <4>2. IsFiniteSet(Image(U))
          <5>1. [m \in U |-> e[m]] \in Surjection(U, Image(U))
            BY DEF Surjection
          <5> HIDE DEF U, Image
          <5> QED BY <3>2, <5>1, FS_Surjection
        <4>3. \A y \in Image(U) \cup {e[x]} : AreWeights(F[y])
          BY <3>1
        <4>4. Sum(F, Image(U) \cup {e[x]}) = Plus(Sum(F, Image(U)), F[e[x]])
          <5> HIDE DEF Image, U
          <5> QED BY <4>1, <4>2, <4>3, SumInsert
        <4> QED BY <4>1, <4>4
      <3>6. G[x] = F[e[x]]
        BY <3>1
      <3>7. Sum(G, V) = Sum(F, Image(V))
        <4> HIDE DEF G, Image, U
        <4> QED BY <3>3, <3>4, <3>5, <3>6
      <3> QED BY <3>7
    <2> QED BY <2>1, <2>2
  <1> HIDE DEF Good
  <1>2. S \in Good
    BY <1>1, FiniteInduction
  <1> QED BY <1>2 DEF Good

-----------------------------------------------------------------------------
(* Sums of pairs.                                                          *)

\* h follows the loop that adds up pairs of F and G over any part of S.
PairAdds(F, G, S, h) ==
    h = [s \in SUBSET S |->
            IF s = {} THEN NoWeights
            ELSE PairPlus([requests |-> F[Pick(s)], limits |-> G[Pick(s)]],
                          h[s \ {Pick(s)}])]

\* A loop that adds up pairs exists, and adds up requests and limits apart.
LEMMA PairSum ==
    ASSUME NEW F, NEW G, NEW S, IsFiniteSet(S)
    PROVE  /\ \E h : PairAdds(F, G, S, h)
           /\ \A h : PairAdds(F, G, S, h) =>
                 h[S] = [requests |-> Sum(F, S), limits |-> Sum(G, S)]
  <1>1. \E h : PairAdds(F, G, S, h)
    <2>1. PICK f : Adds(F, S, f)
      BY AddsExists
    <2>2. PICK g : Adds(G, S, g)
      BY AddsExists
    <2> DEFINE h == [s \in SUBSET S |-> [requests |-> f[s], limits |-> g[s]]]
               e(s) == IF s = {} THEN NoWeights
                       ELSE PairPlus([requests |-> F[Pick(s)], limits |-> G[Pick(s)]],
                                     h[s \ {Pick(s)}])
    <2>3. ASSUME NEW s \in SUBSET S PROVE h[s] = e(s)
      <3>1. CASE s = {}
        <4>1. f[s] = Zero /\ g[s] = Zero
          BY <2>1, <2>2, <3>1, AddsStep
        <4> QED BY <3>1, <4>1 DEF NoWeights
      <3>2. CASE s # {}
        <4> DEFINE t == s \ {Pick(s)}
        <4>1. f[s] = Plus(F[Pick(s)], f[t]) /\ g[s] = Plus(G[Pick(s)], g[t])
          BY <2>1, <2>2, <3>2, AddsStep
        <4>2. h[t] = [requests |-> f[t], limits |-> g[t]]
          OBVIOUS
        <4>3. e(s) = [requests |-> Plus(F[Pick(s)], f[t]), limits |-> Plus(G[Pick(s)], g[t])]
          BY <3>2, <4>2 DEF PairPlus
        <4> QED BY <4>1, <4>3
      <3> QED BY <3>1, <3>2
    <2>4. h = [s \in SUBSET S |-> e(s)]
      <3> HIDE DEF e
      <3> QED BY <2>3
    <2>5. PairAdds(F, G, S, h)
      BY <2>4 DEF PairAdds
    <2> QED BY <2>5
  <1>2. ASSUME NEW h, PairAdds(F, G, S, h)
        PROVE  h[S] = [requests |-> Sum(F, S), limits |-> Sum(G, S)]
    <2> DEFINE f == [s \in SUBSET S |-> h[s].requests]
               g == [s \in SUBSET S |-> h[s].limits]
               ef(s) == IF s = {} THEN Zero ELSE Plus(F[Pick(s)], f[s \ {Pick(s)}])
               eg(s) == IF s = {} THEN Zero ELSE Plus(G[Pick(s)], g[s \ {Pick(s)}])
    <2>1. ASSUME NEW s \in SUBSET S
          PROVE  h[s] = [requests |-> ef(s), limits |-> eg(s)]
      <3>1. CASE s = {}
        BY <1>2, <3>1 DEF PairAdds, NoWeights
      <3>2. CASE s # {}
        <4> DEFINE t == s \ {Pick(s)}
        <4>1. h[s] = PairPlus([requests |-> F[Pick(s)], limits |-> G[Pick(s)]], h[t])
          BY <1>2, <3>2 DEF PairAdds
        <4>2. f[t] = h[t].requests /\ g[t] = h[t].limits
          OBVIOUS
        <4> HIDE DEF f, g, t
        <4>3. h[s] = [requests |-> Plus(F[Pick(s)], f[t]), limits |-> Plus(G[Pick(s)], g[t])]
          BY <4>1, <4>2 DEF PairPlus
        <4> QED BY <3>2, <4>3 DEF t
      <3> QED BY <3>1, <3>2
    <2>2. \A s \in SUBSET S : f[s] = ef(s) /\ g[s] = eg(s)
      <3> SUFFICES ASSUME NEW s \in SUBSET S PROVE f[s] = ef(s) /\ g[s] = eg(s)
        OBVIOUS
      <3>1. f[s] = h[s].requests /\ g[s] = h[s].limits
        OBVIOUS
      <3>2. h[s] = [requests |-> ef(s), limits |-> eg(s)]
        BY <2>1
      <3> HIDE DEF f, g, ef, eg
      <3> QED BY <3>1, <3>2
    <2>3. f = [s \in SUBSET S |-> ef(s)] /\ g = [s \in SUBSET S |-> eg(s)]
      <3> HIDE DEF ef, eg
      <3> QED BY <2>2
    <2>4. Adds(F, S, f) /\ Adds(G, S, g)
      BY <2>3 DEF Adds
    <2>5. Sum(F, S) = f[S] /\ Sum(G, S) = g[S]
      <3> HIDE DEF f, g
      <3> QED BY <2>4, SumAdds
    <2>6. h[S] = [requests |-> f[S], limits |-> g[S]]
      <3>1. S \in SUBSET S
        OBVIOUS
      <3>2. h[S] = [requests |-> ef(S), limits |-> eg(S)]
        BY <2>1, <3>1
      <3>3. f[S] = ef(S) /\ g[S] = eg(S)
        BY <2>2, <3>1
      <3> HIDE DEF f, g, ef, eg
      <3> QED BY <3>2, <3>3
    <2> QED BY <2>5, <2>6
  <1> QED BY <1>1, <1>2
-----------------------------------------------------------------------------
(* Sums of sums.                                                           *)

-----------------------------------------------------------------------------
(* The demand that pods do not cover (quota_tracker.go, dispatcher.go).    *)

\* One turn of the loop of getUnadmittedPodsWeights, and what a single AppWrapper
\* lacks, for the requests or the limits alone.
Charged(w, a, c) == Maximum(Zero, QuotaMinus(Plus(w, a), c))
Lack(a, c) == Maximum(Zero, QuotaMinus(a, c))

\* One resource of a turn of the loop: what is left is not negative, and what pods
\* take of a resource that nobody asked for is not counted.
LEMMA ChargedQuantity ==
    ASSUME NEW w, NEW a, NEW c, AreWeights(w), AreWeights(a), AreWeights(c), NEW k
    PROVE  /\ AreWeights(Charged(w, a, c))
           /\ Quantity(Charged(w, a, c), k) =
                 IF k \in DOMAIN w \cup DOMAIN a
                    /\ Quantity(w, k) + Quantity(a, k) - Quantity(c, k) > 0
                 THEN Quantity(w, k) + Quantity(a, k) - Quantity(c, k) ELSE 0
  <1> DEFINE p == Plus(w, a)
             r == QuotaMinus(p, c)
             m == Maximum(Zero, r)
  <1>1. /\ AreWeights(p) /\ DOMAIN p = DOMAIN w \cup DOMAIN a
        /\ \A l : Quantity(p, l) = Quantity(w, l) + Quantity(a, l)
    BY PlusWeights
  <1>2. \A l : Quantity(w, l) \in Int /\ Quantity(a, l) \in Int /\ Quantity(c, l) \in Int
    BY QuantityType
  <1> HIDE DEF p
  <1>3. /\ DOMAIN r = DOMAIN p
        /\ \A l \in DOMAIN p : r[l] = Quantity(p, l) - Quantity(c, l)
    BY DEF QuotaMinus, Quantity
  <1>4. \A l \in DOMAIN p : r[l] \in Int
    BY <1>1, <1>2, <1>3
  <1> HIDE DEF r
  <1>5. /\ DOMAIN m = DOMAIN r
        /\ m = [l \in DOMAIN r |-> IF 0 < r[l] THEN r[l] ELSE 0]
    BY ZeroWeights DEF Maximum, Zero, Quantity
  <1>6. AreWeights(m)
    BY <1>3, <1>4, <1>5 DEF AreWeights
  <1>7. Quantity(m, k) = IF k \in DOMAIN r THEN (IF 0 < r[k] THEN r[k] ELSE 0) ELSE 0
    BY <1>5 DEF Quantity
  <1>8. Quantity(m, k) = IF k \in DOMAIN w \cup DOMAIN a
                            /\ Quantity(w, k) + Quantity(a, k) - Quantity(c, k) > 0
                         THEN Quantity(w, k) + Quantity(a, k) - Quantity(c, k) ELSE 0
    <2> HIDE DEF m
    <2>1. CASE k \in DOMAIN p
      <3>1. r[k] = Quantity(w, k) + Quantity(a, k) - Quantity(c, k)
        BY <1>1, <1>2, <1>3, <2>1
      <3> QED BY <1>1, <1>2, <1>3, <1>7, <2>1, <3>1
    <2>2. CASE k \notin DOMAIN p
      BY <1>1, <1>3, <1>7, <2>2
    <2> QED BY <2>1, <2>2
  <1> QED BY <1>6, <1>8 DEF p, r, Charged

\* The demand of one AppWrapper that its pods do not cover.
LEMMA LackQuantity ==
    ASSUME NEW a, NEW c, AreWeights(a), AreWeights(c), NEW k
    PROVE  /\ AreWeights(Lack(a, c))
           /\ Quantity(Lack(a, c), k) =
                 IF k \in DOMAIN a /\ Quantity(a, k) - Quantity(c, k) > 0
                 THEN Quantity(a, k) - Quantity(c, k) ELSE 0
  <1>1. Plus(Zero, a) = a /\ AreWeights(Zero)
    BY PlusLaws, ZeroWeights DEF ArePositive
  <1>2. Charged(Zero, a, c) = Lack(a, c)
    BY <1>1 DEF Charged, Lack
  <1>3. Quantity(Zero, k) = 0 /\ DOMAIN Zero = {}
    BY ZeroWeights DEF Zero
  <1>4. Quantity(a, k) \in Int /\ Quantity(c, k) \in Int
    BY QuantityType
  <1>5. /\ AreWeights(Charged(Zero, a, c))
        /\ Quantity(Charged(Zero, a, c), k) =
                 IF k \in DOMAIN Zero \cup DOMAIN a
                    /\ Quantity(Zero, k) + Quantity(a, k) - Quantity(c, k) > 0
                 THEN Quantity(Zero, k) + Quantity(a, k) - Quantity(c, k) ELSE 0
    BY <1>1, ChargedQuantity
  <1> QED BY <1>2, <1>3, <1>4, <1>5
=============================================================================
