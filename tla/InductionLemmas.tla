-------------------------- MODULE InductionLemmas --------------------------
(***************************************************************************)
(* Induction, and what it says of recursive definitions. The library's     *)
(* induction theorems take the statement as an operator; here the same is  *)
(* done with a set, the counterexamples of the statement, which would have *)
(* a least element. It gives the functions defined by recursion on a       *)
(* number, and the sums of the models (MapThenSumSet) as numbers of slots. *)
(***************************************************************************)
EXTENDS SlotLemmas, WellFoundedInduction, FiniteSetsExt

\* A set of natural numbers that is not empty has a least element.
LEMMA LeastNat ==
  ASSUME NEW T, T \subseteq Nat, T # {}
  PROVE  \E m \in T : \A n \in T : m <= n
<1>1. PICK m \in T : \A n \in T : ~ (n < m)
  <2>1. PICK m \in T : \A n \in T : <<n, m>> \notin OpToRel(<, Nat)
    BY NatLessThanWellFounded, WFMin, Zenon
  <2>2. \A n \in T : ~ (n < m)
    BY <2>1 DEF OpToRel
  <2> HIDE <2>1
  <2> QED BY <2>2, Zenon
<1>2. \A n \in T : m <= n
  BY <1>1
<1> QED BY <1>2, Zenon

\* f is the recursion from c by step, up to n.
Follows(f, c, step, n) ==
  /\ f \in [0..n -> Int]
  /\ f[0] = c
  /\ \A i \in 0..(n - 1) : f[i + 1] = step[i][f[i]]

\* A value and a step for each number determine a sequence of numbers.
LEMMA RecursionExists ==
  ASSUME NEW c \in Int, NEW step \in [Nat -> [Int -> Int]]
  PROVE  \E f \in [Nat -> Int] : f[0] = c /\ \A n \in Nat : f[n + 1] = step[n][f[n]]
<1>1. \A n \in Nat : \E f : Follows(f, c, step, n)
  <2> DEFINE Bad == {n \in Nat : ~ \E f : Follows(f, c, step, n)}
  <2> SUFFICES ASSUME Bad # {} PROVE FALSE
    OBVIOUS
  <2>0. Bad \subseteq Nat
    OBVIOUS
  <2>1. PICK m \in Bad : \A n \in Bad : m <= n
    BY <2>0, LeastNat
  <2>2. CASE m = 0
    <3> DEFINE f == [i \in 0..0 |-> c]
    <3>1. Follows(f, c, step, 0)
      BY DEF Follows
    <3> QED BY <2>1, <2>2, <3>1
  <2>3. CASE m # 0
    <3>1. m - 1 \in Nat /\ m - 1 \notin Bad
      <4> HIDE DEF Bad
      <4> QED BY <2>0, <2>1, <2>3
    <3>2. PICK g : Follows(g, c, step, m - 1)
      BY <3>1
    <3> DEFINE f == [i \in 0..m |-> IF i = m THEN step[m - 1][g[m - 1]] ELSE g[i]]
    <3>3. f \in [0..m -> Int]
      <4>1. ASSUME NEW i \in 0..m PROVE f[i] \in Int
        <5>1. g[m - 1] \in Int /\ step[m - 1] \in [Int -> Int]
          BY <3>1, <3>2 DEF Follows
        <5>2. i # m => g[i] \in Int
          BY <2>1, <3>1, <3>2 DEF Follows
        <5> QED BY <5>1, <5>2
      <4> QED BY <4>1
    <3>4. f[0] = c
      BY <2>3, <3>1, <3>2 DEF Follows
    <3>5. ASSUME NEW i \in 0..(m - 1) PROVE f[i + 1] = step[i][f[i]]
      <4>1. CASE i = m - 1
        BY <2>1, <3>1, <4>1
      <4>2. CASE i # m - 1
        BY <2>1, <3>1, <3>2, <4>2 DEF Follows
      <4> QED BY <4>1, <4>2
    <3>6. Follows(f, c, step, m)
      BY <3>3, <3>4, <3>5 DEF Follows
    <3> QED BY <2>1, <3>6
  <2> QED BY <2>2, <2>3
<1>2. ASSUME NEW n \in Nat, NEW k \in Nat, n <= k,
             NEW f, NEW g, Follows(f, c, step, n), Follows(g, c, step, k),
             NEW i \in 0..n
      PROVE  f[i] = g[i]
  <2> DEFINE Bad == {j \in 0..n : f[j] # g[j]}
  <2> SUFFICES ASSUME Bad # {} PROVE FALSE
    OBVIOUS
  <2>0. Bad \subseteq Nat
    OBVIOUS
  <2>1. PICK m \in Bad : \A j \in Bad : m <= j
    BY <2>0, LeastNat
  <2>2. m # 0
    BY <1>2 DEF Follows
  <2>3. m - 1 \in 0..(n - 1) /\ m - 1 \in 0..(k - 1) /\ m - 1 \in 0..n /\ m - 1 \notin Bad
    BY <1>2, <2>1, <2>2
  <2>4. f[(m - 1) + 1] = step[m - 1][f[m - 1]] /\ g[(m - 1) + 1] = step[m - 1][g[m - 1]]
    BY <1>2, <2>3 DEF Follows
  <2> QED BY <2>1, <2>3, <2>4
<1> DEFINE chosen(n) == CHOOSE f : Follows(f, c, step, n)
           F == [n \in Nat |-> chosen(n)[n]]
<1>3. \A n \in Nat : Follows(chosen(n), c, step, n)
  BY <1>1
<1> HIDE DEF chosen
<1>4. F \in [Nat -> Int] /\ F[0] = c
  BY <1>3 DEF Follows
<1>5. ASSUME NEW n \in Nat PROVE F[n + 1] = step[n][F[n]]
  <2>1. chosen(n)[n] = chosen(n + 1)[n]
    BY <1>2, <1>3
  <2>2. chosen(n + 1)[n + 1] = step[n][chosen(n + 1)[n]]
    BY <1>3 DEF Follows
  <2> QED BY <2>1, <2>2
<1> QED BY <1>4, <1>5

\* A function that starts at a number and follows the steps as long as it is at
\* a number is a sequence of numbers.
LEMMA RecursionTyped ==
  ASSUME NEW step \in [Nat -> [Int -> Int]], NEW f, f[0] \in Int,
         \A n \in Nat : f[n] \in Int => f[n + 1] = step[n][f[n]]
  PROVE  \A n \in Nat : f[n] \in Int
<1> DEFINE Bad == {n \in Nat : f[n] \notin Int}
<1> SUFFICES ASSUME Bad # {} PROVE FALSE
  OBVIOUS
<1>1. Bad \subseteq Nat
  OBVIOUS
<1>2. PICK m \in Bad : \A n \in Bad : m <= n
  BY <1>1, LeastNat
<1>3. m \in Nat /\ m # 0
  BY <1>1
<1>4. m - 1 \in Nat /\ m - 1 \notin Bad
  BY <1>2, <1>3
<1>5. f[m - 1] \in Int
  BY <1>4
<1>6. f[(m - 1) + 1] = step[m - 1][f[m - 1]]
  BY <1>4, <1>5
<1> QED BY <1>3, <1>4, <1>5, <1>6

-----------------------------------------------------------------------------
\* What finitely many owners own is finite.
LEMMA OwnedFinite ==
  ASSUME NEW S, IsFiniteSet(S), NEW f, \A x \in S : f[x] \in Nat
  PROVE  IsFiniteSet(Owned(S, f))
<1> DEFINE Bad == {Cardinality(T) : T \in {U \in SUBSET S : ~ IsFiniteSet(Owned(U, f))}}
<1>1. \A T \in SUBSET S : IsFiniteSet(T) /\ Cardinality(T) \in Nat
  BY FS_Subset, FS_CardinalityType
<1> SUFFICES ASSUME Bad # {} PROVE FALSE
  OBVIOUS
<1>2. Bad \subseteq Nat
  BY <1>1
<1>3. PICK m \in Bad : \A n \in Bad : m <= n
  BY <1>2, LeastNat
<1>4. PICK T \in SUBSET S : ~ IsFiniteSet(Owned(T, f)) /\ m = Cardinality(T)
  OBVIOUS
<1>5. T # {}
  BY <1>4, NoOwner
<1>6. PICK c \in T : TRUE
  BY <1>5
<1>7. Cardinality(T \ {c}) = Cardinality(T) - 1
  BY <1>1, <1>6, FS_RemoveElement
<1>8. T \ {c} \in SUBSET S /\ ~ (m <= Cardinality(T \ {c}))
  BY <1>1, <1>4, <1>7
<1>9. IsFiniteSet(Owned(T \ {c}, f))
  BY <1>3, <1>8
<1>10. IsFiniteSet(Owned((T \ {c}) \cup {c}, f))
  BY <1>4, <1>6, <1>9, AddOwner
<1>11. (T \ {c}) \cup {c} = T
  BY <1>6
<1> QED BY <1>4, <1>10, <1>11

\* More owners, each with at least as much, own at least as much.
LEMMA OwnedGrows ==
  ASSUME NEW S, IsFiniteSet(S), NEW T \in SUBSET S, NEW f, NEW g,
         \A x \in S : g[x] \in Nat, \A x \in T : f[x] \in Nat /\ f[x] <= g[x]
  PROVE  /\ Cardinality(Owned(T, f)) \in Nat
         /\ Cardinality(Owned(S, g)) \in Nat
         /\ Cardinality(Owned(T, f)) <= Cardinality(Owned(S, g))
<1>1. IsFiniteSet(Owned(S, g))
  BY OwnedFinite
<1>2. Owned(T, f) \subseteq Owned(S, g)
  <2> SUFFICES ASSUME NEW c \in T, NEW i \in 1..f[c] PROVE <<c, i>> \in Owned(S, g)
    BY DEF Owned
  <2>1. c \in S /\ i \in 1..g[c]
    OBVIOUS
  <2> QED BY <2>1 DEF Owned
<1> QED BY <1>1, <1>2, FS_Subset, FS_CardinalityType

\* What two sets of owners own that have nobody in common.
LEMMA OwnedApart ==
  ASSUME NEW S, IsFiniteSet(S), NEW T, IsFiniteSet(T), S \cap T = {},
         NEW f, \A x \in S \cup T : f[x] \in Nat
  PROVE  Cardinality(Owned(S \cup T, f)) = Cardinality(Owned(S, f)) + Cardinality(Owned(T, f))
<1>1. IsFiniteSet(Owned(S, f)) /\ IsFiniteSet(Owned(T, f))
  BY OwnedFinite
<1>2. Owned(S \cup T, f) = Owned(S, f) \cup Owned(T, f)
  BY DEF Owned
<1>3. Owned(S, f) \cap Owned(T, f) = {}
  BY DEF Owned
<1>4. Cardinality(Owned(S, f) \cap Owned(T, f)) = 0
  BY <1>3, FS_EmptySet
<1>5. Cardinality(Owned(S, f)) \in Nat /\ Cardinality(Owned(T, f)) \in Nat
  BY <1>1, FS_CardinalityType
<1> DEFINE mine == Owned(S, f)
           yours == Owned(T, f)
<1> HIDE DEF mine, yours
<1>6. Cardinality(mine \cup yours) =
        Cardinality(mine) + Cardinality(yours) - Cardinality(mine \cap yours)
  BY <1>1, FS_Union DEF mine, yours
<1>7. Cardinality(mine \cup yours) = Cardinality(mine) + Cardinality(yours)
  BY <1>4, <1>5, <1>6 DEF mine, yours
<1> QED BY <1>2, <1>7 DEF mine, yours

\* A sum over a finite set is the number of slots that its elements own.
LEMMA SumIsOwned ==
  ASSUME NEW S, IsFiniteSet(S), NEW f, \A x \in S : f[x] \in Nat
  PROVE  MapThenSumSet(LAMBDA k : f[k], S) = Cardinality(Owned(S, f))
<1> DEFINE pick(s) == CHOOSE x \in s : TRUE
           Is(g) == g = [s \in SUBSET S |-> IF s = {} THEN 0 ELSE f[pick(s)] + g[s \ {pick(s)}]]
           iter == CHOOSE g : Is(g)
           owns == [s \in SUBSET S |-> Cardinality(Owned(s, f))]
<1>1. MapThenSumSet(LAMBDA k : f[k], S) = iter[S]
  BY DEF MapThenSumSet, MapThenFoldSet
<1>2. Is(owns)
  <2> SUFFICES ASSUME NEW s \in SUBSET S
               PROVE  Cardinality(Owned(s, f)) =
                        IF s = {} THEN 0 ELSE f[pick(s)] + Cardinality(Owned(s \ {pick(s)}, f))
    OBVIOUS
  <2>1. IsFiniteSet(Owned(s, f))
    BY FS_Subset, OwnedFinite
  <2>2. CASE s # {}
    <3>1. pick(s) \in s /\ f[pick(s)] \in Nat
      BY <2>2
    <3> HIDE DEF pick
    <3>2. /\ Cardinality(Owned(s \ {pick(s)}, f)) = Cardinality(Owned(s, f)) - f[pick(s)]
          /\ Cardinality(Owned(s, f)) \in Nat
      BY <2>1, <3>1, RemoveOwner, FS_CardinalityType
    <3> QED BY <2>2, <3>1, <3>2
  <2> QED BY <2>2, NoOwner
<1>3. Is(iter)
  BY <1>2
<1>4. ASSUME NEW T \in SUBSET S PROVE iter[T] = owns[T]
  <2> HIDE DEF iter, pick
  <2> DEFINE Bad == {Cardinality(U) : U \in {V \in SUBSET S : iter[V] # owns[V]}}
  <2> SUFFICES ASSUME Bad # {} PROVE FALSE
    OBVIOUS
  <2>1. \A U \in SUBSET S : IsFiniteSet(U) /\ Cardinality(U) \in Nat
    BY FS_Subset, FS_CardinalityType
  <2>2. Bad \subseteq Nat
    BY <2>1
  <2>3. PICK m \in Bad : \A n \in Bad : m <= n
    BY <2>2, LeastNat
  <2>4. PICK U \in SUBSET S : iter[U] # owns[U] /\ m = Cardinality(U)
    OBVIOUS
  <2>5. U # {}
    BY <1>2, <1>3, <2>4
  <2>6. pick(U) \in U
    BY <2>5 DEF pick
  <2>7. Cardinality(U \ {pick(U)}) = Cardinality(U) - 1
    BY <2>1, <2>6, FS_RemoveElement
  <2>8. U \ {pick(U)} \in SUBSET S /\ ~ (m <= Cardinality(U \ {pick(U)}))
    BY <2>1, <2>4, <2>7
  <2>9. iter[U \ {pick(U)}] = owns[U \ {pick(U)}]
    BY <2>3, <2>8
  <2> QED BY <1>2, <1>3, <2>4, <2>5, <2>9
<1> QED BY <1>1, <1>4
=============================================================================
