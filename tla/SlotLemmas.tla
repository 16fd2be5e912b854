----------------------------- MODULE SlotLemmas -----------------------------
(***************************************************************************)
(* How many slots a set of owners has, one element of a set for each slot, *)
(* and how the number changes when an owner comes or goes. It needs no     *)
(* recursion, and so no induction; that a recursive sum says the same is   *)
(* proved in InductionLemmas.                                              *)
(***************************************************************************)
EXTENDS Integers, FiniteSets, FiniteSetTheorems, TLAPS

\* The slots that the clients of S own when c owns f[c] of them.
Owned(S, f) == UNION {{c} \X (1..f[c]) : c \in S}

\* One client's slots are as many as its weight.
LEMMA OneOwner ==
  ASSUME NEW c, NEW n \in Nat
  PROVE  /\ IsFiniteSet({c} \X (1..n))
         /\ Cardinality({c} \X (1..n)) = n
<1>1. IsFiniteSet({c}) /\ Cardinality({c}) = 1
  BY FS_Singleton
<1>2. IsFiniteSet(1..n) /\ Cardinality(1..n) = n
  BY FS_Interval
<1>3. /\ IsFiniteSet({c} \X (1..n))
      /\ Cardinality({c} \X (1..n)) = Cardinality({c}) * Cardinality(1..n)
  BY <1>1, <1>2, FS_Product
<1>4. 1 * n = n
  OBVIOUS
<1> QED BY <1>1, <1>2, <1>3, <1>4

\* A new owner adds its weight to the number of owned slots.
LEMMA AddOwner ==
  ASSUME NEW S, NEW c, c \notin S, NEW f, NEW g, g[c] \in Nat,
         \A x \in S : g[x] = f[x],
         IsFiniteSet(Owned(S, f))
  PROVE  /\ IsFiniteSet(Owned(S \cup {c}, g))
         /\ Cardinality(Owned(S \cup {c}, g)) = Cardinality(Owned(S, f)) + g[c]
<1> DEFINE Old == Owned(S, f)
           Mine == {c} \X (1..g[c])
<1>1. Owned(S \cup {c}, g) = Old \cup Mine
  BY DEF Owned
<1>2. Old \cap Mine = {}
  BY DEF Owned
<1>3. IsFiniteSet(Mine) /\ Cardinality(Mine) = g[c]
  BY OneOwner
<1>4. Cardinality(Old) \in Nat
  BY FS_CardinalityType
<1>5. /\ IsFiniteSet(Old \cup Mine)
      /\ Cardinality(Old \cup Mine) = Cardinality(Old) + Cardinality(Mine) - Cardinality(Old \cap Mine)
  BY <1>3, FS_Union
<1>6. Cardinality(Old \cap Mine) = 0
  BY <1>2, FS_EmptySet
<1> HIDE DEF Old, Mine
<1>7. Cardinality(Old \cup Mine) = Cardinality(Old) + g[c]
  BY <1>3, <1>4, <1>5, <1>6
<1> QED BY <1>1, <1>5, <1>7 DEF Old

\* An owner that leaves takes its weight off the number of owned slots.
LEMMA RemoveOwner ==
  ASSUME NEW S, NEW c \in S, NEW f, f[c] \in Nat, IsFiniteSet(Owned(S, f))
  PROVE  /\ IsFiniteSet(Owned(S \ {c}, f))
         /\ Cardinality(Owned(S \ {c}, f)) = Cardinality(Owned(S, f)) - f[c]
         /\ f[c] <= Cardinality(Owned(S, f))
<1> DEFINE Rest == Owned(S \ {c}, f)
<1>1. Rest \subseteq Owned(S, f)
  BY DEF Owned
<1>2. IsFiniteSet(Rest) /\ Cardinality(Rest) \in Nat
  BY <1>1, FS_Subset, FS_CardinalityType
<1>3. Owned((S \ {c}) \cup {c}, f) = Owned(S, f)
  BY DEF Owned
<1>4. Cardinality(Owned(S, f)) = Cardinality(Rest) + f[c]
  BY <1>2, <1>3, AddOwner
<1> QED BY <1>2, <1>4

\* Only what the owners of S own matters.
LEMMA SameOwners ==
  ASSUME NEW S, NEW f, NEW g, \A x \in S : g[x] = f[x]
  PROVE  Owned(S, g) = Owned(S, f)
BY DEF Owned

\* Nobody owns anything.
LEMMA NoOwner ==
  ASSUME NEW f
  PROVE  IsFiniteSet(Owned({}, f)) /\ Cardinality(Owned({}, f)) = 0
<1>1. Owned({}, f) = {}
  BY DEF Owned
<1> QED BY <1>1, FS_EmptySet
=============================================================================
