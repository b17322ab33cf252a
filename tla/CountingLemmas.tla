--------------------------- MODULE CountingLemmas ---------------------------
(***************************************************************************)
(* The ids an import mints for copied records are counted off: the record  *)
(* with the n-th smallest id gets the n-th next one.  So no two copies get *)
(* the same id, whichever records are copied.                              *)
(***************************************************************************)
EXTENDS Integers, FiniteSets, FiniteSetTheorems, TLAPS

\* The place of x among the members of S.
Rank(S, x) == Cardinality({y \in S : y <= x})

\* A part of a finite set that is not all of it has fewer elements.
LEMMA SmallerPart ==
  ASSUME NEW S, IsFiniteSet(S), NEW T \in SUBSET S, T # S
  PROVE  Cardinality(T) < Cardinality(S)
<1>1. IsFiniteSet(T) /\ Cardinality(T) <= Cardinality(S) /\ Cardinality(S) # Cardinality(T)
  BY FS_Subset
<1>2. Cardinality(T) \in Nat /\ Cardinality(S) \in Nat BY <1>1, FS_CardinalityType
<1>3. QED BY <1>1, <1>2

\* The members of a finite set are ranked from one to their number.
LEMMA RankBounds ==
  ASSUME NEW S \in SUBSET Nat, IsFiniteSet(S)
  PROVE  /\ Cardinality(S) \in Nat
         /\ \A x \in S : Rank(S, x) \in 1 .. Cardinality(S)
<1>1. Cardinality(S) \in Nat BY FS_CardinalityType
<1>2. ASSUME NEW x \in S PROVE Rank(S, x) \in 1 .. Cardinality(S)
  <2> DEFINE U == {y \in S : y <= x}
  <2>1. IsFiniteSet(U) /\ Cardinality(U) <= Cardinality(S) BY FS_Subset
  <2>2. Cardinality(U) \in Nat BY <2>1, FS_CardinalityType
  <2>3. x \in U OBVIOUS
  <2>4. Cardinality(U) # 0 BY <2>1, <2>3, FS_EmptySet
  <2>5. Rank(S, x) = Cardinality(U) BY DEF Rank
  <2> HIDE DEF U
  <2>6. QED BY <1>1, <2>1, <2>2, <2>4, <2>5
<1>3. QED BY <1>1, <1>2

\* Two members of a finite set have different ranks.
LEMMA RankDistinct ==
  ASSUME NEW S \in SUBSET Nat, IsFiniteSet(S), NEW x \in S, NEW y \in S,
         Rank(S, x) = Rank(S, y)
  PROVE  x = y
<1>1. ASSUME NEW u \in S, NEW v \in S, u < v PROVE Rank(S, u) < Rank(S, v)
  <2> DEFINE U(z) == {w \in S : w <= z}
  <2>0. u \in Nat /\ v \in Nat /\ \A w \in S : w \in Nat OBVIOUS
  <2>1. U(u) \in SUBSET U(v) /\ v \in U(v) /\ v \notin U(u)
    <3>1. \A w \in U(u) : w \in S /\ w <= v BY <1>1, <2>0
    <3>2. U(u) \subseteq U(v) BY <3>1
    <3>3. v <= v /\ ~(v <= u) BY <1>1, <2>0
    <3>4. v \in U(v) /\ v \notin U(u) BY <3>3
    <3>5. QED BY <3>2, <3>4
  <2>2. U(u) # U(v) BY <2>1
  <2>3. IsFiniteSet(U(v)) BY FS_Subset
  <2>4. Rank(S, u) = Cardinality(U(u)) /\ Rank(S, v) = Cardinality(U(v)) BY DEF Rank
  <2> HIDE DEF U
  <2>5. QED BY <2>1, <2>2, <2>3, <2>4, SmallerPart
<1>2. Rank(S, x) \in Nat
  <2>1. Cardinality(S) \in Nat /\ Rank(S, x) \in 1 .. Cardinality(S) BY RankBounds
  <2>2. QED BY <2>1
<1>3. x < y \/ y < x \/ x = y OBVIOUS
<1>4. QED BY <1>1, <1>2, <1>3
=============================================================================
