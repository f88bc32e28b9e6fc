---------------------------- MODULE OrderLemmas ----------------------------
(***************************************************************************)
(* Least elements.  The loops and sorts of the code pick the first of what *)
(* is left; the models write that as a CHOOSE of a least element, and the  *)
(* proofs need that there is one.  Both facts quantify over a set, so they *)
(* also serve as induction principles: take the set of counterexamples.    *)
(***************************************************************************)
EXTENDS Integers, FiniteSets, FiniteSetTheorems, WellFoundedInduction, TLAPS

\* Every non-empty set of naturals has a least member.
LEMMA LeastNatural ==
    ASSUME NEW T, T \subseteq Nat, T # {}
    PROVE  \E x \in T : \A y \in T : x <= y
<1>1. PICK x \in T : \A y \in T : ~(<<y, x>> \in OpToRel(<, Nat))
  BY NatLessThanWellFounded, WFMin
<1>2. ASSUME NEW y \in T PROVE x <= y
  <2>1. ~(<<y, x>> \in OpToRel(<, Nat))
    BY <1>1
  <2>2. x \in Nat /\ y \in Nat
    OBVIOUS
  <2>3. ~(y < x)
    BY <2>1, <2>2 DEF OpToRel
  <2> QED
    BY <2>2, <2>3
<1> QED
  BY <1>2

\* A strict order on a finite non-empty set has a minimal member: one with the
\* fewest members before it.
LEMMA MinimalOfFinite ==
    ASSUME NEW S, IsFiniteSet(S), S # {}, NEW R,
           \A x \in S : <<x, x>> \notin R,
           \A x, y, z \in S : <<x, y>> \in R /\ <<y, z>> \in R => <<x, z>> \in R
    PROVE  \E x \in S : \A y \in S : <<y, x>> \notin R
<1> DEFINE Below(x) == {y \in S : <<y, x>> \in R}
           Counts == {Cardinality(Below(x)) : x \in S}
<1>1. \A x \in S : IsFiniteSet(Below(x)) /\ Cardinality(Below(x)) \in Nat
  <2> TAKE x \in S
  <2>1. Below(x) \in SUBSET S
    OBVIOUS
  <2> HIDE DEF Below
  <2>2. IsFiniteSet(Below(x))
    BY <2>1, FS_Subset
  <2> QED
    BY <2>2, FS_CardinalityType
<1>2. Counts \subseteq Nat /\ Counts # {}
  <2> HIDE DEF Below
  <2> QED
    BY <1>1
<1>3. PICK c \in Counts : \A d \in Counts : c <= d
  <2> HIDE DEF Counts
  <2> QED
    BY <1>2, LeastNatural
<1>4. PICK x \in S : c = Cardinality(Below(x))
  OBVIOUS
<1>5. ASSUME NEW y \in S, <<y, x>> \in R PROVE FALSE
  <2>1. Below(y) \in SUBSET Below(x)
    BY <1>5
  <2>2. Below(y) # Below(x)
    <3>1. y \in Below(x) /\ y \notin Below(y)
      BY <1>5
    <3> QED
      BY <3>1
  <2>3. /\ Cardinality(Below(y)) <= Cardinality(Below(x))
        /\ Cardinality(Below(y)) # Cardinality(Below(x))
    <3> HIDE DEF Below
    <3> QED
      BY <1>1, <2>1, <2>2, FS_Subset
  <2>4. Cardinality(Below(y)) \in Counts
    OBVIOUS
  <2> HIDE DEF Below, Counts
  <2> QED
    BY <1>1, <1>2, <1>3, <1>4, <2>3, <2>4
<1> QED
  BY <1>5
=============================================================================
