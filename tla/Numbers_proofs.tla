--------------------------- MODULE Numbers_proofs ---------------------------
(***************************************************************************)
(* Least numbers, by which the other modules argue instead of induction:   *)
(* the set of the numbers for which something fails has no least element.  *)
(***************************************************************************)
EXTENDS Integers, FiniteSets, FiniteSetTheorems, WellFoundedInduction, TLAPS

\* Every non-empty set of natural numbers has a least element.
LEMMA LeastNat ==
  ASSUME NEW T, T \subseteq Nat, T # {}
  PROVE  \E m \in T : \A k \in T : m <= k
<1> DEFINE R == OpToRel(<, Nat)
<1>1. IsWellFoundedOn(R, Nat)
  BY NatLessThanWellFounded
<1>2. \A x, y \in Nat : <<x, y>> \in R <=> x < y
  BY DEF OpToRel
<1> HIDE DEF R
<1>3. PICK x \in T : \A y \in T : ~(<<y, x>> \in R)
  BY <1>1, WFMin
<1>4. ASSUME NEW y \in T PROVE x <= y
  <2>1. x \in Nat /\ y \in Nat
    OBVIOUS
  <2>2. ~(<<y, x>> \in R)
    BY <1>3
  <2>3. ~(y < x)
    BY <1>2, <2>1, <2>2
  <2> QED BY <2>1, <2>3
<1> QED BY <1>4

\* A finite non-empty set of integers has a least element.
LEMMA LeastOfFinite ==
  ASSUME NEW S, S \subseteq Int, IsFiniteSet(S), S # {}
  PROVE  \E x \in S : \A y \in S : x <= y
<1> DEFINE HasMin(T) == \E x \in T : \A y \in T : x <= y
           Bad == {c \in Nat : \E T \in SUBSET S : T # {} /\ Cardinality(T) = c /\ ~HasMin(T)}
<1>1. ASSUME Bad # {} PROVE FALSE
  <2>1. PICK c \in Bad : \A d \in Bad : c <= d
    <3>1. Bad \subseteq Nat
      OBVIOUS
    <3> HIDE DEF Bad
    <3> QED BY <1>1, <3>1, LeastNat
  <2>2. PICK T \in SUBSET S : T # {} /\ Cardinality(T) = c /\ ~HasMin(T)
    BY <2>1
  <2>3. PICK x \in T : TRUE
    BY <2>2
  <2>4. IsFiniteSet(T) /\ x \in Int
    BY <2>2, FS_Subset
  <2>5. IsFiniteSet(T \ {x}) /\ Cardinality(T \ {x}) = c - 1 /\ c - 1 \in Nat
    <3>1. IsFiniteSet(T \ {x}) /\ Cardinality(T \ {x}) = Cardinality(T) - 1
      BY <2>3, <2>4, FS_RemoveElement
    <3> QED BY <2>2, <3>1, FS_CardinalityType
  <2>6. HasMin(T \ {x}) \/ T \ {x} = {}
    <3> SUFFICES ASSUME T \ {x} # {}, ~HasMin(T \ {x}) PROVE FALSE
      OBVIOUS
    <3>1. T \ {x} \in SUBSET S
      OBVIOUS
    <3>2. c - 1 \in Bad
      BY <2>5, <3>1
    <3>3. c <= c - 1
      BY <2>1, <3>2
    <3> QED BY <2>5, <3>3
  <2>7. CASE T \ {x} = {}
    <3>1. \A y \in T : y = x
      BY <2>7
    <3> QED BY <2>2, <2>3, <2>4, <3>1
  <2>8. CASE HasMin(T \ {x})
    <3>1. PICK m \in T \ {x} : \A y \in T \ {x} : m <= y
      BY <2>8
    <3>2. m \in Int
      OBVIOUS
    <3>3. CASE x <= m
      <4>1. ASSUME NEW y \in T PROVE x <= y
        <5>1. y \in Int
          OBVIOUS
        <5> QED BY <2>4, <3>1, <3>2, <3>3, <5>1
      <4> QED BY <2>2, <2>3, <4>1
    <3>4. CASE m <= x
      <4>1. ASSUME NEW y \in T PROVE m <= y
        BY <3>1, <3>4
      <4> QED BY <2>2, <3>1, <4>1
    <3> QED BY <2>4, <3>2, <3>3, <3>4
  <2> QED BY <2>6, <2>7, <2>8
<1>2. HasMin(S)
  <2> SUFFICES ASSUME ~HasMin(S) PROVE FALSE
    OBVIOUS
  <2>1. Cardinality(S) \in Bad
    BY FS_CardinalityType
  <2> QED BY <2>1, <1>1
<1> QED BY <1>2
=============================================================================
