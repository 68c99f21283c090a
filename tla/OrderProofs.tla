---------------------------- MODULE OrderProofs -----------------------------
(***************************************************************************)
(* Facts about least and greatest elements that the components' proofs     *)
(* rest on.  The induction they need is taken from the well-foundedness of *)
(* strict inclusion between finite sets.                                   *)
(***************************************************************************)
EXTENDS Integers, FiniteSetsExt, FiniteSetTheorems, TLAPS

\* A collection of finite sets has a minimal member.
LEMMA MinimalFinite ==
  ASSUME NEW Q, Q # {}, \A q \in Q : IsFiniteSet(q)
  PROVE  \E q \in Q : \A r \in Q : ~(r \subseteq q /\ r # q)
<1> DEFINE U == UNION Q
<1>1. Q \subseteq FiniteSubsetsOf(U)
  BY DEF FiniteSubsetsOf
<1>2. IsWellFoundedOn(StrictSubsetOrdering(U), FiniteSubsetsOf(U))
  BY FS_StrictSubsetOrderingWellFounded
<1> HIDE DEF U
<1>3. PICK q \in Q : \A r \in Q : ~(<<r, q>> \in StrictSubsetOrdering(U))
  BY <1>1, <1>2, WFMin
<1>4. \A r \in Q : <<r, q>> \in (SUBSET U) \X (SUBSET U)
  BY DEF U
<1> QED
  BY <1>3, <1>4 DEF StrictSubsetOrdering

\* A nonempty set of naturals has a least element.
LEMMA LeastNatural ==
  ASSUME NEW S \in SUBSET Nat, S # {}
  PROVE  \E x \in S : \A y \in S : x <= y
<1> DEFINE Q == {0 .. n : n \in S}
<1>1. Q # {} /\ \A q \in Q : IsFiniteSet(q)
  <2>1. \A n \in S : IsFiniteSet(0 .. n)
    BY FS_Interval
  <2> QED
    BY <2>1
<1>2. \A q \in Q : \E x \in S : q = 0 .. x
  OBVIOUS
<1>3. \A x \in S : 0 .. x \in Q
  OBVIOUS
<1> HIDE DEF Q
<1>4. PICK q \in Q : \A r \in Q : ~(r \subseteq q /\ r # q)
  BY <1>1, MinimalFinite
<1>5. PICK x \in S : q = 0 .. x
  BY <1>2
<1>6. ASSUME NEW y \in S, y < x
      PROVE  FALSE
  <2>1. 0 .. y \subseteq 0 .. x /\ 0 .. y # 0 .. x
    BY <1>6
  <2> QED
    BY <2>1, <1>3, <1>4, <1>5
<1> QED
  BY <1>6

\* A finite nonempty set of naturals has a greatest element.
LEMMA GreatestNatural ==
  ASSUME NEW S \in SUBSET Nat, S # {}, IsFiniteSet(S)
  PROVE  \E x \in S : \A y \in S : y <= x
<1> DEFINE HasMax(T) == \E x \in T : \A y \in T : y <= x
           Q == {T \in SUBSET S : T # {} /\ ~HasMax(T)}
<1>1. SUFFICES ASSUME Q # {}
               PROVE  FALSE
  OBVIOUS
<1>2. \A q \in Q : IsFiniteSet(q)
  BY FS_Subset
<1>3. PICK q \in Q : \A r \in Q : ~(r \subseteq q /\ r # q)
  <2> HIDE DEF Q
  <2> QED
    BY <1>1, <1>2, MinimalFinite
<1>4. PICK x \in q : TRUE
  OBVIOUS
<1> DEFINE r == q \ {x}
<1>5. CASE r = {}
  <2>1. q = {x}
    BY <1>5
  <2> QED
    BY <2>1
<1>6. CASE r # {}
  <2>1. HasMax(r)
    <3>1. r \subseteq q /\ r # q /\ r \in SUBSET S
      BY <1>4
    <3>2. r \notin Q
      BY <3>1, <1>3
    <3> HIDE DEF HasMax
    <3> QED
      BY <3>1, <3>2, <1>6
  <2>2. PICK m \in r : \A y \in r : y <= m
    BY <2>1
  <2>3. \A y \in q : y \in Nat /\ (y <= m \/ y = x)
    BY <2>2
  <2>4. CASE x <= m
    BY <2>2, <2>3, <2>4
  <2>5. CASE ~(x <= m)
    <3>1. \A y \in q : y <= x
      BY <2>3, <2>5, <1>4
    <3> QED
      BY <3>1
  <2> QED
    BY <2>4, <2>5
<1> QED
  BY <1>5, <1>6

\* So has one with an upper bound.
LEMMA GreatestBelow ==
  ASSUME NEW n \in Nat, NEW S \in SUBSET (0 .. n), S # {}
  PROVE  \E x \in S : \A y \in S : y <= x
<1>1. IsFiniteSet(0 .. n)
  BY FS_Interval
<1>2. IsFiniteSet(S)
  BY <1>1, FS_Subset, Zenon
<1>3. S \in SUBSET Nat
  OBVIOUS
<1> QED
  BY <1>2, <1>3, GreatestNatural

\* Induction over the naturals, for the set where a fact holds.
LEMMA InductiveSet ==
  ASSUME NEW S \in SUBSET Nat, 0 \in S, \A n \in S : n + 1 \in S
  PROVE  S = Nat
<1>1. SUFFICES ASSUME Nat \ S # {}
               PROVE  FALSE
  OBVIOUS
<1>2. PICK x \in Nat \ S : \A y \in Nat \ S : x <= y
  BY <1>1, LeastNatural
<1> QED
  BY <1>2
=============================================================================
