----------------------------- MODULE LeastElements ----------------------------
(***************************************************************************)
(* Induction without a predicate for a parameter: a nonempty family of     *)
(* subsets of a finite set has a smallest member, and a nonempty set of    *)
(* naturals a least one.  Where a proof by induction would assume a        *)
(* property of all smaller cases, the proofs that use this module take the *)
(* least case that lacks the property.                                     *)
(***************************************************************************)
EXTENDS Naturals, FiniteSetTheorems, WellFoundedInduction, TLAPS

LEMMA SmallestSet ==
  ASSUME NEW S, IsFiniteSet(S), NEW F \in SUBSET SUBSET S, F # {}
  PROVE  \E T \in F : \A U \in F : U \subseteq T => U = T
<1> DEFINE R == StrictSubsetOrdering(S)
<1>1. IsWellFoundedOn(R, SUBSET S)
  BY FS_StrictSubsetOrderingWellFounded, FS_FiniteSubsetsOfFinite
<1>2. \A T, U \in F : U \subseteq T /\ U # T => <<U, T>> \in R
  BY DEF StrictSubsetOrdering
<1> HIDE DEF R
<1>3. \E T \in F : \A U \in F : ~(<<U, T>> \in R)
  BY <1>1, WFMin, Zenon
<1> QED
  BY <1>2, <1>3, Zenon

LEMMA LeastNat ==
  ASSUME NEW T \in SUBSET Nat, T # {}
  PROVE  \E n \in T : \A m \in T : n <= m
<1>1. PICK top \in T : TRUE
  OBVIOUS
<1> DEFINE S == 0..top
           F == {0..m : m \in {k \in T : k <= top}}
<1>2. IsFiniteSet(S)
  BY <1>1, FS_Interval
<1>3. F \in SUBSET SUBSET S /\ F # {}
  BY <1>1
<1>4. \E A \in F : \A U \in F : U \subseteq A => U = A
  <2> HIDE DEF S, F
  <2> QED
    BY <1>2, <1>3, SmallestSet
<1>5. PICK n \in T : n <= top /\ \A U \in F : U \subseteq 0..n => U = 0..n
  BY <1>4
<1>6. ASSUME NEW m \in T, m < n PROVE FALSE
  <2>1. 0..m \in F /\ 0..m \subseteq 0..n
    BY <1>5, <1>6
  <2>2. 0..m = 0..n
    BY <2>1, <1>5
  <2> QED
    BY <1>6, <2>2
<1> QED
  BY <1>6
===============================================================================
