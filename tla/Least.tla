------------------------------- MODULE Least --------------------------------
(***************************************************************************)
(* A fact about numbers that the other proofs cite.                        *)
(***************************************************************************)
EXTENDS Naturals, WellFoundedInduction, TLAPS

LessThan == {ss \in Nat \X Nat : ss[1] < ss[2]}

\* A set of numbers that is not empty has a least one.
LEMMA LeastNumber ==
  ASSUME NEW S \in SUBSET Nat, S # {}
  PROVE  \E k \in S : \A j \in S : k <= j
<1>1. IsWellFoundedOn(LessThan, Nat)
  BY NatLessThanWellFounded DEF OpToRel, LessThan
<1>2. PICK k \in S : \A j \in S : ~ (<<j, k>> \in LessThan)
  BY <1>1, WFMin
<1>3. ASSUME NEW j \in S PROVE k <= j
  <2>1. j \in Nat /\ k \in Nat /\ <<j, k>> \in Nat \X Nat
    OBVIOUS
  <2>2. ~ (j < k)
    <3>1. j < k => <<j, k>> \in LessThan
      BY <2>1 DEF LessThan
    <3>2. QED
      BY <1>2, <3>1
  <2>3. QED
    BY <2>1, <2>2
<1>4. QED
  BY <1>3
=============================================================================
