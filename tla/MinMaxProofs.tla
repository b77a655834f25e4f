---------------------------- MODULE MinMaxProofs ----------------------------
(***************************************************************************)
(* The least element of a set of naturals and the greatest one of a        *)
(* bounded set, as FiniteSetsExt chooses them: the models take a minimum   *)
(* or a maximum where the code sorts and takes the first row.              *)
(***************************************************************************)
EXTENDS Naturals, FiniteSetsExt, WellFoundedInduction, TLAPS

(* The order on Nat is well-founded: of some naturals one is the least.    *)
THEOREM LeastOfNaturals ==
  ASSUME NEW S \in SUBSET Nat, S # {} PROVE \E n \in S : \A k \in S : n <= k
<1> DEFINE Below == {p \in Nat \X Nat : p[1] < p[2]}
<1>1. IsWellFoundedOn(Below, Nat)
  BY NatLessThanWellFounded DEF OpToRel
<1>2. PICK n \in S : \A k \in S : ~(<<k, n>> \in Below)
  BY <1>1, WFMin
<1>3. ASSUME NEW k \in S PROVE n <= k
  <2>1. k \in Nat /\ n \in Nat /\ ~(<<k, n>> \in Below)
    BY <1>2
  <2>2. ~(k < n)
    BY <2>1
  <2> QED
    BY <2>1, <2>2
<1> QED
  BY <1>3

(* Min takes an element that no other one is below.                        *)
THEOREM MinOfNaturals ==
  ASSUME NEW S \in SUBSET Nat, S # {} PROVE Min(S) \in S /\ \A k \in S : Min(S) <= k
BY LeastOfNaturals DEF Min

(* A bounded set has a greatest element: the one farthest from zero is the *)
(* one nearest to the bound.                                               *)
THEOREM GreatestOfBounded ==
  ASSUME NEW b \in Nat, NEW S \in SUBSET (0..b), S # {}
  PROVE  \E n \in S : \A k \in S : k <= n
<1> DEFINE gaps == {b - k : k \in S}
<1>1. gaps \in SUBSET Nat /\ gaps # {}
  <2>1. \A k \in S : b - k \in Nat
    OBVIOUS
  <2>2. PICK k \in S : TRUE
    OBVIOUS
  <2>3. b - k \in gaps
    OBVIOUS
  <2> QED
    BY <2>1, <2>3
<1>2. PICK gap \in gaps : \A k \in gaps : gap <= k
  BY <1>1, LeastOfNaturals
<1>3. PICK n \in S : gap = b - n
  OBVIOUS
<1>4. ASSUME NEW k \in S PROVE k <= n
  <2>1. gap <= b - k
    BY <1>2
  <2> QED
    BY <1>3, <2>1
<1> QED
  BY <1>4

(* Max takes an element that no other one is above.                        *)
THEOREM MaxOfBounded ==
  ASSUME NEW b \in Nat, NEW S \in SUBSET (0..b), S # {}
  PROVE  Max(S) \in S /\ \A k \in S : k <= Max(S)
<1>1. PICK n \in S : \A k \in S : k <= n
  BY GreatestOfBounded
<1>2. \A k \in S : n >= k
  BY <1>1
<1>3. Max(S) \in S /\ \A k \in S : Max(S) >= k
  BY <1>2 DEF Max
<1> QED
  BY <1>3
=============================================================================
