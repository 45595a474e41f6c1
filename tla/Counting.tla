------------------------------ MODULE Counting ------------------------------
(* Counting the members of a set before and after a step, and its smallest *)
(* and largest member: the facts that the ledgers of SendPipeline (tickets) *)
(* and Outbox (jobs), the ids of ProbeRuns and the batches of BouncePoller  *)
(* rest on.                                                                 *)
EXTENDS Integers, FiniteSets, TLAPS, FiniteSetTheorems, NaturalsInduction, WellFoundedInduction

\* A subset is no larger: jobs that a step only closes.
LEMMA CountSubset ==
  ASSUME NEW A, NEW B, IsFiniteSet(B), A \subseteq B
  PROVE  Cardinality(A) \in Nat /\ Cardinality(B) \in Nat /\ Cardinality(A) <= Cardinality(B)
BY FS_Subset, FS_CardinalityType

\* A set that lost a member is smaller by one: a job that was settled.
LEMMA CountDropped ==
  ASSUME NEW A, NEW B, NEW x \in B, IsFiniteSet(B), A \subseteq B \ {x}
  PROVE  Cardinality(A) + 1 <= Cardinality(B)
<1>1. /\ IsFiniteSet(B \ {x})
      /\ Cardinality(B \ {x}) = Cardinality(B) - 1
  BY FS_RemoveElement
<1>2. Cardinality(B) \in Nat
  BY FS_CardinalityType
<1>3. Cardinality(A) \in Nat /\ Cardinality(A) <= Cardinality(B \ {x})
  BY <1>1, CountSubset
<1> QED BY <1>1, <1>2, <1>3

\* A set that may have gained a member is larger by one at most: a claim.
LEMMA CountAdded ==
  ASSUME NEW A, NEW B, NEW x, IsFiniteSet(B), A \subseteq B \cup {x}
  PROVE  Cardinality(A) <= Cardinality(B) + 1
<1>1. Cardinality(B) \in Nat
  BY FS_CardinalityType
<1>2. /\ IsFiniteSet(B \cup {x})
      /\ Cardinality(B \cup {x}) = Cardinality(B) \/ Cardinality(B \cup {x}) = Cardinality(B) + 1
  BY FS_AddElement
<1>3. Cardinality(A) \in Nat /\ Cardinality(A) <= Cardinality(B \cup {x})
  BY <1>2, CountSubset
<1> QED BY <1>1, <1>2, <1>3

\* Some numbers have a smallest one: the first unused id, the oldest mail.
LEMMA SmallestOf ==
  ASSUME NEW S \in SUBSET Nat, S # {}
  PROVE  \E m \in S : \A n \in S : m <= n
<1>0. S \subseteq Nat /\ S # {}
  OBVIOUS
<1>1. PICK m \in S : \A n \in S : ~(<<n, m>> \in OpToRel(<, Nat))
  BY <1>0, WFMin, NatLessThanWellFounded
<1>2. ASSUME NEW n \in S PROVE m <= n
  <2>1. n \in Nat /\ m \in Nat
    BY <1>0
  <2>2. ~(n < m)
    BY <1>1, <2>1 DEF OpToRel
  <2> QED BY <2>1, <2>2
<1> QED BY <1>2

\* Some numbers up to a bound have a largest one: the newest run, the newest mail.
LEMMA LargestOf ==
  ASSUME NEW max \in Nat, NEW S \in SUBSET (1..max), S # {}
  PROVE  \E m \in S : \A n \in S : n <= m
<1> DEFINE T == {max - n : n \in S}
<1>0. \A n \in S : n \in Nat /\ max - n \in Nat
  OBVIOUS
<1>1. T \in SUBSET Nat /\ T # {}
  BY <1>0
<1>2. PICK t \in T : \A u \in T : t <= u
  BY <1>1, SmallestOf
<1>3. PICK m \in S : t = max - m
  OBVIOUS
<1>4. ASSUME NEW n \in S PROVE n <= m
  <2>1. t <= max - n
    BY <1>2
  <2> QED BY <1>0, <1>3, <2>1
<1> QED BY <1>4
=============================================================================
