---------------------------- MODULE FilterProofs ----------------------------
(* What Array.filter and Array.splice return and the first index of a set:
   proved once, for the queues, outboxes and ledgers of the other modules. *)
EXTENDS Filters, Integers, SequencesExt, SequenceTheorems, FiniteSetTheorems, FunctionTheorems,
        WellFoundedInduction, TLAPS

(* It keeps elements of the sequence, each one it is to keep, and each at one place. *)
LEMMA KeptOnes ==
    ASSUME NEW V, NEW s \in Seq(V), NEW I \in SUBSET DOMAIN s
    PROVE  /\ Kept(s, I) \in Seq(V)
           /\ \A k \in DOMAIN Kept(s, I) : \E i \in I : Kept(s, I)[k] = s[i]
           /\ \A i \in I : \E k \in DOMAIN Kept(s, I) : Kept(s, I)[k] = s[i]
           /\ \A k, l \in DOMAIN Kept(s, I) : k # l =>
                  \E i, j \in I : i # j /\ Kept(s, I)[k] = s[i] /\ Kept(s, I)[l] = s[j]
           /\ Len(Kept(s, I)) = Cardinality(I)
<1> DEFINE n == Cardinality(I)
           below(i) == {j \in I : j <= i}
           rank == [i \in I |-> Cardinality(below(i))]
<1>1. IsFiniteSet(I) /\ n \in Nat /\ I \subseteq Int
  <2>1. IsFiniteSet(1..Len(s)) /\ I \in SUBSET (1..Len(s))
      BY FS_Interval
  <2>2. QED
      BY <2>1, FS_Subset, FS_CardinalityType
<1>2. ASSUME NEW i \in I PROVE below(i) \in SUBSET I /\ i \in below(i) /\ IsFiniteSet(below(i))
                               /\ Cardinality(below(i)) \in 1..n
  <2>1. below(i) \in SUBSET I /\ i \in below(i)
      BY <1>1
  <2>2. IsFiniteSet(below(i)) /\ Cardinality(below(i)) <= n
      BY <1>1, <2>1, FS_Subset
  <2>3. Cardinality(below(i)) \in Nat /\ Cardinality(below(i)) # 0
      BY <2>1, <2>2, FS_CardinalityType, FS_EmptySet
  <2>4. QED
      BY <1>1, <2>1, <2>2, <2>3
<1>3. ASSUME NEW i \in I, NEW j \in I, i < j PROVE Cardinality(below(i)) # Cardinality(below(j))
  <2>1. below(i) \in SUBSET below(j) /\ j \notin below(i) /\ j \in below(j)
      BY <1>1, <1>3
  <2>2. QED
      BY <1>2, <2>1, FS_Subset
<1>4. ASSUME NEW i \in I, NEW j \in I, i # j PROVE Cardinality(below(i)) # Cardinality(below(j))
  <2>1. i < j \/ j < i
      BY <1>1, <1>4
  <2>2. QED
      BY <1>3, <2>1
<1>5. rank \in Injection(I, 1..n)
    BY <1>2, <1>4 DEF Injection, IsInjective
<1>6. rank \in Surjection(I, 1..n)
  <2>1. IsFiniteSet(1..n) /\ Cardinality(1..n) = n
      BY <1>1, FS_Interval
  <2>2. QED
      BY <1>5, <2>1, FS_Injection
<1>7. \A k \in 1..n : \E i \in I : Cardinality(below(i)) = k
    BY <1>6 DEF Surjection
<1>8. \A k \in 1..n : (CHOOSE i \in I : Cardinality(below(i)) = k) \in I
    BY <1>7
<1>9. DOMAIN Kept(s, I) = 1..n /\ \A k \in 1..n : \E i \in I : Kept(s, I)[k] = s[i]
    BY <1>8 DEF Kept
<1>10. ASSUME NEW i \in I PROVE \E k \in DOMAIN Kept(s, I) : Kept(s, I)[k] = s[i]
  <2>1. (CHOOSE j \in I : Cardinality(below(j)) = Cardinality(below(i))) = i
      BY <1>4
  <2>2. Kept(s, I)[Cardinality(below(i))] = s[i]
      BY <1>2, <2>1 DEF Kept
  <2>3. QED
      BY <1>2, <1>9, <2>2
<1>11. Kept(s, I) \in Seq(V)
  <2>1. \A k \in 1..n : Kept(s, I)[k] \in V
      BY <1>9
  <2>2. Kept(s, I) \in [1..n -> V]
      BY <1>9, <2>1 DEF Kept
  <2>3. QED
      BY <1>1, <2>2
<1>12. ASSUME NEW k \in 1..n, NEW l \in 1..n, k # l
       PROVE  \E i, j \in I : i # j /\ Kept(s, I)[k] = s[i] /\ Kept(s, I)[l] = s[j]
  <2>1. PICK i \in I : i = (CHOOSE m \in I : Cardinality(below(m)) = k)
      BY <1>8
  <2>2. PICK j \in I : j = (CHOOSE m \in I : Cardinality(below(m)) = l)
      BY <1>8
  <2>3. Cardinality(below(i)) = k /\ Cardinality(below(j)) = l
      BY <1>7, <2>1, <2>2
  <2>4. i # j /\ Kept(s, I)[k] = s[i] /\ Kept(s, I)[l] = s[j]
      BY <1>12, <2>1, <2>2, <2>3 DEF Kept
  <2>5. QED
      BY <2>4
<1>13. Len(Kept(s, I)) = n
    BY <1>1, <1>9, <1>11, LenProperties
<1>14. QED
    BY <1>9, <1>10, <1>11, <1>12, <1>13

(* One element is taken out; those after it move up. *)
LEMMA RemovedOnes ==
    ASSUME NEW V, NEW s \in Seq(V), NEW k \in DOMAIN s
    PROVE  /\ RemoveAt(s, k) \in Seq(V)
           /\ DOMAIN RemoveAt(s, k) = 1..(Len(s) - 1)
           /\ \A i \in 1..(Len(s) - 1) : RemoveAt(s, k)[i] = IF i < k THEN s[i] ELSE s[i + 1]
<1> DEFINE n == Len(s)
           a == SubSeq(s, 1, k - 1)
           b == SubSeq(s, k + 1, n)
<1>1. n \in Nat /\ DOMAIN s = 1..n /\ k \in 1..n
    BY LenProperties
<1>2. a \in Seq(V) /\ Len(a) = k - 1 /\ \A i \in 1..(k - 1) : a[i] = s[i]
    BY <1>1, SubSeqProperties
<1>3. b \in Seq(V) /\ Len(b) = n - k /\ \A i \in 1..(n - k) : b[i] = s[k + i]
    BY SMTT(30), <1>1, SubSeqProperties
<1>4. RemoveAt(s, k) = a \o b
    BY DEF RemoveAt
<1> HIDE DEF a, b
<1>5. /\ a \o b \in Seq(V) /\ Len(a \o b) = Len(a) + Len(b)
      /\ \A i \in 1..(Len(a) + Len(b)) : (a \o b)[i] = IF i <= Len(a) THEN a[i] ELSE b[i - Len(a)]
    BY <1>2, <1>3, ConcatProperties
<1>6. Len(a) + Len(b) = n - 1
    BY <1>1, <1>2, <1>3
<1>7. DOMAIN (a \o b) = 1..(n - 1)
    BY <1>5, <1>6, LenProperties
<1>8. ASSUME NEW i \in 1..(n - 1)
      PROVE  (a \o b)[i] = IF i < k THEN s[i] ELSE s[i + 1]
  <2>1. CASE i < k
    <3>1. i \in 1..(k - 1) /\ i <= k - 1
        BY <1>1, <1>8, <2>1
    <3>2. QED
        BY <1>2, <1>5, <1>6, <2>1, <3>1
  <2>2. CASE ~(i < k)
    <3>1. ~(i <= k - 1) /\ i - (k - 1) \in 1..(n - k) /\ k + (i - (k - 1)) = i + 1
        BY <1>1, <1>8, <2>2
    <3>2. b[i - (k - 1)] = s[i + 1]
        BY <1>3, <3>1
    <3>3. QED
        BY <1>2, <1>5, <1>6, <2>2, <3>1, <3>2
  <2>3. QED
      BY <2>1, <2>2
<1>9. QED
    BY <1>4, <1>5, <1>7, <1>8

(* A set of indices that is not empty has a first one. *)
LEMMA SmallestIndex ==
    ASSUME NEW T \in SUBSET Nat, T # {}
    PROVE  Min(T) \in T
<1>1. PICK R : R = {p \in Nat \X Nat : p[1] < p[2]}
    OBVIOUS
<1>2. OpToRel(<, Nat) = R
    BY <1>1 DEF OpToRel
<1>3. IsWellFoundedOn(R, Nat)
    BY <1>2, NatLessThanWellFounded
<1>4. PICK x \in T : \A y \in T : ~(<<y, x>> \in R)
    BY <1>3, WFMin
<1>5. ASSUME NEW y \in T PROVE x <= y
  <2>1. y < x => <<y, x>> \in R
      BY <1>1
  <2>2. QED
      BY <1>4, <2>1
<1>6. QED
    BY <1>5 DEF Min
==============================================================================
