--------------------------- MODULE SequenceLemmas ---------------------------
(***************************************************************************)
(* What the proofs about words, files and buffers have in common: the      *)
(* smallest counterexample, which stands for induction, and sequences that *)
(* grow by one element.                                                    *)
(***************************************************************************)
EXTENDS Integers, Sequences, SequenceTheorems, FiniteSetTheorems,
        WellFoundedInduction, TLAPS

\* Every set of natural numbers but the empty one has a smallest element.
LEMMA Smallest ==
  ASSUME NEW T, T \subseteq Nat, T # {}
  PROVE  \E n \in T : \A m \in T : n <= m
<1>. DEFINE R == {ss \in Nat \X Nat : ss[1] < ss[2]}
<1>1. R = OpToRel(<, Nat)
  BY DEF OpToRel
<1>2. IsWellFoundedOn(R, Nat)
  BY <1>1, NatLessThanWellFounded
<1>. HIDE DEF R
<1>3. PICK n \in T : \A m \in T : ~ (<<m, n>> \in R)
  BY <1>2, WFMin
<1>4. \A m \in T : <<m, n>> \in R <=> m < n
  BY DEF R
<1>5. ASSUME NEW m \in T PROVE n <= m
  <2>1. m \in Nat /\ n \in Nat /\ ~(m < n)
    BY <1>3, <1>4
  <2> QED BY <2>1
<1> QED BY <1>5

\* Induction up to m: a set with 0 and, with a number below m, the next one.
LEMMA UpTo ==
  ASSUME NEW T, NEW m \in Nat, 0 \in T,
         \A n \in Nat : n < m /\ n \in T => n + 1 \in T
  PROVE  \A n \in 0..m : n \in T
<1>. DEFINE Bad == {n \in 0..m : n \notin T}
<1>1. SUFFICES ASSUME Bad # {} PROVE FALSE
  OBVIOUS
<1>2. PICK n \in Bad : \A k \in Bad : n <= k
  <2>1. Bad \subseteq Nat
    OBVIOUS
  <2>. HIDE DEF Bad
  <2> QED
    BY <1>1, <2>1, Smallest
<1>3. n \in 1..m /\ n \notin T
  BY <1>2
<1>4. n - 1 \in Nat /\ n - 1 < m /\ n - 1 \notin Bad
  BY <1>2, <1>3
<1>5. n - 1 \in T /\ (n - 1) + 1 = n
  BY <1>3, <1>4
<1> QED
  BY <1>3, <1>4, <1>5

\* How many elements of a set there are up to each place.
LEMMA RunningStep ==
  ASSUME NEW n \in Nat, NEW S, S \subseteq 1..n, NEW k \in 1..n
  PROVE  /\ k \in S =>
              Cardinality(S \cap 1..k) = Cardinality(S \cap 1..(k - 1)) + 1
         /\ k \notin S =>
              Cardinality(S \cap 1..k) = Cardinality(S \cap 1..(k - 1))
<1>1. k \notin 1..(k - 1) /\ 1..k = 1..(k - 1) \cup {k}
  OBVIOUS
<1>2. IsFiniteSet(S \cap 1..(k - 1))
  <2>1. IsFiniteSet(1..(k - 1))
    BY FS_Interval
  <2> QED
    BY <2>1, FS_Subset
<1>3. CASE k \in S
  <2>1. /\ S \cap 1..k = (S \cap 1..(k - 1)) \cup {k}
        /\ k \notin S \cap 1..(k - 1)
    BY <1>1, <1>3
  <2>2. Cardinality((S \cap 1..(k - 1)) \cup {k}) =
          Cardinality(S \cap 1..(k - 1)) + 1
    BY <1>2, <2>1, FS_AddElement
  <2> QED
    BY <1>3, <2>1, <2>2
<1>4. CASE k \notin S
  <2>1. S \cap 1..k = S \cap 1..(k - 1)
    BY <1>1, <1>4
  <2> QED
    BY <1>4, <2>1
<1> QED
  BY <1>3, <1>4

LEMMA Running ==
  ASSUME NEW n \in Nat, NEW S, S \subseteq 1..n
  PROVE  /\ IsFiniteSet(S) /\ Cardinality(S) = Cardinality(S \cap 1..n)
         /\ Cardinality(S \cap 1..0) = 0
         /\ \A k \in Nat : Cardinality(S \cap 1..k) \in Nat
         /\ \A j, k \in Nat : j <= k =>
              Cardinality(S \cap 1..j) <= Cardinality(S \cap 1..k)
<1>1. IsFiniteSet(S)
  <2>1. IsFiniteSet(1..n)
    BY FS_Interval
  <2> QED
    BY <2>1, FS_Subset
<1>2. S \cap 1..n = S /\ 1..0 = {} /\ S \cap 1..0 = {}
  <2>1. 1..0 = {}
    OBVIOUS
  <2> QED
    BY <2>1
<1>3. ASSUME NEW k \in Nat
      PROVE  IsFiniteSet(S \cap 1..k) /\ Cardinality(S \cap 1..k) \in Nat
  <2>1. IsFiniteSet(S \cap 1..k)
    BY <1>1, FS_Subset
  <2> QED
    BY <2>1, FS_CardinalityType
<1>4. ASSUME NEW j \in Nat, NEW k \in Nat, j <= k
      PROVE  Cardinality(S \cap 1..j) <= Cardinality(S \cap 1..k)
  <2>1. S \cap 1..j \subseteq S \cap 1..k
    BY <1>4
  <2> QED
    BY <1>3, <2>1, FS_Subset
<1> QED
  BY <1>1, <1>2, <1>3, <1>4, FS_EmptySet

\* A sequence and what one more element adds to it.
LEMMA Appended ==
  ASSUME NEW S, NEW q \in Seq(S), NEW e \in S
  PROVE  /\ Append(q, e) \in Seq(S)
         /\ Len(q) \in Nat /\ DOMAIN q = 1..Len(q)
         /\ DOMAIN Append(q, e) = 1..(Len(q) + 1)
         /\ Append(q, e)[Len(q) + 1] = e
         /\ \A n \in 1..Len(q) : q[n] \in S /\ Append(q, e)[n] = q[n]
         /\ {Append(q, e)[n] : n \in DOMAIN Append(q, e)} =
              {q[n] : n \in DOMAIN q} \cup {e}
<1>1. /\ Append(q, e) \in Seq(S)
      /\ Len(q) \in Nat /\ DOMAIN q = 1..Len(q)
      /\ DOMAIN Append(q, e) = 1..(Len(q) + 1)
      /\ Append(q, e)[Len(q) + 1] = e
      /\ \A n \in 1..Len(q) : q[n] \in S /\ Append(q, e)[n] = q[n]
  OBVIOUS
<1>2. 1..(Len(q) + 1) = 1..Len(q) \cup {Len(q) + 1}
  BY <1>1
<1> QED BY <1>1, <1>2
=============================================================================
