---------------------------- MODULE QueueLemmas ----------------------------
(***************************************************************************)
(* Facts about queues that the proofs about the DRAM controller rest on:   *)
(* what std::deque::erase leaves behind, how it changes a count of         *)
(* positions, and that a non-empty set of positions has a first one.       *)
(***************************************************************************)
EXTENDS Integers, Sequences, FiniteSets, Queues, FiniteSetTheorems, TLAPS

\* What push_back leaves.
LEMMA Appended ==
  ASSUME NEW S, NEW q \in Seq(S), NEW x \in S
  PROVE  /\ Append(q, x) \in Seq(S) /\ Append(q, x) # <<>>
         /\ Len(Append(q, x)) = Len(q) + 1
         /\ \A i \in 1..Len(q) : Append(q, x)[i] = q[i]
         /\ Append(q, x)[Len(q) + 1] = x
OBVIOUS

\* What the concatenation of two queues holds.
LEMMA Joined ==
  ASSUME NEW S, NEW a \in Seq(S), NEW b \in Seq(S)
  PROVE  /\ a \o b \in Seq(S) /\ Len(a \o b) = Len(a) + Len(b)
         /\ \A i \in 1..(Len(a) + Len(b)) :
              (a \o b)[i] = IF i <= Len(a) THEN a[i] ELSE b[i - Len(a)]
OBVIOUS

\* Erasing position k keeps the elements before it in place and moves those
\* after it forward by one.
LEMMA EraseProperties ==
  ASSUME NEW S, NEW q \in Seq(S), NEW k \in 1..Len(q)
  PROVE  /\ erase(q, k) \in Seq(S)
         /\ Len(erase(q, k)) = Len(q) - 1
         /\ \A i \in 1..(Len(q) - 1) :
              erase(q, k)[i] = IF i < k THEN q[i] ELSE q[i + 1]
<1> DEFINE n == Len(q)
           a == SubSeq(q, 1, k - 1)
           b == SubSeq(q, k + 1, n)
           c == a \o b
<1>1. /\ a \in Seq(S) /\ Len(a) = k - 1
      /\ \A i \in 1..(k - 1) : a[i] = q[i]
  OBVIOUS
<1>2. /\ b \in Seq(S) /\ Len(b) = n - k
      /\ \A i \in 1..(n - k) : b[i] = q[k + i]
  OBVIOUS
<1>3. erase(q, k) = c
  BY Zenon DEF erase
<1>4. n \in Nat /\ k \in 1..n
  OBVIOUS
<1> HIDE DEF a, b, n
<1>5. /\ c \in Seq(S) /\ Len(c) = Len(a) + Len(b)
      /\ \A i \in 1..(Len(a) + Len(b)) :
           c[i] = IF i <= Len(a) THEN a[i] ELSE b[i - Len(a)]
  BY <1>1, <1>2, Joined, Zenon
<1> HIDE DEF c
<1>6. Len(c) = n - 1 /\ \A i \in 1..(n - 1) : c[i] = IF i <= k - 1 THEN a[i] ELSE b[i - (k - 1)]
  BY <1>1, <1>2, <1>4, <1>5
<1>7. ASSUME NEW i \in 1..(n - 1)
      PROVE  c[i] = IF i < k THEN q[i] ELSE q[i + 1]
  <2>1. CASE i < k
    <3>1. i \in 1..(k - 1) /\ i <= k - 1
      BY <1>4, <2>1
    <3>2. c[i] = a[i]
      BY <1>6, <3>1, Zenon
    <3> QED BY <1>1, <2>1, <3>1, <3>2, Zenon
  <2>2. CASE ~(i < k)
    <3>1. i - (k - 1) \in 1..(n - k) /\ k + (i - (k - 1)) = i + 1 /\ ~(i <= k - 1)
      BY <1>4, <2>2
    <3>2. c[i] = b[i - (k - 1)]
      BY <1>6, <3>1, Zenon
    <3> QED BY <1>2, <2>2, <3>1, <3>2, Zenon
  <2> QED BY <2>1, <2>2, Zenon
<1> QED BY <1>3, <1>5, <1>6, <1>7, Zenon DEF n

\* T is a set of positions of a queue of n elements and U the set of the same
\* elements' positions after position k is erased.
Renumbered(n, k, T, U) ==
  /\ n \in Nat /\ k \in 1..n /\ T \in SUBSET (1..n) /\ U \in SUBSET (1..(n - 1))
  /\ \A i \in 1..(n - 1) : i \in U <=> (IF i < k THEN i ELSE i + 1) \in T

\* U has one element less if k was among them, and as many otherwise.
LEMMA ShiftCount ==
  ASSUME NEW n \in Nat, NEW k \in 1..n,
         NEW T \in SUBSET (1..n), NEW U \in SUBSET (1..(n - 1)),
         \A i \in 1..(n - 1) : i \in U <=> (IF i < k THEN i ELSE i + 1) \in T
  PROVE  /\ IsFiniteSet(T) /\ IsFiniteSet(U)
         /\ Cardinality(U) = IF k \in T THEN Cardinality(T) - 1 ELSE Cardinality(T)
<1> DEFINE V == T \ {k}
           f == [i \in U |-> IF i < k THEN i ELSE i + 1]
<1>1. IsFiniteSet(T) /\ IsFiniteSet(U)
  <2>1. IsFiniteSet(1..n) /\ IsFiniteSet(1..(n - 1))
    BY FS_Interval
  <2> QED BY <2>1, FS_Subset, Zenon
<1>2. f \in [U -> V]
  <2>1. ASSUME NEW i \in U PROVE (IF i < k THEN i ELSE i + 1) \in V
    OBVIOUS
  <2> QED BY <2>1
<1>3. \A i, j \in U : f[i] = f[j] => i = j
  OBVIOUS
<1>4. ASSUME NEW t \in V PROVE \E i \in U : f[i] = t
  <2>1. CASE t < k
    <3>1. t \in 1..(n - 1) /\ t \in T
      BY <2>1
    <3>2. t \in U /\ f[t] = t
      BY <2>1, <3>1, Zenon
    <3> QED BY <3>2, Zenon
  <2>2. CASE ~(t < k)
    <3>1. t - 1 \in 1..(n - 1) /\ ~(t - 1 < k) /\ (t - 1) + 1 = t /\ t \in T
      BY <2>2
    <3>2. t - 1 \in U /\ f[t - 1] = t
      BY <3>1, Zenon
    <3> QED BY <3>2, Zenon
  <2> QED BY <2>1, <2>2
<1>5. f \in Bijection(U, V)
  BY <1>2, <1>3, <1>4, Zenon DEF Bijection, Injection, Surjection, IsInjective
<1>6. Cardinality(V) = Cardinality(U)
  BY <1>1, <1>5, FS_Bijection, Zenon DEF ExistsBijection
<1> QED BY <1>1, <1>6, FS_RemoveElement, Zenon

\* The same, for a renumbering that is known as one.
LEMMA RenumberedCount ==
  ASSUME NEW n, NEW k, NEW T, NEW U, Renumbered(n, k, T, U)
  PROVE  Cardinality(U) = IF k \in T THEN Cardinality(T) - 1 ELSE Cardinality(T)
<1>1. /\ n \in Nat /\ k \in 1..n /\ T \in SUBSET (1..n) /\ U \in SUBSET (1..(n - 1))
      /\ \A i \in 1..(n - 1) : i \in U <=> (IF i < k THEN i ELSE i + 1) \in T
  BY Zenon DEF Renumbered
<1>2. ASSUME NEW m \in Nat, NEW j \in 1..m, NEW V \in SUBSET (1..m), NEW W \in SUBSET (1..(m - 1)),
             \A i \in 1..(m - 1) : i \in W <=> (IF i < j THEN i ELSE i + 1) \in V
      PROVE  Cardinality(W) = IF j \in V THEN Cardinality(V) - 1 ELSE Cardinality(V)
  BY <1>2, ShiftCount
<1> QED BY <1>1, <1>2

\* The first packet to a free rank exists if there is any (chooseNext under FCFS).
LEMMA LeastPosition ==
  ASSUME NEW T \in SUBSET Nat, T # {}
  PROVE  \E i \in T : \A j \in T : i <= j
<1>1. IsWellFoundedOn(OpToRel(<, Nat), Nat)
  BY NatLessThanWellFounded, Zenon
<1>2. PICK i \in T : \A j \in T : ~(<<j, i>> \in OpToRel(<, Nat))
  BY <1>1, WFMin, Zenon
<1>3. \A j \in T : ~(j < i)
  BY <1>2, Zenon DEF OpToRel
<1> QED BY <1>3

=============================================================================
