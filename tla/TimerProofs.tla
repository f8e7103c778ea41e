---------------------------- MODULE TimerProofs ----------------------------
(***************************************************************************)
(* Proofs about EventTimers and TimerExecThread, for every number of       *)
(* listeners, cells, delays and calls.                                     *)
(***************************************************************************)
EXTENDS TimerExecThread, FiniteSetTheorems, SequenceTheorems, TLAPS

-------------------------------------------------------------------------------
(* What the standard algorithms do                                         *)

(* Every set of numbers has a least one.                                    *)
LEMMA LeastNat ==
  ASSUME NEW T \in SUBSET Nat, T # {}
  PROVE  \E x \in T : \A y \in T : x <= y
<1>1. IsWellFoundedOn(OpToRel(<, Nat), Nat)
  BY NatLessThanWellFounded, Zenon
<1>2. T \subseteq Nat
  OBVIOUS
<1>3. \E x \in T : \A y \in T : <<y, x>> \notin OpToRel(<, Nat)
  BY <1>1, <1>2, WFMin, Zenon
<1>4. \E x \in T : \A y \in T : ~(y < x)
  BY <1>3, Zenon DEF OpToRel
<1> QED
  BY <1>4

(* Where a property of positions that is lost once and for all ends.        *)
LEMMA PartitionPoint ==
  ASSUME NEW n \in Nat, NEW Lost \in SUBSET (1 .. n),
         \A i, j \in 1 .. n : i < j /\ i \in Lost => j \in Lost
  PROVE  \E k \in 0 .. n : \A i \in 1 .. n : i <= k <=> i \notin Lost
<1>1. CASE Lost = {}
  BY <1>1
<1>2. CASE Lost # {}
  <2>1. PICK k \in Lost : \A i \in Lost : k <= i
    BY <1>2, LeastNat
  <2>2. \A i \in 1 .. n : i <= k - 1 <=> i \notin Lost
    BY <2>1
  <2> QED
    BY <2>1, <2>2
<1> QED
  BY <1>1, <1>2

(* What a cell's next is compared with, in a list of cells.                 *)
Nexts(s, ent) == \A i \in DOMAIN s : ent[s[i]].next \in Nat

LEMMA LowerBound ==
  ASSUME NEW S, NEW s \in Seq(S), NEW ent, NEW n \in Nat, Nexts(s, ent), Sorted(s, ent)
  PROVE  /\ lower_bound(s, ent, n) \in 0 .. Len(s)
         /\ \A i \in DOMAIN s : i <= lower_bound(s, ent, n) <=> ent[s[i]].next < n
<1> DEFINE Lost == {i \in 1 .. Len(s) : ~(ent[s[i]].next < n)}
<1>1. Len(s) \in Nat /\ DOMAIN s = 1 .. Len(s)
  OBVIOUS
<1>2. \A i, j \in 1 .. Len(s) : i < j /\ i \in Lost => j \in Lost
  BY <1>1 DEF Nexts, Sorted
<1>3. \E k \in 0 .. Len(s) : \A i \in 1 .. Len(s) : i <= k <=> i \notin Lost
  BY <1>1, <1>2, PartitionPoint
<1>4. \E k \in 0 .. Len(s) : \A i \in DOMAIN s : i <= k <=> ent[s[i]].next < n
  BY <1>1, <1>3
<1> QED
  BY <1>4 DEF lower_bound

LEMMA UpperBound ==
  ASSUME NEW S, NEW s \in Seq(S), NEW ent, NEW n \in Nat, Nexts(s, ent), Sorted(s, ent)
  PROVE  /\ upper_bound(s, ent, n) \in 0 .. Len(s)
         /\ \A i \in DOMAIN s : i <= upper_bound(s, ent, n) <=> ent[s[i]].next <= n
<1> DEFINE Lost == {i \in 1 .. Len(s) : ~(ent[s[i]].next <= n)}
<1>1. Len(s) \in Nat /\ DOMAIN s = 1 .. Len(s)
  OBVIOUS
<1>2. \A i, j \in 1 .. Len(s) : i < j /\ i \in Lost => j \in Lost
  BY <1>1 DEF Nexts, Sorted
<1>3. \E k \in 0 .. Len(s) : \A i \in 1 .. Len(s) : i <= k <=> i \notin Lost
  BY <1>1, <1>2, PartitionPoint
<1>4. \E k \in 0 .. Len(s) : \A i \in DOMAIN s : i <= k <=> ent[s[i]].next <= n
  BY <1>1, <1>3
<1> QED
  BY <1>4 DEF upper_bound

(* No element comes twice.                                                  *)
Once(s) == \A i, j \in DOMAIN s : s[i] = s[j] => i = j

(* The cells of a list are finitely many.                                   *)
LEMMA ToSetFinite ==
  ASSUME NEW S, NEW s \in Seq(S)
  PROVE  IsFiniteSet(ToSet(s)) /\ ToSet(s) \subseteq S
<1>1. Len(s) \in Nat /\ DOMAIN s = 1 .. Len(s) /\ s \in [1 .. Len(s) -> S]
  BY LenProperties
<1>2. s \in Surjection(1 .. Len(s), ToSet(s))
  BY <1>1 DEF Surjection, ToSet
<1> QED
  BY <1>1, <1>2, FS_NatSurjection DEF ExistsSurjection, ToSet

(* SetToSeqs() gives the ways to write down a set.                          *)
LEMMA SetToSeqsFacts ==
  ASSUME NEW S, IsFiniteSet(S), NEW t \in SetToSeqs(S)
  PROVE  t \in Seq(S) /\ ToSet(t) = S /\ Once(t)
<1>1. Cardinality(S) \in Nat
  BY FS_CardinalityType
<1>2. /\ t \in [1 .. Cardinality(S) -> S]
      /\ \A i, j \in 1 .. Cardinality(S) : i # j => t[i] # t[j]
  BY DEF SetToSeqs
<1>3. t \in Injection(1 .. Cardinality(S), S)
  BY <1>2 DEF Injection, IsInjective
<1>4. IsFiniteSet(1 .. Cardinality(S)) /\ Cardinality(1 .. Cardinality(S)) = Cardinality(S)
  BY <1>1, FS_Interval
<1>5. t \in Surjection(1 .. Cardinality(S), S)
  BY <1>3, <1>4, FS_Injection
<1>6. t \in Seq(S) /\ DOMAIN t = 1 .. Cardinality(S)
  BY <1>1, <1>2, SeqDef
<1> QED
  BY <1>2, <1>5, <1>6 DEF Surjection, ToSet, Once

(* Without() takes elements out and leaves the others in order.             *)
LEMMA WithoutFacts ==
  ASSUME NEW S, NEW s \in Seq(S), NEW gone, NEW t \in Without(s, gone)
  PROVE  /\ t \in Seq(S) /\ ToSet(t) = ToSet(s) \ gone /\ Once(t)
         /\ \A ent : Sorted(s, ent) => Sorted(t, ent)
<1>1. IsFiniteSet(ToSet(s)) /\ ToSet(s) \subseteq S
  BY ToSetFinite
<1>2. IsFiniteSet(ToSet(s) \ gone)
  BY <1>1, FS_Difference
<1>3. t \in SetToSeqs(ToSet(s) \ gone) /\ Within(t, s)
  BY DEF Without
<1>4. t \in Seq(ToSet(s) \ gone) /\ ToSet(t) = ToSet(s) \ gone /\ Once(t)
  BY <1>2, <1>3, SetToSeqsFacts
<1>5. ASSUME NEW ent, Sorted(s, ent) PROVE Sorted(t, ent)
  BY <1>3, <1>5 DEF Within, Sorted
<1> QED
  BY <1>1, <1>4, <1>5, SeqMonotonic

(* Where the elements of a list are after an insertion.                     *)
LEMMA InsertAtFacts ==
  ASSUME NEW S, NEW s \in Seq(S), NEW k \in 0 .. Len(s), NEW e \in S
  PROVE  /\ InsertAt(s, k + 1, e) \in Seq(S)
         /\ Len(InsertAt(s, k + 1, e)) = Len(s) + 1
         /\ \A i \in 1 .. Len(s) + 1 : InsertAt(s, k + 1, e)[i] =
              IF i <= k THEN s[i] ELSE IF i = k + 1 THEN e ELSE s[i - 1]
<1> DEFINE front == SubSeq(s, 1, k)
           back == SubSeq(s, k + 1, Len(s))
<1>1. Len(s) \in Nat /\ \A i \in 1 .. Len(s) : s[i] \in S
  BY ElementOfSeq
<1>2. /\ front \in Seq(S) /\ Len(front) = k
      /\ \A i \in 1 .. k : front[i] = s[i]
  BY <1>1, SubSeqProperties
<1>3. /\ back \in Seq(S) /\ Len(back) = Len(s) - k
      /\ \A i \in 1 .. Len(s) - k : back[i] = s[k + i]
  BY <1>1, SubSeqProperties
<1>4. /\ <<e>> \in Seq(S) /\ Len(<<e>>) = 1 /\ <<e>>[1] = e
  OBVIOUS
<1> HIDE DEF front, back
<1>5. /\ front \o <<e>> \in Seq(S) /\ Len(front \o <<e>>) = k + 1
      /\ \A i \in 1 .. k + 1 : (front \o <<e>>)[i] = IF i <= k THEN s[i] ELSE e
  BY <1>2, <1>4, ConcatProperties
<1> DEFINE left == front \o <<e>>
<1> HIDE DEF left
<1>6. /\ left \o back \in Seq(S)
      /\ Len(left \o back) = Len(left) + Len(back)
      /\ \A i \in 1 .. Len(left) + Len(back) : (left \o back)[i] =
           IF i <= Len(left) THEN left[i] ELSE back[i - Len(left)]
  BY <1>3, <1>5, ConcatProperties DEF left
<1>7. InsertAt(s, k + 1, e) = left \o back
  <2>1. (k + 1) - 1 = k
    OBVIOUS
  <2> QED
    BY <2>1, Zenon DEF InsertAt, left, front, back
<1>8. Len(left) = k + 1 /\ Len(left) + Len(back) = Len(s) + 1
  <2>1. Len(left) = k + 1
    BY <1>5, Zenon DEF left
  <2> QED
    BY <2>1, <1>1, <1>3
<1>9. \A i \in 1 .. k + 1 : left[i] = IF i <= k THEN s[i] ELSE e
  BY <1>5 DEF left
<1>10. \A i \in 1 .. Len(s) + 1 : ~(i <= k + 1) => back[i - (k + 1)] = s[i - 1]
  BY <1>1, <1>3
<1>11. \A i \in 1 .. Len(s) + 1 : (left \o back)[i] =
           IF i <= k THEN s[i] ELSE IF i = k + 1 THEN e ELSE s[i - 1]
  BY <1>1, <1>6, <1>8, <1>9, <1>10
<1> QED
  BY <1>6, <1>7, <1>8, <1>11

(* A list with one more element between those that are not greater and      *)
(* those that are not less is sorted.                                       *)
LEMMA InsertSorted ==
  ASSUME NEW S, NEW s \in Seq(S), NEW k \in 0 .. Len(s), NEW e \in S, NEW ent,
         Nexts(s, ent), ent[e].next \in Nat, Sorted(s, ent),
         \A i \in DOMAIN s : IF i <= k THEN ent[s[i]].next <= ent[e].next
                                       ELSE ent[e].next <= ent[s[i]].next
  PROVE  /\ Sorted(InsertAt(s, k + 1, e), ent)
         /\ \A x : x \in ToSet(InsertAt(s, k + 1, e)) <=> x \in ToSet(s) \/ x = e
         /\ Once(s) /\ e \notin ToSet(s) => Once(InsertAt(s, k + 1, e))
<1> DEFINE r == InsertAt(s, k + 1, e)
<1>1. /\ Len(s) \in Nat /\ DOMAIN s = 1 .. Len(s) /\ DOMAIN r = 1 .. Len(s) + 1
      /\ \A i \in 1 .. Len(s) + 1 :
           r[i] = IF i <= k THEN s[i] ELSE IF i = k + 1 THEN e ELSE s[i - 1]
  BY InsertAtFacts, LenProperties
<1> HIDE DEF r
<1>2. Sorted(r, ent)
  <2> SUFFICES ASSUME NEW i \in DOMAIN r, NEW j \in DOMAIN r, i < j
               PROVE  ent[r[i]].next <= ent[r[j]].next
    BY DEF Sorted
  <2>1. CASE j <= k
    BY <1>1, <2>1 DEF Sorted
  <2>2. CASE j = k + 1
    BY <1>1, <2>2
  <2>3. CASE j > k + 1 /\ i <= k
    BY <1>1, <2>3 DEF Sorted
  <2>4. CASE j > k + 1 /\ i = k + 1
    BY <1>1, <2>4
  <2>5. CASE j > k + 1 /\ i > k + 1
    BY <1>1, <2>5 DEF Sorted
  <2> QED
    BY <1>1, <2>1, <2>2, <2>3, <2>4, <2>5
<1>3. ToSet(r) = ToSet(s) \cup {e}
  <2>1. ToSet(r) \subseteq ToSet(s) \cup {e}
    <3>1. \A i \in DOMAIN r : r[i] = e \/ \E j \in DOMAIN s : r[i] = s[j]
      BY <1>1
    <3> QED
      BY <3>1 DEF ToSet
  <2>2. \A i \in DOMAIN s : \E j \in DOMAIN r : r[j] = s[i]
    <3> TAKE i \in DOMAIN s
    <3>1. CASE i <= k
      BY <1>1, <3>1
    <3>2. CASE ~(i <= k)
      <4>1. i + 1 \in DOMAIN r /\ r[i + 1] = s[i]
        BY <1>1, <3>2
      <4> QED
        BY <4>1
    <3> QED
      BY <3>1, <3>2
  <2>3. k + 1 \in DOMAIN r /\ r[k + 1] = e
    BY <1>1
  <2> QED
    BY <2>1, <2>2, <2>3 DEF ToSet
<1>4. ASSUME Once(s), e \notin ToSet(s) PROVE Once(r)
  <2>1. \A i \in 1 .. Len(s) : s[i] # e
    BY <1>1, <1>4 DEF ToSet
  <2>2. \A i, j \in 1 .. Len(s) : s[i] = s[j] => i = j
    BY <1>1, <1>4 DEF Once
  <2> SUFFICES ASSUME NEW i \in DOMAIN r, NEW j \in DOMAIN r, i < j
               PROVE  r[i] # r[j]
    BY <1>1 DEF Once
  <2>3. CASE j <= k
    BY <1>1, <2>2, <2>3
  <2>4. CASE j = k + 1 \/ i = k + 1
    BY <1>1, <2>1, <2>4
  <2>5. CASE j > k + 1 /\ i # k + 1
    BY <1>1, <2>2, <2>5
  <2> QED
    BY <1>1, <2>3, <2>4, <2>5
<1> QED
  BY <1>2, <1>3, <1>4 DEF r

(* What a part of a list keeps of it.                                       *)
LEMMA SubSeqFacts ==
  ASSUME NEW S, NEW s \in Seq(S), NEW m \in Nat \ {0}, NEW n \in Nat, n <= Len(s), m <= n + 1
  PROVE  /\ SubSeq(s, m, n) \in Seq(S)
         /\ DOMAIN SubSeq(s, m, n) = 1 .. n - m + 1 /\ Len(SubSeq(s, m, n)) = n - m + 1
         /\ \A i \in 1 .. n - m + 1 : SubSeq(s, m, n)[i] = s[m + i - 1]
         /\ ToSet(SubSeq(s, m, n)) = {s[i] : i \in m .. n}
         /\ Once(s) => Once(SubSeq(s, m, n))
         /\ \A ent : Sorted(s, ent) => Sorted(SubSeq(s, m, n), ent)
<1> DEFINE r == SubSeq(s, m, n)
<1>1. Len(s) \in Nat /\ DOMAIN s = 1 .. Len(s) /\ \A i \in m .. n : s[i] \in S
  BY LenProperties, ElementOfSeq
<1>2. /\ r \in Seq(S) /\ Len(r) = IF m <= n THEN n - m + 1 ELSE 0
      /\ \A i \in 1 .. n - m + 1 : r[i] = s[m + i - 1]
  BY <1>1, SubSeqProperties
<1> HIDE DEF r
<1>3. Len(r) = n - m + 1 /\ DOMAIN r = 1 .. n - m + 1
  BY <1>2, LenProperties
<1>4. ToSet(r) = {s[i] : i \in m .. n}
  <2>1. ASSUME NEW i \in m .. n PROVE s[i] \in ToSet(r)
    <3>1. i - m + 1 \in 1 .. n - m + 1 /\ m + (i - m + 1) - 1 = i
      OBVIOUS
    <3>2. r[i - m + 1] = s[m + (i - m + 1) - 1]
      BY <3>1, <1>2
    <3> QED
      BY <3>1, <3>2, <1>3 DEF ToSet
  <2>2. ASSUME NEW j \in DOMAIN r PROVE m + j - 1 \in m .. n /\ r[j] = s[m + j - 1]
    BY <1>2, <1>3
  <2> QED
    BY <2>1, <2>2 DEF ToSet
<1>5. Once(s) => Once(r)
  <2>1. ASSUME Once(s), NEW i \in DOMAIN r, NEW j \in DOMAIN r, r[i] = r[j] PROVE i = j
    <3>1. r[i] = s[m + i - 1] /\ r[j] = s[m + j - 1]
      BY <1>2, <1>3
    <3>2. m + i - 1 \in DOMAIN s /\ m + j - 1 \in DOMAIN s
      BY <1>1, <1>3
    <3>3. m + i - 1 = m + j - 1
      BY <2>1, <3>1, <3>2 DEF Once
    <3> QED
      BY <3>3, <1>3
  <2> QED
    BY <2>1 DEF Once
<1>6. ASSUME NEW ent, Sorted(s, ent) PROVE Sorted(r, ent)
  <2> SUFFICES ASSUME NEW i \in DOMAIN r, NEW j \in DOMAIN r, i < j
               PROVE  ent[r[i]].next <= ent[r[j]].next
    BY DEF Sorted
  <2>1. m + i - 1 \in DOMAIN s /\ m + j - 1 \in DOMAIN s /\ m + i - 1 < m + j - 1
    BY <1>1, <1>3
  <2>2. ent[s[m + i - 1]].next <= ent[s[m + j - 1]].next
    BY <2>1, <1>6 DEF Sorted
  <2> QED
    BY <2>2, <1>2, <1>3
<1> QED
  BY <1>2, <1>3, <1>4, <1>5, <1>6 DEF r

LEMMA PrefixFacts ==
  ASSUME NEW S, NEW s \in Seq(S), NEW n \in 0 .. Len(s)
  PROVE  /\ SubSeq(s, 1, n) \in Seq(S)
         /\ DOMAIN SubSeq(s, 1, n) = 1 .. n /\ Len(SubSeq(s, 1, n)) = n
         /\ \A i \in 1 .. n : SubSeq(s, 1, n)[i] = s[i]
         /\ ToSet(SubSeq(s, 1, n)) = {s[i] : i \in 1 .. n}
         /\ Once(s) => Once(SubSeq(s, 1, n))
         /\ \A ent : Sorted(s, ent) => Sorted(SubSeq(s, 1, n), ent)
<1> DEFINE m == 1
           r == SubSeq(s, m, n)
<1>1. m \in Nat \ {0} /\ n \in Nat /\ n <= Len(s) /\ m <= n + 1 /\ n - m + 1 = n
  OBVIOUS
<1>2. \A i \in 1 .. n : m + i - 1 = i
  OBVIOUS
<1> HIDE DEF m
<1>3. /\ r \in Seq(S) /\ DOMAIN r = 1 .. n - m + 1 /\ Len(r) = n - m + 1
      /\ \A i \in 1 .. n - m + 1 : r[i] = s[m + i - 1]
      /\ ToSet(r) = {s[i] : i \in m .. n}
      /\ Once(s) => Once(r)
      /\ \A ent : Sorted(s, ent) => Sorted(r, ent)
  BY <1>1, SubSeqFacts
<1> HIDE DEF r
<1>4. /\ r \in Seq(S) /\ DOMAIN r = 1 .. n /\ Len(r) = n
      /\ \A i \in 1 .. n : r[i] = s[i]
  BY <1>1, <1>2, <1>3
<1> QED
  BY <1>3, <1>4 DEF m, r

LEMMA SuffixFacts ==
  ASSUME NEW S, NEW s \in Seq(S), NEW n \in 0 .. Len(s)
  PROVE  /\ SubSeq(s, n + 1, Len(s)) \in Seq(S)
         /\ DOMAIN SubSeq(s, n + 1, Len(s)) = 1 .. Len(s) - n
         /\ Len(SubSeq(s, n + 1, Len(s))) = Len(s) - n
         /\ \A i \in 1 .. Len(s) - n : SubSeq(s, n + 1, Len(s))[i] = s[n + i]
         /\ ToSet(SubSeq(s, n + 1, Len(s))) = {s[i] : i \in n + 1 .. Len(s)}
         /\ Once(s) => Once(SubSeq(s, n + 1, Len(s)))
         /\ \A ent : Sorted(s, ent) => Sorted(SubSeq(s, n + 1, Len(s)), ent)
<1> DEFINE m == n + 1
           l == Len(s)
           r == SubSeq(s, m, l)
<1>1. m \in Nat \ {0} /\ l \in Nat /\ l <= Len(s) /\ m <= l + 1 /\ l - m + 1 = l - n
  OBVIOUS
<1>2. \A i \in 1 .. l - n : m + i - 1 = n + i
  OBVIOUS
<1> HIDE DEF m, l
<1>3. /\ r \in Seq(S) /\ DOMAIN r = 1 .. l - m + 1 /\ Len(r) = l - m + 1
      /\ \A i \in 1 .. l - m + 1 : r[i] = s[m + i - 1]
      /\ ToSet(r) = {s[i] : i \in m .. l}
      /\ Once(s) => Once(r)
      /\ \A ent : Sorted(s, ent) => Sorted(r, ent)
  BY <1>1, SubSeqFacts
<1> HIDE DEF r
<1>4. /\ r \in Seq(S) /\ DOMAIN r = 1 .. l - n /\ Len(r) = l - n
      /\ \A i \in 1 .. l - n : r[i] = s[n + i]
  BY <1>1, <1>2, <1>3
<1> QED
  BY <1>3, <1>4 DEF m, l, r

(* Two lists one behind the other.                                          *)
LEMMA ConcatFacts ==
  ASSUME NEW S, NEW a \in Seq(S), NEW b \in Seq(S)
  PROVE  /\ a \o b \in Seq(S)
         /\ \A x : x \in ToSet(a \o b) <=> x \in ToSet(a) \/ x \in ToSet(b)
         /\ Once(a) /\ Once(b) /\ (\A x \in ToSet(a) : x \notin ToSet(b)) => Once(a \o b)
         /\ \A ent : /\ Sorted(a, ent) /\ Sorted(b, ent)
                     /\ \A x \in ToSet(a), y \in ToSet(b) : ent[x].next <= ent[y].next
                     => Sorted(a \o b, ent)
<1> DEFINE r == a \o b
<1>1. /\ Len(a) \in Nat /\ DOMAIN a = 1 .. Len(a)
      /\ Len(b) \in Nat /\ DOMAIN b = 1 .. Len(b)
  BY LenProperties
<1>2. /\ r \in Seq(S) /\ Len(r) = Len(a) + Len(b)
      /\ \A i \in 1 .. Len(a) + Len(b) : r[i] = IF i <= Len(a) THEN a[i] ELSE b[i - Len(a)]
  BY ConcatProperties
<1> HIDE DEF r
<1>3. DOMAIN r = 1 .. Len(a) + Len(b)
  BY <1>2, LenProperties
<1>4. ToSet(r) = ToSet(a) \cup ToSet(b)
  <2>1. ASSUME NEW i \in DOMAIN a PROVE i \in DOMAIN r /\ r[i] = a[i]
    BY <1>1, <1>2, <1>3
  <2>2. ASSUME NEW i \in DOMAIN b PROVE Len(a) + i \in DOMAIN r /\ r[Len(a) + i] = b[i]
    <3>1. Len(a) + i \in 1 .. Len(a) + Len(b) /\ ~(Len(a) + i <= Len(a)) /\ (Len(a) + i) - Len(a) = i
      BY <1>1
    <3>2. r[Len(a) + i] = b[(Len(a) + i) - Len(a)]
      BY <3>1, <1>2
    <3> QED
      BY <3>1, <3>2, <1>3
  <2>3. ASSUME NEW i \in DOMAIN r
        PROVE  r[i] \in ToSet(a) \cup ToSet(b)
    <3>1. CASE i <= Len(a)
      BY <1>1, <1>2, <1>3, <3>1 DEF ToSet
    <3>2. CASE ~(i <= Len(a))
      <4>1. i - Len(a) \in DOMAIN b /\ r[i] = b[i - Len(a)]
        BY <1>1, <1>2, <1>3, <3>2
      <4> QED
        BY <4>1 DEF ToSet
    <3> QED
      BY <3>1, <3>2
  <2> QED
    BY <2>1, <2>2, <2>3 DEF ToSet
<1>5. ASSUME Once(a), Once(b), ToSet(a) \cap ToSet(b) = {} PROVE Once(r)
  <2> SUFFICES ASSUME NEW i \in DOMAIN r, NEW j \in DOMAIN r, i < j
               PROVE  r[i] # r[j]
    BY <1>3 DEF Once
  <2>1. CASE j <= Len(a)
    BY <1>1, <1>2, <1>3, <1>5, <2>1 DEF Once
  <2>2. CASE i <= Len(a) /\ j > Len(a)
    <3>1. a[i] \in ToSet(a) /\ b[j - Len(a)] \in ToSet(b)
      BY <1>1, <1>3, <2>2 DEF ToSet
    <3> QED
      BY <3>1, <1>1, <1>2, <1>3, <1>5, <2>2
  <2>3. CASE i > Len(a)
    <3>1. i - Len(a) \in DOMAIN b /\ j - Len(a) \in DOMAIN b /\ i - Len(a) # j - Len(a)
      BY <1>1, <1>3, <2>3
    <3> QED
      BY <3>1, <1>1, <1>2, <1>3, <1>5, <2>3, SMTT(30) DEF Once
  <2> QED
    BY <1>1, <1>3, <2>1, <2>2, <2>3
<1>6. ASSUME NEW ent, Sorted(a, ent), Sorted(b, ent),
             \A x \in ToSet(a), y \in ToSet(b) : ent[x].next <= ent[y].next
      PROVE  Sorted(r, ent)
  <2> SUFFICES ASSUME NEW i \in DOMAIN r, NEW j \in DOMAIN r, i < j
               PROVE  ent[r[i]].next <= ent[r[j]].next
    BY DEF Sorted
  <2>1. CASE j <= Len(a)
    BY <1>1, <1>2, <1>3, <1>6, <2>1 DEF Sorted
  <2>2. CASE i <= Len(a) /\ j > Len(a)
    <3>1. a[i] \in ToSet(a) /\ b[j - Len(a)] \in ToSet(b)
      BY <1>1, <1>3, <2>2 DEF ToSet
    <3> QED
      BY <3>1, <1>1, <1>2, <1>3, <1>6, <2>2
  <2>3. CASE i > Len(a)
    <3>1. i - Len(a) \in DOMAIN b /\ j - Len(a) \in DOMAIN b /\ i - Len(a) < j - Len(a)
      BY <1>1, <1>3, <2>3
    <3>2. r[i] = b[i - Len(a)] /\ r[j] = b[j - Len(a)]
      BY <1>1, <1>2, <1>3, <2>3
    <3> QED
      BY <3>1, <3>2, <1>6 DEF Sorted
  <2> QED
    BY <1>1, <1>3, <2>1, <2>2, <2>3
<1> QED
  BY <1>2, <1>4, <1>5, <1>6 DEF r

-------------------------------------------------------------------------------
(* The inductive invariant                                                 *)

UniqueInv ==
  /\ Once(timers)
  /\ \A c, d \in Live : Timer(c) = Timer(d) => c = d

Requested(c) == \E r \in requests : r.timer = Timer(c)

\* While processTimers() is under way the requests of the timers it has
\* still to serve are those of its beginning, unless a callback has changed
\* them; a one-shot timer that has fired stays in the list, marked dead.
RequestInv ==
  /\ \A r \in requests : \E c \in Live : r.timer = Timer(c)
  /\ \A q, r \in requests : q.timer = r.timer => q = r
  /\ \A c \in Live : c \in ToSet(process) \/ entry[c].next # Never => Requested(c)
  /\ \A c \in Live \ ToSet(process), r \in requests :
       r.timer = Timer(c) => r.due = entry[c].next /\ entry[c].next # Never
  /\ \A c \in ToSet(process) \ touched, r \in requests :
       c \in Live /\ r.timer = Timer(c) => r.due <= time

ProcessInv ==
  /\ Once(process)
  /\ pc = "idle" => process = << >> /\ \A c \in Live : entry[c].next # Never

ListInv == Sorted(timers, entry) /\ UniqueInv /\ RequestInv /\ ProcessInv

IInv == TypeOK /\ ListInv

(* What the types say of the timers in the list.                            *)
LEMMA LiveFacts ==
  ASSUME TypeOK
  PROVE  /\ Len(timers) \in Nat /\ DOMAIN timers = 1 .. Len(timers)
         /\ \A i \in DOMAIN timers : timers[i] \in Live
         /\ DOMAIN entry = Live /\ Live \subseteq Cells /\ Nexts(timers, entry)
         /\ \A c \in Live : /\ entry[c] \in TimerEntry
                            /\ entry[c].el \in Listeners /\ entry[c].sid \in SIDs
                            /\ entry[c].delay \in Delays /\ entry[c].repeat \in BOOLEAN
                            /\ entry[c].next \in Nat /\ entry[c].next <= Never
         /\ time \in Nat /\ time <= MaxTime /\ MaxTime \in Nat /\ Never \in Nat
         /\ \A d \in Delays : d \in Nat /\ time + d < Never /\ time + 1 < Never
<1>1. Len(timers) \in Nat /\ DOMAIN timers = 1 .. Len(timers)
  BY LenProperties DEF TypeOK
<1>2. Live \subseteq Cells /\ \A i \in DOMAIN timers : timers[i] \in Live
  BY ToSetFinite DEF TypeOK, Live, ToSet
<1>3. /\ time \in Nat /\ time <= MaxTime /\ MaxTime \in Nat /\ Never \in Nat
      /\ \A d \in Delays : d \in Nat /\ MaxTime + 1 + d < Never
  BY Times DEF TypeOK
<1>4. \A d \in Delays : d \in Nat /\ time + d < Never /\ time + 1 < Never
  BY <1>3
<1>5. DOMAIN entry = Live /\ \A c \in Live : entry[c] \in TimerEntry
  BY DEF TypeOK
<1>6. \A c \in Live : /\ entry[c].el \in Listeners /\ entry[c].sid \in SIDs
                      /\ entry[c].delay \in Delays /\ entry[c].repeat \in BOOLEAN
                      /\ entry[c].next \in Nat /\ entry[c].next <= Never
  BY <1>3, <1>5 DEF TimerEntry
<1>7. Nexts(timers, entry)
  BY <1>2, <1>6 DEF Nexts
<1> QED
  BY <1>1, <1>2, <1>3, <1>4, <1>5, <1>6, <1>7

(* addTimer() looks its timer up by listener and source ID.                 *)
LEMMA FindFacts ==
  ASSUME TypeOK, NEW el, NEW sid
  PROVE  \/ Find(el, sid) = 0 /\ (\A c \in Live : Timer(c) # <<el, sid>>)
         \/ Find(el, sid) \in DOMAIN timers /\ Timer(timers[Find(el, sid)]) = <<el, sid>>
<1> DEFINE I == {i \in 1 .. Len(timers) : Timer(timers[i]) = <<el, sid>>}
<1>1. Find(el, sid) = IF I # {} THEN Min(I) ELSE 0
  BY DEF Find, SelectInSeq
<1>2. I # {} => Min(I) \in I
  <2>1. I \in SUBSET Nat
    OBVIOUS
  <2>2. I # {} => \E x \in I : \A y \in I : x <= y
    BY <2>1, LeastNat
  <2> QED
    BY <2>2 DEF Min
<1>3. I = {} => \A c \in Live : Timer(c) # <<el, sid>>
  BY LiveFacts DEF Live, ToSet
<1>4. I \subseteq DOMAIN timers /\ \A i \in I : Timer(timers[i]) = <<el, sid>>
  BY LiveFacts
<1> QED
  BY <1>1, <1>2, <1>3, <1>4

(* Put back into the ordering after its time has changed, a timer is where  *)
(* it belongs.                                                              *)
LEMMA RepositionFacts ==
  ASSUME TypeOK, Once(timers), Sorted(timers, entry), NEW i \in DOMAIN timers,
         NEW ent, ent[timers[i]].next \in Nat,
         \A c \in Live \ {timers[i]} : ent[c].next = entry[c].next
  PROVE  /\ Reposition(i, ent) \in Seq(Cells) /\ ToSet(Reposition(i, ent)) = Live
         /\ Once(Reposition(i, ent)) /\ Sorted(Reposition(i, ent), ent)
<1> DEFINE c == timers[i]
           before == SubSeq(timers, 1, i - 1)
           after == SubSeq(timers, i + 1, Len(timers))
           up == upper_bound(before, ent, ent[c].next)
           low == lower_bound(after, ent, ent[c].next)
<1>1. /\ Len(timers) \in Nat /\ DOMAIN timers = 1 .. Len(timers) /\ timers \in Seq(Cells)
      /\ \A j \in DOMAIN timers : timers[j] \in Live /\ entry[timers[j]].next \in Nat
      /\ c \in Live /\ c \in Cells
  BY LiveFacts DEF TypeOK
<1>2. \A j \in DOMAIN timers : j # i => timers[j] # c /\ ent[timers[j]].next = entry[timers[j]].next
  BY <1>1 DEF Once
<1>3. /\ before \in Seq(Cells) /\ Once(before) /\ ToSet(before) = {timers[j] : j \in 1 .. i - 1}
      /\ DOMAIN before = 1 .. i - 1 /\ Len(before) = i - 1 /\ \A j \in 1 .. i - 1 : before[j] = timers[j]
      /\ Sorted(before, entry)
  <2> DEFINE n == i - 1
  <2>1. n \in 0 .. Len(timers)
    BY <1>1
  <2> HIDE DEF n
  <2>2. /\ SubSeq(timers, 1, n) \in Seq(Cells)
        /\ DOMAIN SubSeq(timers, 1, n) = 1 .. n /\ Len(SubSeq(timers, 1, n)) = n
        /\ \A j \in 1 .. n : SubSeq(timers, 1, n)[j] = timers[j]
        /\ ToSet(SubSeq(timers, 1, n)) = {timers[j] : j \in 1 .. n}
        /\ Once(timers) => Once(SubSeq(timers, 1, n))
        /\ \A times : Sorted(timers, times) => Sorted(SubSeq(timers, 1, n), times)
    BY <1>1, <2>1, PrefixFacts, Zenon
  <2>3. Once(SubSeq(timers, 1, n)) /\ Sorted(SubSeq(timers, 1, n), entry)
    BY <2>2
  <2> QED
    BY <2>2, <2>3 DEF n
<1>4. /\ after \in Seq(Cells) /\ Once(after) /\ ToSet(after) = {timers[j] : j \in i + 1 .. Len(timers)}
      /\ DOMAIN after = 1 .. Len(timers) - i /\ Len(after) = Len(timers) - i
      /\ \A j \in 1 .. Len(timers) - i : after[j] = timers[i + j]
      /\ Sorted(after, entry)
  <2>1. i \in 0 .. Len(timers)
    BY <1>1
  <2> QED
    BY <1>1, <2>1, SuffixFacts, ZenonT(60)
<1> HIDE DEF before, after, c
<1>5. Sorted(before, ent) /\ Nexts(before, ent) /\ c \notin ToSet(before)
  <2>1. \A j \in DOMAIN before : /\ j \in DOMAIN timers /\ j # i /\ before[j] = timers[j]
                                 /\ ent[before[j]].next = entry[before[j]].next
                                 /\ ent[before[j]].next \in Nat /\ before[j] # c
    BY <1>1, <1>2, <1>3
  <2> QED
    BY <2>1, <1>3 DEF Sorted, Nexts, ToSet
<1>6. Sorted(after, ent) /\ Nexts(after, ent) /\ c \notin ToSet(after)
  <2>1. \A j \in DOMAIN after : /\ i + j \in DOMAIN timers /\ i + j # i /\ after[j] = timers[i + j]
                                /\ ent[after[j]].next = entry[after[j]].next
                                /\ ent[after[j]].next \in Nat /\ after[j] # c
    BY <1>1, <1>2, <1>4
  <2> QED
    BY <2>1, <1>4 DEF Sorted, Nexts, ToSet
<1>7. ToSet(before) \cup {c} \cup ToSet(after) = Live /\ ToSet(before) \cap ToSet(after) = {}
  <2>1. ToSet(before) \cap ToSet(after) = {}
    <3> SUFFICES ASSUME NEW x \in ToSet(before), x \in ToSet(after) PROVE FALSE
      OBVIOUS
    <3>1. PICK j \in 1 .. i - 1 : x = timers[j]
      BY <1>3
    <3>2. PICK k \in i + 1 .. Len(timers) : x = timers[k]
      BY <1>4
    <3>3. j \in DOMAIN timers /\ k \in DOMAIN timers /\ j # k
      BY <1>1
    <3> QED
      BY <3>1, <3>2, <3>3 DEF Once
  <2>2. \A j \in DOMAIN timers : j \in 1 .. i - 1 \/ j = i \/ j \in i + 1 .. Len(timers)
    BY <1>1
  <2>3. \A j \in DOMAIN timers : timers[j] \in ToSet(before) \cup {c} \cup ToSet(after)
    BY <2>2, <1>3, <1>4 DEF c
  <2>4. \A j \in 1 .. i - 1 : j \in DOMAIN timers
    BY <1>1
  <2>5. \A j \in i + 1 .. Len(timers) : j \in DOMAIN timers
    BY <1>1
  <2>6. ToSet(before) \cup {c} \cup ToSet(after) \subseteq Live
    BY <1>1, <1>3, <1>4, <2>4, <2>5
  <2>7. Live \subseteq ToSet(before) \cup {c} \cup ToSet(after)
    BY <2>3 DEF Live, ToSet
  <2> QED
    BY <2>1, <2>6, <2>7
<1>8. \A x \in ToSet(before), y \in ToSet(after) : ent[x].next <= ent[y].next
  <2>1. \A j \in 1 .. i - 1, k \in i + 1 .. Len(timers) :
          /\ j \in DOMAIN timers /\ k \in DOMAIN timers /\ j < k /\ j # i /\ k # i
    BY <1>1
  <2>2. \A j \in 1 .. i - 1, k \in i + 1 .. Len(timers) : ent[timers[j]].next <= ent[timers[k]].next
    BY <2>1, <1>2 DEF Sorted
  <2> QED
    BY <2>2, <1>3, <1>4
<1>9. ent[c].next \in Nat
  BY DEF c
<1>10. CASE i > 1 /\ ent[c].next < ent[timers[i - 1]].next
  <2> DEFINE r == InsertAt(before, up + 1, c)
  <2>1. Reposition(i, ent) = r \o after
    BY <1>10, Zenon DEF Reposition, before, after, c
  <2>2. up \in 0 .. Len(before) /\ \A j \in DOMAIN before : j <= up <=> ent[before[j]].next <= ent[c].next
    BY <1>3, <1>5, <1>9, UpperBound
  <2> HIDE DEF up
  <2>3. \A j \in DOMAIN before : IF j <= up THEN ent[before[j]].next <= ent[c].next
                                            ELSE ent[c].next <= ent[before[j]].next
    BY <2>2, <1>5, <1>9 DEF Nexts
  <2>4. Sorted(r, ent) /\ ToSet(r) = ToSet(before) \cup {c} /\ Once(r)
    <3>1. before \in Seq(Cells) /\ up \in 0 .. Len(before) /\ c \in Cells
      BY <1>1, <1>3, <2>2
    <3>2. Nexts(before, ent) /\ ent[c].next \in Nat /\ Sorted(before, ent)
      BY <1>5, <1>9
    <3>3. Sorted(r, ent) 
      BY <3>1, <3>2, <2>3, InsertSorted
    <3>4. \A x : x \in ToSet(r) <=> x \in ToSet(before) \/ x = c
      BY <3>1, <3>2, <2>3, InsertSorted
    <3>5. Once(before) /\ c \notin ToSet(before)
      BY <1>3, <1>5
    <3>6. Once(before) /\ c \notin ToSet(before) => Once(r)
      BY <3>1, <3>2, <2>3, InsertSorted
    <3> QED
      BY <3>3, <3>4, <3>5, <3>6
  <2>5. r \in Seq(Cells)
    BY <1>1, <1>3, <2>2, InsertAtFacts
  <2>6. \A y \in ToSet(after) : ent[c].next <= ent[y].next
    <3>1. i - 1 \in 1 .. i - 1 /\ i - 1 \in DOMAIN timers /\ i - 1 # i
      BY <1>1, <1>10
    <3>2. timers[i - 1] \in ToSet(before)
      BY <3>1, <1>3
    <3>3. \A y \in ToSet(after) : ent[y].next \in Nat
      BY <1>6 DEF Nexts, ToSet
    <3>4. ent[timers[i - 1]].next \in Nat
      BY <3>1, <1>1, <1>2
    <3> QED
      BY <3>2, <3>3, <3>4, <1>8, <1>9, <1>10
  <2> HIDE DEF r
  <2>7. \A x \in ToSet(r), y \in ToSet(after) : ent[x].next <= ent[y].next
    BY <2>4, <2>6, <1>8
  <2>8. ToSet(r) \cap ToSet(after) = {}
    BY <2>4, <1>6, <1>7
  <2>9. r \o after \in Seq(Cells) /\ \A x : x \in ToSet(r \o after) <=> x \in ToSet(r) \/ x \in ToSet(after)
    BY <2>5, <1>4, ConcatFacts
  <2>10. ToSet(r \o after) = Live
    BY <2>9, <2>4, <1>7
  <2>11. Once(r \o after)
    BY <2>5, <1>4, <2>4, <1>6, <2>8, ConcatFacts
  <2>12. Sorted(r \o after, ent)
    BY <2>5, <1>4, <2>4, <1>6, <2>7, ConcatFacts
  <2> QED
    BY <2>1, <2>9, <2>10, <2>11, <2>12
<1>11. CASE /\ ~(i > 1 /\ ent[c].next < ent[timers[i - 1]].next)
            /\ i < Len(timers) /\ ent[c].next > ent[timers[i + 1]].next
  <2> DEFINE r == InsertAt(after, low + 1, c)
  <2>1. Reposition(i, ent) = before \o r
    BY <1>11, Zenon DEF Reposition, before, after, c
  <2>2. low \in 0 .. Len(after) /\ \A j \in DOMAIN after : j <= low <=> ent[after[j]].next < ent[c].next
    BY <1>4, <1>6, <1>9, LowerBound
  <2> HIDE DEF low
  <2>3. \A j \in DOMAIN after : IF j <= low THEN ent[after[j]].next <= ent[c].next
                                            ELSE ent[c].next <= ent[after[j]].next
    BY <2>2, <1>6, <1>9 DEF Nexts
  <2>4. Sorted(r, ent) /\ ToSet(r) = ToSet(after) \cup {c} /\ Once(r)
    <3>1. after \in Seq(Cells) /\ low \in 0 .. Len(after) /\ c \in Cells
      BY <1>1, <1>4, <2>2
    <3>2. Nexts(after, ent) /\ ent[c].next \in Nat /\ Sorted(after, ent)
      BY <1>6, <1>9
    <3>3. Sorted(r, ent)
      BY <3>1, <3>2, <2>3, InsertSorted
    <3>4. \A x : x \in ToSet(r) <=> x \in ToSet(after) \/ x = c
      BY <3>1, <3>2, <2>3, InsertSorted
    <3>5. Once(after) /\ c \notin ToSet(after)
      BY <1>4, <1>6
    <3>6. Once(after) /\ c \notin ToSet(after) => Once(r)
      BY <3>1, <3>2, <2>3, InsertSorted
    <3> QED
      BY <3>3, <3>4, <3>5, <3>6
  <2>5. r \in Seq(Cells)
    BY <1>1, <1>4, <2>2, InsertAtFacts
  <2>6. \A x \in ToSet(before) : ent[x].next <= ent[c].next
    <3>1. i + 1 \in i + 1 .. Len(timers) /\ i + 1 \in DOMAIN timers /\ i + 1 # i
      BY <1>1, <1>11
    <3>2. timers[i + 1] \in ToSet(after)
      BY <3>1, <1>4
    <3>3. \A x \in ToSet(before) : ent[x].next \in Nat
      BY <1>5 DEF Nexts, ToSet
    <3>4. ent[timers[i + 1]].next \in Nat
      BY <3>1, <1>1, <1>2
    <3> QED
      BY <3>2, <3>3, <3>4, <1>8, <1>9, <1>11
  <2> HIDE DEF r
  <2>7. \A x \in ToSet(before), y \in ToSet(r) : ent[x].next <= ent[y].next
    BY <2>4, <2>6, <1>8
  <2>8. ToSet(before) \cap ToSet(r) = {}
    BY <2>4, <1>5, <1>7
  <2>9. before \o r \in Seq(Cells) /\ \A x : x \in ToSet(before \o r) <=> x \in ToSet(before) \/ x \in ToSet(r)
    BY <1>3, <2>5, ConcatFacts
  <2>10. ToSet(before \o r) = Live
    BY <2>9, <2>4, <1>7
  <2>11. Once(before \o r)
    BY <1>3, <2>5, <1>5, <2>4, <2>8, ConcatFacts
  <2>12. Sorted(before \o r, ent)
    BY <1>3, <2>5, <1>5, <2>4, <2>7, ConcatFacts
  <2> QED
    BY <2>1, <2>9, <2>10, <2>11, <2>12
<1>12. CASE /\ ~(i > 1 /\ ent[c].next < ent[timers[i - 1]].next)
            /\ ~(i < Len(timers) /\ ent[c].next > ent[timers[i + 1]].next)
  <2>1. Reposition(i, ent) = timers
    BY <1>12, Zenon DEF Reposition, c
  <2>2. ASSUME NEW j \in DOMAIN timers, NEW k \in DOMAIN timers, j < k
        PROVE  ent[timers[j]].next <= ent[timers[k]].next
    <3>0. \A l \in DOMAIN timers : ent[timers[l]].next \in Nat
      BY <1>1, <1>2
    <3>1. CASE j # i /\ k # i
      BY <2>2, <3>1, <1>2 DEF Sorted
    <3>2. CASE k = i
      <4>1. i - 1 \in DOMAIN timers /\ i - 1 # i /\ j # i /\ i > 1 /\ (j = i - 1 \/ j < i - 1)
        BY <2>2, <3>2, <1>1
      <4>2. ent[timers[j]].next <= ent[timers[i - 1]].next
        BY <4>1, <3>0, <1>2 DEF Sorted
      <4>3. ent[timers[i - 1]].next <= ent[c].next
        BY <4>1, <1>12, <3>0, <1>9
      <4> QED
        BY <4>1, <4>2, <4>3, <3>0, <3>2, <1>9 DEF c
    <3>3. CASE j = i
      <4>1. i + 1 \in DOMAIN timers /\ i + 1 # i /\ k # i /\ i < Len(timers) /\ (k = i + 1 \/ i + 1 < k)
        BY <2>2, <3>3, <1>1
      <4>2. ent[timers[i + 1]].next <= ent[timers[k]].next
        BY <4>1, <3>0, <1>2 DEF Sorted
      <4>3. ent[c].next <= ent[timers[i + 1]].next
        BY <4>1, <1>12, <3>0, <1>9
      <4> QED
        BY <4>1, <4>2, <4>3, <3>0, <3>3, <1>9 DEF c
    <3> QED
      BY <3>1, <3>2, <3>3
  <2> QED
    BY <1>1, <2>1, <2>2 DEF Sorted, Live
<1> QED
  BY <1>10, <1>11, <1>12

-------------------------------------------------------------------------------
(* The steps of EventTimers                                                *)

LEMMA InitInv == Init => IInv
<1> SUFFICES ASSUME Init PROVE IInv
  OBVIOUS
<1>1. Live = {} /\ ToSet(process) = {}
  BY DEF Init, Live, ToSet
<1>2. entry \in [Live -> TimerEntry]
  <2>1. << >> \in [1 .. 0 -> TimerEntry]
    BY EmptySeq, LenProperties
  <2> QED
    BY <1>1, <2>1 DEF Init
<1>3. TypeOK
  <2>1. time \in 0 .. MaxTime /\ ncalls \in 0 .. MaxCalls
    BY Times DEF Init
  <2>2. timers \in Seq(Cells) /\ process \in Seq(Cells)
    BY EmptySeq DEF Init
  <2> QED
    BY <1>2, <2>1, <2>2 DEF Init, TypeOK
<1>4. ListInv
  BY <1>1 DEF Init, ListInv, Sorted, UniqueInv, Once, RequestInv, ProcessInv
<1> QED
  BY <1>3, <1>4 DEF IInv

(* A call of addTimer() or removeTimer() leaves touched cells in process.   *)
LEMMA TouchFacts ==
  ASSUME IInv, NEW cells \in SUBSET Cells, pc \in {"idle", "callback"}, Touch(cells)
  PROVE  /\ touched' \subseteq Cells
         /\ \A c \in ToSet(process) \ touched' : c \notin touched /\ c \notin cells
<1>1. CASE pc = "idle"
  BY <1>1 DEF Touch, IInv, ListInv, ProcessInv, ToSet
<1>2. CASE pc = "callback"
  BY <1>2 DEF Touch, IInv, TypeOK
<1> QED
  BY <1>1, <1>2

(* What addTimer() makes of the request for its timer, if the list is as    *)
(* before but for the cell c, which has the new time.                       *)
LEMMA AddStep ==
  ASSUME IInv, NEW el \in Listeners, NEW sid \in SIDs, NEW delay \in Delays, NEW repeat \in BOOLEAN,
         NEW c \in Cells, Touch({c}), Request(el, sid, delay),
         pc \in {"idle", "callback"}, UNCHANGED <<time, process, pc, wild>>,
         ncalls' \in 0 .. MaxCalls,
         Live' = Live \cup {c}, timers' \in Seq(Cells), Once(timers'), Sorted(timers', entry'),
         entry' = [d \in Live \cup {c} |-> IF d = c THEN New(el, sid, delay, repeat) ELSE entry[d]],
         \A d \in Live \ {c} : Timer(d) # <<el, sid>>,
         c \in Live => Timer(c) = <<el, sid>>
  PROVE  IInv'
<1> DEFINE req == [timer |-> <<el, sid>>, due |-> time + delay]
<1>1. /\ time \in Nat /\ time + delay \in Nat /\ time + delay < Never /\ Never \in Nat
      /\ Live \subseteq Cells /\ \A d \in Live : entry[d] \in TimerEntry
  BY LiveFacts DEF IInv
<1>2. New(el, sid, delay, repeat) \in TimerEntry
  BY <1>1 DEF New, TimerEntry
<1>3. /\ Timer(c)' = <<el, sid>> /\ entry'[c].next = time + delay
      /\ \A d \in Live \ {c} : Timer(d)' = Timer(d) /\ entry'[d].next = entry[d].next
  BY DEF Timer, New
<1>4. requests' = {r \in requests : r.timer # <<el, sid>>} \cup {req}
  BY DEF Request
<1>5. req.timer = <<el, sid>> /\ req.due = time + delay /\ req \in requests'
  BY <1>4
<1> HIDE DEF req
<1>6. \A r \in requests' : r = req \/ (r \in requests /\ r.timer # <<el, sid>>)
  BY <1>4
<1>7. \A r \in requests : r.timer # <<el, sid>> => r \in requests'
  BY <1>4
<1>8. TypeOK'
  <2>1. entry' \in [Live' -> TimerEntry]
    BY <1>1, <1>2
  <2>2. requests' \subseteq [timer : Listeners \X SIDs, due : 0 .. Never]
    BY <1>1, <1>4 DEF IInv, TypeOK, req
  <2>3. touched' \subseteq Cells
    BY TouchFacts
  <2> QED
    BY <2>1, <2>2, <2>3 DEF IInv, TypeOK
<1>9. UniqueInv'
  <2>1. \A d, e \in Live' : Timer(d)' = Timer(e)' => d = e
    BY <1>3 DEF IInv, ListInv, UniqueInv
  <2> QED
    BY <2>1 DEF UniqueInv
<1>10. \A d \in ToSet(process) \ touched' : d \notin touched /\ d # c
  BY TouchFacts
<1>11. RequestInv'
  <2> USE DEF IInv, ListInv, RequestInv
  <2>1. \A r \in requests' : \E d \in Live' : r.timer = Timer(d)'
    BY <1>3, <1>5, <1>6
  <2>2. \A q, r \in requests' : q.timer = r.timer => q = r
    BY <1>5, <1>6
  <2>3. \A d \in Live' : d \in ToSet(process) \/ entry'[d].next # Never => \E r \in requests' : r.timer = Timer(d)'
    <3>1. CASE \E d \in Live' : d # c
      BY <1>3, <1>5, <1>7 DEF Requested
    <3> QED
      BY <1>3, <1>5, <3>1
  <2>4. \A d \in Live' \ ToSet(process), r \in requests' :
           r.timer = Timer(d)' => r.due = entry'[d].next /\ entry'[d].next # Never
    BY <1>1, <1>3, <1>5, <1>6
  <2>5. \A d \in ToSet(process) \ touched', r \in requests' : d \in Live' /\ r.timer = Timer(d)' => r.due <= time
    BY <1>3, <1>5, <1>6, <1>10
  <2> QED
    BY <2>1, <2>2, <2>3, <2>4, <2>5, Zenon DEF RequestInv, Requested
<1>12. ProcessInv'
  <2>1. Once(process)'
    BY DEF IInv, ListInv, ProcessInv, Once
  <2>2. ASSUME pc' = "idle" PROVE process' = << >> /\ \A d \in Live' : entry'[d].next # Never
    BY <1>1, <1>3, <2>2 DEF IInv, ListInv, ProcessInv
  <2> QED
    BY <2>1, <2>2 DEF ProcessInv
<1> QED
  BY <1>8, <1>9, <1>11, <1>12 DEF IInv, ListInv, Sorted


LEMMA AddTimerStep ==
  ASSUME IInv, NEW el \in Listeners, NEW sid \in SIDs, NEW delay \in Delays, NEW repeat \in BOOLEAN,
         addTimer(el, sid, delay, repeat)
  PROVE  IInv'
<1>1. /\ pc \in {"idle", "callback"} /\ UNCHANGED <<time, process, pc, wild>>
      /\ ncalls' \in 0 .. MaxCalls /\ Request(el, sid, delay)
  BY Times DEF addTimer, InUserCode, IInv, TypeOK
<1>2. /\ TypeOK /\ Sorted(timers, entry) /\ Once(timers) /\ timers \in Seq(Cells)
      /\ \A c, d \in Live : Timer(c) = Timer(d) => c = d
  BY DEF IInv, ListInv, UniqueInv, TypeOK
<1>3. /\ time + delay \in Nat /\ DOMAIN entry = Live /\ Live \subseteq Cells
      /\ \A c \in Live : entry[c] \in TimerEntry /\ entry[c].next \in Nat
      /\ Nexts(timers, entry)
  BY <1>2, LiveFacts
<1>4. CASE Find(el, sid) # 0
  <2> DEFINE i == Find(el, sid)
             c == timers[i]
             ent == [entry EXCEPT ![c].delay = delay, ![c].repeat = repeat, ![c].next = time + delay]
  <2>1. i \in DOMAIN timers /\ Timer(c) = <<el, sid>> /\ c \in Live /\ c \in Cells
    BY <1>2, <1>3, <1>4, FindFacts, LiveFacts
  <2>2. entry' = ent /\ timers' = Reposition(i, ent) /\ Touch({c})
    BY <1>4 DEF addTimer, Reset
  <2>3. ent = [d \in Live \cup {c} |-> IF d = c THEN New(el, sid, delay, repeat) ELSE entry[d]]
    <3>1. entry[c] \in TimerEntry /\ entry[c].el = el /\ entry[c].sid = sid
      BY <1>3, <2>1 DEF Timer
    <3>2. [entry[c] EXCEPT !.delay = delay, !.repeat = repeat, !.next = time + delay] = New(el, sid, delay, repeat)
      <4> DEFINE fields == [x \in {"el", "sid", "delay", "next", "repeat"} |->
                              IF x = "delay" THEN delay ELSE IF x = "repeat" THEN repeat
                              ELSE IF x = "next" THEN time + delay ELSE entry[c][x]]
      <4>1. [entry[c] EXCEPT !.delay = delay, !.repeat = repeat, !.next = time + delay] = fields
        BY <3>1 DEF TimerEntry
      <4>2. New(el, sid, delay, repeat) = fields
        BY <3>1 DEF New
      <4> QED
        BY <4>1, <4>2
    <3> HIDE DEF i, c
    <3>3. ent = [d \in Live |-> IF d = c THEN [entry[c] EXCEPT !.delay = delay, !.repeat = repeat, !.next = time + delay] ELSE entry[d]]
      BY <1>2, <1>3, <2>1 DEF TypeOK
    <3> QED
      BY <2>1, <3>2, <3>3
  <2> HIDE DEF ent, i
  <2>4. /\ ent[c].next = time + delay
        /\ \A d \in Live \ {c} : ent[d].next = entry[d].next
    BY <2>3 DEF New
  <2>5. /\ timers' \in Seq(Cells) /\ ToSet(timers') = Live
        /\ Once(timers') /\ Sorted(timers', entry')
    BY <1>2, <1>3, <2>1, <2>2, <2>4, RepositionFacts
  <2>6. \A d \in Live \ {c} : Timer(d) # <<el, sid>>
    BY <1>2, <2>1
  <2>7. Live' = Live \cup {c}
    BY <2>1, <2>5 DEF Live
  <2> QED
    BY <1>1, <2>1, <2>2, <2>3, <2>5, <2>6, <2>7, AddStep
<1>5. CASE Find(el, sid) = 0
  <2>1. PICK c \in Cells \ Live :
          /\ entry' = [d \in Live \cup {c} |-> IF d = c THEN New(el, sid, delay, repeat) ELSE entry[d]]
          /\ timers' = InsertAt(timers, lower_bound(timers, entry', time + delay) + 1, c)
          /\ Touch({c})
    BY <1>5, Zenon DEF addTimer, Allocate
  <2>2. entry' = [d \in Live \cup {c} |-> IF d = c THEN New(el, sid, delay, repeat) ELSE entry[d]]
    BY <2>1
  <2>3. \A d \in Live : Timer(d) # <<el, sid>>
    BY <1>2, <1>5, FindFacts, LiveFacts
  <2>4. /\ entry'[c].next = time + delay
        /\ \A d \in Live : d # c /\ entry'[d] = entry[d]
    BY <2>1, <2>2 DEF New
  <2>5. /\ \A j \in DOMAIN timers : timers[j] \in Live
        /\ Sorted(timers, entry') /\ Nexts(timers, entry')
    BY <1>2, <1>3, <2>4, LiveFacts DEF Sorted, Nexts
  <2> DEFINE low == lower_bound(timers, entry', time + delay)
  <2>6. /\ low \in 0 .. Len(timers)
        /\ \A j \in DOMAIN timers : j <= low <=> entry'[timers[j]].next < time + delay
    BY <1>2, <1>3, <2>5, LowerBound
  <2>7. timers' = InsertAt(timers, low + 1, c)
    BY <2>1
  <2> HIDE DEF low
  <2>8. \A j \in DOMAIN timers : IF j <= low THEN entry'[timers[j]].next <= entry'[c].next
                                             ELSE entry'[c].next <= entry'[timers[j]].next
    BY <1>3, <2>4, <2>5, <2>6 DEF Nexts
  <2>9. timers' \in Seq(Cells)
    BY <1>2, <2>1, <2>6, <2>7, InsertAtFacts
  <2>10. entry'[c].next \in Nat /\ c \in Cells
    BY <1>3, <2>1, <2>4
  <2>11. /\ Sorted(timers', entry')
         /\ \A x : x \in ToSet(timers') <=> x \in ToSet(timers) \/ x = c
         /\ Once(timers) /\ c \notin ToSet(timers) => Once(timers')
    BY <1>2, <2>5, <2>6, <2>7, <2>8, <2>10, InsertSorted
  <2>12. Once(timers') /\ Live' = Live \cup {c}
    BY <1>2, <2>1, <2>11 DEF Live
  <2> QED
    BY <1>1, <2>1, <2>2, <2>3, <2>9, <2>10, <2>11, <2>12, AddStep
<1> QED
  BY <1>4, <1>5


(* Timers that are taken out go with their requests.                        *)
LEMMA RemoveTimerStep ==
  ASSUME IInv, NEW gone \in Removable, removeTimer(gone)
  PROVE  IInv'
<1>1. /\ pc \in {"idle", "callback"} /\ UNCHANGED <<time, process, pc, wild>>
      /\ ncalls' \in 0 .. MaxCalls /\ Delete(gone)
  BY Times DEF removeTimer, InUserCode, IInv, TypeOK
<1>2. /\ TypeOK /\ Sorted(timers, entry) /\ timers \in Seq(Cells)
      /\ \A c, d \in Live : Timer(c) = Timer(d) => c = d
  BY DEF IInv, ListInv, UniqueInv, TypeOK
<1>3. /\ Live \subseteq Cells /\ \A c \in Live : entry[c] \in TimerEntry
      /\ gone \subseteq Live
  BY <1>2, LiveFacts DEF Removable
<1>4. /\ timers' \in Without(timers, gone) /\ Touch(gone)
      /\ entry' = [c \in Live \ gone |-> entry[c]]
      /\ requests' = {r \in requests : r.timer \notin {Timer(c) : c \in gone}}
  BY <1>1 DEF Delete
<1>5. /\ timers' \in Seq(Cells) /\ Live' = Live \ gone /\ Once(timers') /\ Sorted(timers', entry)
  BY <1>2, <1>4, WithoutFacts DEF Live
<1>6. \A c \in Live' : c \in Live /\ entry'[c] = entry[c] /\ Timer(c)' = Timer(c)
  BY <1>4, <1>5 DEF Timer
<1>7. \A r \in requests' : r \in requests /\ \A c \in gone : r.timer # Timer(c)
  BY <1>4
<1>8. \A r \in requests : (\A c \in gone : r.timer # Timer(c)) => r \in requests'
  BY <1>4
<1>9. touched' \subseteq Cells /\ \A c \in ToSet(process) \ touched' : c \notin touched
  BY <1>1, <1>3, <1>4, TouchFacts
<1>10. TypeOK'
  <2>1. entry' \in [Live' -> TimerEntry]
    BY <1>3, <1>4, <1>5
  <2> QED
    BY <1>1, <1>2, <1>4, <1>5, <1>9, <2>1 DEF TypeOK
<1>11. Sorted(timers', entry')
  <2>1. \A i \in DOMAIN timers' : timers'[i] \in Live'
    BY DEF Live, ToSet
  <2> QED
    BY <1>5, <1>6, <2>1 DEF Sorted
<1>12. UniqueInv'
  BY <1>2, <1>5, <1>6 DEF UniqueInv
<1>13. RequestInv'
  <2> USE DEF IInv, ListInv, RequestInv
  <2>1. \A r \in requests' : \E d \in Live' : r.timer = Timer(d)'
    BY <1>5, <1>6, <1>7
  <2>2. \A q, r \in requests' : q.timer = r.timer => q = r
    BY <1>7
  <2>3. \A d \in Live' : d \in ToSet(process) \/ entry'[d].next # Never => \E r \in requests' : r.timer = Timer(d)'
    BY <1>2, <1>3, <1>5, <1>6, <1>8 DEF Requested
  <2>4. \A d \in Live' \ ToSet(process), r \in requests' :
           r.timer = Timer(d)' => r.due = entry'[d].next /\ entry'[d].next # Never
    BY <1>6, <1>7
  <2>5. \A d \in ToSet(process) \ touched', r \in requests' : d \in Live' /\ r.timer = Timer(d)' => r.due <= time
    BY <1>6, <1>7, <1>9
  <2> QED
    BY <1>1, <2>1, <2>2, <2>3, <2>4, <2>5, Zenon DEF RequestInv, Requested
<1>14. ProcessInv'
  BY <1>1, <1>6 DEF IInv, ListInv, ProcessInv, Once
<1> QED
  BY <1>10, <1>11, <1>12, <1>13, <1>14 DEF IInv, ListInv

(* The time of a timer that is due is put off, if not for ever, to one that *)
(* is not due.                                                              *)
LEMMA NextTimeFacts ==
  ASSUME TypeOK, NEW e \in TimerEntry, e.next <= time
  PROVE  NextTime(e) \in 0 .. Never
<1>1. /\ time \in Nat /\ Never \in Nat /\ time + 1 < Never /\ e.repeat \in BOOLEAN
      /\ e.delay \in Nat /\ time + e.delay < Never /\ e.next \in Nat
  BY LiveFacts DEF TimerEntry
<1>2. CASE ~e.repeat \/ e.delay = 0
  BY <1>1, <1>2 DEF NextTime
<1>3. CASE e.repeat /\ e.delay # 0
  <2> DEFINE n == time - e.next
             q == n \div e.delay
  <2>1. n \in Nat /\ e.delay \in Nat /\ e.delay > 0
    BY <1>1, <1>3
  <2>2. q \in Nat /\ e.delay * q <= n
    BY <2>1
  <2>3. e.delay * (q + 1) = e.delay * q + e.delay
    BY <2>1, <2>2
  <2>4. NextTime(e) = e.next + e.delay * (q + 1)
    BY <1>1, <1>3 DEF NextTime
  <2> QED
    BY <1>1, <2>1, <2>2, <2>3, <2>4
<1> QED
  BY <1>1, <1>2, <1>3


(* The timers that are due are the first ones in the list.                  *)
LEMMA DueFacts ==
  ASSUME IInv
  PROVE  /\ DueCount \in 0 .. Len(timers)
         /\ SubSeq(timers, 1, DueCount) \in Seq(Cells)
         /\ Once(SubSeq(timers, 1, DueCount))
         /\ \A c : c \in ToSet(SubSeq(timers, 1, DueCount)) <=> c \in Live /\ entry[c].next <= time
         /\ SubSeq(timers, DueCount + 1, Len(timers)) \in Seq(Cells)
         /\ ToSet(SubSeq(timers, 1, DueCount)) \cup ToSet(SubSeq(timers, DueCount + 1, Len(timers))) = Live
<1>1. /\ timers \in Seq(Cells) /\ Sorted(timers, entry) /\ Once(timers) /\ Nexts(timers, entry)
      /\ time \in Nat /\ Len(timers) \in Nat /\ DOMAIN timers = 1 .. Len(timers)
  BY LiveFacts DEF IInv, ListInv, UniqueInv, TypeOK
<1> DEFINE n == DueCount
<1>2. n \in 0 .. Len(timers) /\ \A i \in DOMAIN timers : i <= n <=> entry[timers[i]].next <= time
  BY <1>1, UpperBound DEF DueCount
<1> HIDE DEF n
<1>3. /\ SubSeq(timers, 1, n) \in Seq(Cells) /\ Once(SubSeq(timers, 1, n))
      /\ ToSet(SubSeq(timers, 1, n)) = {timers[i] : i \in 1 .. n}
  BY <1>1, <1>2, PrefixFacts
<1>4. /\ SubSeq(timers, n + 1, Len(timers)) \in Seq(Cells)
      /\ ToSet(SubSeq(timers, n + 1, Len(timers))) = {timers[i] : i \in n + 1 .. Len(timers)}
  BY <1>1, <1>2, SuffixFacts
<1>5. \A i \in 1 .. Len(timers) : i \in 1 .. n \/ i \in n + 1 .. Len(timers)
  BY <1>1, <1>2
<1>6. /\ \A i \in 1 .. n : i \in DOMAIN timers /\ i <= n
      /\ \A i \in n + 1 .. Len(timers) : i \in DOMAIN timers
      /\ \A i \in DOMAIN timers : i <= n => i \in 1 .. n
  BY <1>1, <1>2
<1>7. ToSet(SubSeq(timers, 1, n)) \cup ToSet(SubSeq(timers, n + 1, Len(timers))) = Live
  <2>1. Live \subseteq ToSet(SubSeq(timers, 1, n)) \cup ToSet(SubSeq(timers, n + 1, Len(timers)))
    BY <1>1, <1>3, <1>4, <1>5 DEF Live, ToSet
  <2>2. ToSet(SubSeq(timers, 1, n)) \cup ToSet(SubSeq(timers, n + 1, Len(timers))) \subseteq Live
    BY <1>3, <1>4, <1>6 DEF Live, ToSet
  <2> QED
    BY <2>1, <2>2
<1>8. \A c : c \in {timers[i] : i \in 1 .. n} <=> c \in Live /\ entry[c].next <= time
  BY <1>2, <1>6 DEF Live, ToSet
<1> QED
  BY <1>2, <1>3, <1>4, <1>7, <1>8 DEF n

LEMMA ProcessTimersStep ==
  ASSUME IInv, processTimers
  PROVE  IInv'
<1> DEFINE due == SubSeq(timers, 1, DueCount)
           rest == SubSeq(timers, DueCount + 1, Len(timers))
           ent == [c \in DOMAIN entry |-> IF c \in ToSet(due)
                     THEN [entry[c] EXCEPT !.next = NextTime(entry[c])] ELSE entry[c]]
<1>1. /\ due \in Seq(Cells) /\ Once(due) /\ rest \in Seq(Cells)
      /\ \A c : c \in ToSet(due) <=> c \in Live /\ entry[c].next <= time
      /\ ToSet(due) \cup ToSet(rest) = Live
  BY DueFacts
<1>2. /\ pc = "idle" /\ process' = due /\ entry' = ent /\ timers' \in Resort(due, rest, ent)
      /\ touched' = {} /\ pc' = "deliver" /\ UNCHANGED <<time, wild, requests, ncalls>>
  BY Zenon DEF processTimers
<1>3. TypeOK /\ UniqueInv /\ RequestInv /\ ProcessInv
  BY DEF IInv, ListInv
<1>4. /\ Live \subseteq Cells /\ DOMAIN entry = Live
      /\ \A c \in Live : entry[c] \in TimerEntry
  BY <1>3, LiveFacts
<1> HIDE DEF due, rest
<1>5. /\ timers' \in Seq(Cells) /\ Live' = Live /\ Once(timers') /\ Sorted(timers', ent)
  <2> HIDE DEF ent
  <2>1. PICK s \in SetToSeqs(ToSet(due)) : timers' \in inplace_merge(s, rest, ent)
    BY <1>2 DEF Resort
  <2>2. IsFiniteSet(ToSet(due)) /\ IsFiniteSet(ToSet(rest))
    BY <1>1, ToSetFinite
  <2>3. ToSet(s) = ToSet(due)
    BY <2>1, <2>2, SetToSeqsFacts
  <2>4. timers' \in SetToSeqs(Live) /\ Sorted(timers', ent)
    BY <1>1, <2>1, <2>3 DEF inplace_merge
  <2>5. IsFiniteSet(Live)
    BY <1>1, <2>2, FS_Union
  <2>6. timers' \in Seq(Live) /\ ToSet(timers') = Live /\ Once(timers')
    BY <2>4, <2>5, SetToSeqsFacts
  <2> QED
    BY <1>4, <2>4, <2>6, SeqMonotonic DEF Live
<1>6. \A c \in Live : /\ entry'[c] \in TimerEntry /\ Timer(c)' = Timer(c)
                      /\ c \notin ToSet(due) => entry'[c] = entry[c]
  <2> SUFFICES ASSUME NEW c \in Live
               PROVE  /\ entry'[c] \in TimerEntry /\ Timer(c)' = Timer(c)
                      /\ c \notin ToSet(due) => entry'[c] = entry[c]
    OBVIOUS
  <2>1. CASE c \in ToSet(due)
    <3>1. NextTime(entry[c]) \in 0 .. Never
      BY <1>1, <1>3, <1>4, <2>1, NextTimeFacts
    <3>2. entry'[c] = [entry[c] EXCEPT !.next = NextTime(entry[c])]
      BY <1>2, <1>4, <2>1
    <3> QED
      BY <1>4, <2>1, <3>1, <3>2 DEF TimerEntry, Timer
  <2>2. CASE c \notin ToSet(due)
    BY <1>2, <1>4, <2>2 DEF Timer
  <2> QED
    BY <2>1, <2>2
<1>7. TypeOK'
  <2>1. entry' \in [Live' -> TimerEntry]
    <3>1. entry' = [c \in Live |-> entry'[c]]
      BY <1>2, <1>4
    <3> HIDE DEF ent
    <3> QED
      BY <1>5, <1>6, <3>1
  <2> QED
    BY <1>1, <1>2, <1>3, <1>5, <2>1 DEF TypeOK
<1> HIDE DEF ent
<1>8. UniqueInv'
  BY <1>3, <1>5, <1>6 DEF UniqueInv
<1>9. RequestInv'
  <2> USE <1>3 DEF RequestInv
  <2>1. \A r \in requests' : \E d \in Live' : r.timer = Timer(d)'
    BY <1>2, <1>5, <1>6
  <2>2. \A q, r \in requests' : q.timer = r.timer => q = r
    BY <1>2
  <2>3. \A d \in Live' : \E r \in requests' : r.timer = Timer(d)'
    BY <1>2, <1>5, <1>6 DEF Requested, ProcessInv
  <2>4. \A d \in Live' \ ToSet(due), r \in requests' :
           r.timer = Timer(d)' => r.due = entry'[d].next /\ entry'[d].next # Never
    BY <1>2, <1>5, <1>6 DEF ProcessInv, ToSet
  <2>5. \A d \in ToSet(due), r \in requests' : r.timer = Timer(d)' => r.due <= time
    BY <1>1, <1>2, <1>6 DEF ProcessInv, ToSet
  <2> QED
    BY <1>2, <2>1, <2>2, <2>3, <2>4, <2>5, Zenon DEF RequestInv, Requested
<1>10. ProcessInv'
  BY <1>1, <1>2 DEF ProcessInv, Once
<1> QED
  BY <1>2, <1>5, <1>7, <1>8, <1>9, <1>10 DEF IInv, ListInv

(* The request of a timer that is served is done with, or put off.          *)
LEMMA DeliverStep ==
  ASSUME IInv, deliver
  PROVE  IInv'
<1>1. /\ pc = "deliver" /\ process # << >> /\ process' = Tail(process)
      /\ UNCHANGED <<time, timers, entry, touched, ncalls>>
      /\ pc' \in {"deliver", "callback"} /\ wild' \in BOOLEAN
  BY DEF deliver, IInv, TypeOK
<1> DEFINE c == Head(process)
<1>2. TypeOK /\ UniqueInv /\ RequestInv /\ Once(process) /\ process \in Seq(Cells)
  BY DEF IInv, ListInv, ProcessInv, TypeOK
<1>3. /\ process' \in Seq(Cells) /\ Once(process') /\ c \notin ToSet(process')
      /\ ToSet(process) = ToSet(process') \cup {c}
  <2>1. /\ Len(process) \in Nat \ {0} /\ DOMAIN process = 1 .. Len(process) /\ c = process[1]
        /\ process' \in Seq(Cells) /\ Len(process') = Len(process) - 1
        /\ DOMAIN process' = 1 .. Len(process) - 1
        /\ \A i \in 1 .. Len(process) - 1 : process'[i] = process[i + 1]
    <3>1. process' \in Seq(Cells) /\ Len(process') = Len(process) - 1
          /\ \A i \in 1 .. Len(process') : process'[i] = process[i + 1]
      BY <1>1, <1>2, HeadTailProperties
    <3>2. Len(process) \in Nat \ {0} /\ DOMAIN process = 1 .. Len(process)
      BY <1>1, <1>2, EmptySeq, LenProperties
    <3> QED
      BY <1>1, <1>2, <3>1, <3>2, LenProperties
  <2> HIDE DEF c
  <2>2. Once(process')
    <3> SUFFICES ASSUME NEW i \in DOMAIN process', NEW j \in DOMAIN process', process'[i] = process'[j]
                 PROVE  i = j
      BY DEF Once
    <3>1. process[i + 1] = process[j + 1] /\ i + 1 \in DOMAIN process /\ j + 1 \in DOMAIN process
      BY <2>1
    <3>2. i + 1 = j + 1
      BY <1>2, <3>1 DEF Once
    <3> QED
      BY <2>1, <3>2
  <2>3. \A i \in DOMAIN process' : i + 1 \in DOMAIN process /\ i + 1 # 1 /\ process'[i] = process[i + 1]
    BY <2>1
  <2>4. 1 \in DOMAIN process
    BY <2>1
  <2>5. c \notin ToSet(process')
    BY <1>2, <2>1, <2>3, <2>4 DEF Once, ToSet
  <2>6. \A i \in DOMAIN process : i = 1 \/ (i - 1 \in DOMAIN process' /\ process'[i - 1] = process[i])
    <3> SUFFICES ASSUME NEW i \in DOMAIN process, i # 1
                 PROVE  i - 1 \in DOMAIN process' /\ process'[i - 1] = process[i]
      OBVIOUS
    <3>1. i - 1 \in 1 .. Len(process) - 1 /\ (i - 1) + 1 = i
      BY <2>1
    <3> QED
      BY <2>1, <3>1
  <2>7. ToSet(process) \subseteq ToSet(process') \cup {c}
    BY <2>1, <2>6 DEF ToSet
  <2>8. ToSet(process') \cup {c} \subseteq ToSet(process)
    BY <2>1, <2>3, <2>4 DEF ToSet
  <2> QED
    BY <2>1, <2>2, <2>5, <2>7, <2>8
<1> HIDE DEF c
<1>4. ProcessInv'
  BY <1>1, <1>3 DEF ProcessInv
<1>5. UniqueInv' /\ Sorted(timers, entry)' /\ Live' = Live /\ \A d : Timer(d)' = Timer(d)
  BY <1>1, <1>2 DEF IInv, ListInv, UniqueInv, Once, Sorted, Live, Timer
<1>6. CASE c \notin Live /\ UNCHANGED requests
  <2>1. RequestInv'
    BY <1>1, <1>2, <1>3, <1>5, <1>6 DEF RequestInv, Requested
  <2>2. TypeOK'
    BY <1>1, <1>2, <1>3, <1>5, <1>6 DEF TypeOK
  <2> QED
    BY <1>4, <1>5, <2>1, <2>2 DEF IInv, ListInv
<1>7. CASE c \in Live /\ Fire(c)
  <2>1. requests' = {IF r.timer = Timer(c) THEN [r EXCEPT !.due = entry[c].next] ELSE r :
                       r \in {q \in requests : q.timer # Timer(c) \/ entry[c].next # Never}}
    BY <1>7 DEF Fire
  <2>2. /\ entry[c].next \in 0 .. Never
        /\ requests \subseteq [timer : Listeners \X SIDs, due : 0 .. Never]
    BY <1>2, <1>7, LiveFacts DEF TypeOK
  <2>3. \A r \in requests : r.timer # Timer(c) => r \in requests'
    BY <2>1
  <2>4. \A r \in requests : r.timer = Timer(c) /\ entry[c].next # Never =>
          [timer |-> Timer(c), due |-> entry[c].next] \in requests'
    <3> SUFFICES ASSUME NEW r \in requests, r.timer = Timer(c), entry[c].next # Never
                 PROVE  [timer |-> Timer(c), due |-> entry[c].next] \in requests'
      OBVIOUS
    <3>1. [r EXCEPT !.due = entry[c].next] = [timer |-> Timer(c), due |-> entry[c].next]
      BY <2>2
    <3>2. [r EXCEPT !.due = entry[c].next] \in requests'
      BY <2>1
    <3> QED
      BY <3>1, <3>2
  <2>5. ASSUME NEW r \in requests'
        PROVE  \/ r \in requests /\ r.timer # Timer(c)
               \/ /\ r = [timer |-> Timer(c), due |-> entry[c].next] /\ entry[c].next # Never
                  /\ \E q \in requests : q.timer = Timer(c)
    <3>1. PICK q \in requests : /\ q.timer # Timer(c) \/ entry[c].next # Never
                                /\ r = IF q.timer = Timer(c) THEN [q EXCEPT !.due = entry[c].next] ELSE q
      BY <2>1
    <3>2. q \in [timer : Listeners \X SIDs, due : 0 .. Never]
      BY <2>2
    <3> QED
      BY <3>1, <3>2
  <2>6. RequestInv'
    <3> USE <1>2 DEF RequestInv
    <3>1. \A r \in requests' : \E d \in Live' : r.timer = Timer(d)'
      BY <1>5, <1>7, <2>5
    <3>2. \A q, r \in requests' : q.timer = r.timer => q = r
      BY <2>5
    <3>3. \A d \in Live' : d \in ToSet(process') \/ entry'[d].next # Never => \E r \in requests' : r.timer = Timer(d)'
      <4> SUFFICES ASSUME NEW d \in Live, d \in ToSet(process') \/ entry[d].next # Never
                   PROVE  \E r \in requests' : r.timer = Timer(d)
        BY <1>1, <1>5
      <4>1. PICK r \in requests : r.timer = Timer(d)
        BY <1>3 DEF Requested
      <4>2. CASE d # c
        BY <1>2, <1>7, <2>3, <4>1, <4>2 DEF UniqueInv
      <4>3. CASE d = c
        <5>1. [timer |-> Timer(c), due |-> entry[c].next] \in requests'
          BY <1>3, <2>4, <4>1, <4>3
        <5> QED
          BY <4>3, <5>1
      <4> QED
        BY <4>2, <4>3
    <3>4. \A d \in Live' \ ToSet(process'), r \in requests' :
             r.timer = Timer(d)' => r.due = entry'[d].next /\ entry'[d].next # Never
      BY <1>1, <1>2, <1>3, <1>5, <1>7, <2>5 DEF UniqueInv
    <3>5. \A d \in ToSet(process') \ touched', r \in requests' : d \in Live' /\ r.timer = Timer(d)' => r.due <= time
      BY <1>1, <1>2, <1>3, <1>5, <1>7, <2>5 DEF UniqueInv
    <3> QED
      BY <1>1, <3>1, <3>2, <3>3, <3>4, <3>5, Zenon DEF RequestInv, Requested
  <2>7. requests' \subseteq [timer : Listeners \X SIDs, due : 0 .. Never]
    <3>1. Timer(c) \in Listeners \X SIDs
      BY <1>2, <1>7, LiveFacts DEF Timer
    <3> QED
      BY <2>2, <2>5, <3>1
  <2>8. TypeOK'
    BY <1>1, <1>2, <1>3, <1>5, <2>7 DEF TypeOK
  <2> QED
    BY <1>4, <1>5, <2>6, <2>8 DEF IInv, ListInv
<1> QED
  BY <1>6, <1>7 DEF deliver, c


(* What processTimers() clears are the timers marked dead.                  *)
LEMMA DeadFacts ==
  ASSUME IInv
  PROVE  \A c : c \in Dead <=> c \in Live /\ entry[c].next = Never
<1>1. /\ timers \in Seq(Cells) /\ Sorted(timers, entry) /\ Nexts(timers, entry)
      /\ Never \in Nat /\ Len(timers) \in Nat /\ DOMAIN timers = 1 .. Len(timers)
      /\ \A c \in Live : entry[c].next \in Nat /\ entry[c].next <= Never
      /\ \A i \in DOMAIN timers : timers[i] \in Live
  BY LiveFacts DEF IInv, ListInv, TypeOK
<1> DEFINE n == lower_bound(timers, entry, Never)
<1>2. n \in 0 .. Len(timers) /\ \A i \in DOMAIN timers : i <= n <=> entry[timers[i]].next < Never
  BY <1>1, LowerBound
<1> HIDE DEF n
<1>3. ToSet(SubSeq(timers, n + 1, Len(timers))) = {timers[i] : i \in n + 1 .. Len(timers)}
  BY <1>1, <1>2, SuffixFacts
<1>4. \A i \in DOMAIN timers : i \in n + 1 .. Len(timers) <=> entry[timers[i]].next = Never
  BY <1>1, <1>2
<1>5. \A i \in n + 1 .. Len(timers) : i \in DOMAIN timers
  BY <1>1, <1>2
<1>6. \A c : c \in {timers[i] : i \in n + 1 .. Len(timers)} <=> c \in Live /\ entry[c].next = Never
  BY <1>4, <1>5 DEF Live, ToSet
<1> QED
  BY <1>3, <1>6 DEF Dead, n

LEMMA FinishStep ==
  ASSUME IInv, finish
  PROVE  IInv'
<1>1. /\ process = << >> /\ timers' \in Without(timers, Dead) /\ pc' = "idle" /\ touched' = {}
      /\ entry' = [c \in Live \ Dead |-> entry[c]]
      /\ UNCHANGED <<time, process, wild, requests, ncalls>>
  BY DEF finish
<1>2. /\ TypeOK /\ UniqueInv /\ RequestInv /\ Sorted(timers, entry) /\ timers \in Seq(Cells)
      /\ Live \subseteq Cells /\ \A c \in Live : entry[c] \in TimerEntry
  BY LiveFacts DEF IInv, ListInv, TypeOK
<1>3. \A c : c \in Dead <=> c \in Live /\ entry[c].next = Never
  BY DeadFacts
<1>4. /\ timers' \in Seq(Cells) /\ Live' = Live \ Dead /\ Once(timers') /\ Sorted(timers', entry)
  BY <1>1, <1>2, WithoutFacts DEF Live
<1>5. \A c \in Live' : /\ c \in Live /\ entry'[c] = entry[c] /\ Timer(c)' = Timer(c)
                       /\ entry[c].next # Never
  BY <1>1, <1>3, <1>4 DEF Timer
<1>6. ToSet(process) = {}
  BY <1>1 DEF ToSet
<1>7. TypeOK'
  <2>1. entry' \in [Live' -> TimerEntry]
    BY <1>1, <1>2, <1>4
  <2> QED
    BY <1>1, <1>2, <1>4, <2>1 DEF TypeOK
<1>8. Sorted(timers', entry')
  <2>1. \A i \in DOMAIN timers' : timers'[i] \in Live'
    BY DEF Live, ToSet
  <2> QED
    BY <1>4, <1>5, <2>1 DEF Sorted
<1>9. UniqueInv'
  BY <1>2, <1>4, <1>5 DEF UniqueInv
<1>10. RequestInv'
  <2>1. \A r \in requests : \E d \in Live' : r.timer = Timer(d)'
    <3> SUFFICES ASSUME NEW r \in requests
                 PROVE  \E d \in Live' : r.timer = Timer(d)'
      OBVIOUS
    <3>1. PICK d \in Live : r.timer = Timer(d)
      BY <1>2 DEF RequestInv
    <3>2. entry[d].next # Never
      BY <1>2, <1>6, <3>1 DEF RequestInv
    <3> QED
      BY <1>3, <1>4, <1>5, <3>1, <3>2
  <2>2. ASSUME NEW d \in Live' PROVE Requested(d)'
    <3>1. d \in Live /\ entry[d].next # Never /\ Timer(d)' = Timer(d)
      BY <1>5
    <3>2. Requested(d)
      BY <1>2, <3>1 DEF RequestInv
    <3> QED
      BY <1>1, <3>1, <3>2 DEF Requested
  <2>3. \A d \in Live', r \in requests : r.timer = Timer(d)' => r.due = entry'[d].next /\ entry'[d].next # Never
    BY <1>2, <1>5, <1>6 DEF RequestInv
  <2>4. requests' = requests /\ ToSet(process') = {} /\ \A q, r \in requests : q.timer = r.timer => q = r
    BY <1>1, <1>2, <1>6 DEF RequestInv
  <2> QED
    BY <2>1, <2>2, <2>3, <2>4, Zenon DEF RequestInv
<1>11. ProcessInv'
  <2>1. process' = << >> /\ Once(process')
    BY <1>1 DEF Once
  <2>2. \A c \in Live' : entry'[c].next # Never
    BY <1>5
  <2> QED
    BY <2>1, <2>2 DEF ProcessInv, Once
<1> QED
  BY <1>7, <1>8, <1>9, <1>10, <1>11 DEF IInv, ListInv

(* A callback returns, or time passes.                                      *)
LEMMA TimeStep ==
  ASSUME IInv, time' \in 0 .. MaxTime, time <= time', pc' \in {pc, "deliver"},
         UNCHANGED <<timers, entry, process, wild, requests, touched, ncalls>>
  PROVE  IInv'
<1>1. Live' = Live /\ \A c : Timer(c)' = Timer(c)
  BY DEF Live, Timer
<1>2. time \in Nat /\ time' \in Nat /\ requests \subseteq [timer : Listeners \X SIDs, due : 0 .. Never]
  BY LiveFacts DEF IInv, TypeOK
<1>3. RequestInv'
  <2>1. \A c \in ToSet(process) \ touched, r \in requests : c \in Live /\ r.timer = Timer(c) => r.due <= time'
    BY <1>2 DEF IInv, ListInv, RequestInv
  <2> QED
    BY <1>1, <2>1 DEF IInv, ListInv, RequestInv, Requested
<1>4. UniqueInv' /\ ProcessInv' /\ Sorted(timers, entry)'
  BY <1>1 DEF IInv, ListInv, UniqueInv, ProcessInv, Once, Sorted
<1>5. TypeOK'
  BY <1>1, Times DEF IInv, TypeOK
<1> QED
  BY <1>3, <1>4, <1>5 DEF IInv, ListInv

LEMMA InductiveStep == IInv /\ [Next]_vars => IInv'
<1> SUFFICES ASSUME IInv, [Next]_vars PROVE IInv'
  OBVIOUS
<1> time \in Nat /\ time <= MaxTime /\ MaxTime \in Nat
  BY LiveFacts DEF IInv
<1>1. CASE UNCHANGED vars
  BY <1>1, TimeStep DEF vars
<1>2. ASSUME NEW el \in Listeners, NEW sid \in SIDs, NEW delay \in Delays, NEW repeat \in BOOLEAN,
             addTimer(el, sid, delay, repeat)
      PROVE  IInv'
  BY <1>2, AddTimerStep
<1>3. ASSUME NEW gone \in Removable, removeTimer(gone) PROVE IInv'
  BY <1>3, RemoveTimerStep
<1>4. CASE processTimers
  BY <1>4, ProcessTimersStep
<1>5. CASE deliver
  BY <1>5, DeliverStep
<1>6. CASE returns
  BY <1>6, TimeStep DEF returns
<1>7. CASE finish
  BY <1>7, FinishStep
<1>8. CASE Tick
  BY <1>8, TimeStep DEF Tick
<1> QED
  BY <1>1, <1>2, <1>3, <1>4, <1>5, <1>6, <1>7, <1>8 DEF Next

(* What the invariant says between two calls is what was asked for.         *)
LEMMA PendingFromInv == IInv => PendingAsRequested
<1> SUFFICES ASSUME IInv PROVE PendingAsRequested
  OBVIOUS
<1> USE DEF IInv, ListInv
<1>1. \A i, j \in DOMAIN timers : Timer(timers[i]) = Timer(timers[j]) => i = j
  BY DEF UniqueInv, Once, Live, ToSet
<1>2. ASSUME pc = "idle"
      PROVE  requests = {[timer |-> Timer(c), due |-> entry[c].next] : c \in Live}
  <2>1. ToSet(process) = {} /\ \A c \in Live : entry[c].next # Never
    BY <1>2 DEF ProcessInv, ToSet
  <2>2. requests \subseteq [timer : Listeners \X SIDs, due : 0 .. Never]
    BY DEF TypeOK
  <2>3. ASSUME NEW r \in requests, NEW c \in Live, r.timer = Timer(c)
        PROVE  r = [timer |-> Timer(c), due |-> entry[c].next]
    BY <2>1, <2>2, <2>3 DEF RequestInv
  <2>4. \A r \in requests : \E c \in Live : r.timer = Timer(c)
    BY DEF RequestInv
  <2>5. \A c \in Live : \E r \in requests : r.timer = Timer(c)
    BY <2>1 DEF RequestInv, Requested
  <2> QED
    BY <2>3, <2>4, <2>5
<1> QED
  BY <1>1, <1>2 DEF PendingAsRequested

(* Whatever mix of calls the callbacks of processTimers() and other code    *)
(* make, the list of timers stays sorted, holds each timer once and,        *)
(* between two calls, is exactly what was asked for (EventRouter.cc, every  *)
(* function that touches timers).                                           *)
THEOREM TimersPending == Spec => []PendingAsRequested
<1>1. Spec => []IInv
  BY InitInv, InductiveStep, PTL DEF Spec
<1> QED
  BY <1>1, PendingFromInv, PTL

(* A listener is called at or after the time its timer was set for, unless  *)
(* a callback has set or freed that cell since processTimers() looked.      *)
LEMMA FiresStep ==
  ASSUME IInv, [Next]_vars, pc' = "callback", pc = "deliver", Head(process) \notin touched,
         NEW r \in requests, r.timer = Timer(Head(process))
  PROVE  r.due <= time
<1>1. deliver
  BY DEF Next, vars, addTimer, removeTimer, InUserCode, processTimers, returns, finish, Tick
<1>2. Head(process) \in Live /\ process # << >>
  BY <1>1 DEF deliver
<1>3. Head(process) \in ToSet(process)
  <2>1. process \in Seq(Cells)
    BY DEF IInv, TypeOK
  <2>2. 1 \in DOMAIN process /\ Head(process) = process[1]
    BY <1>2, <2>1, EmptySeq, LenProperties
  <2> QED
    BY <2>2 DEF ToSet
<1> QED
  BY <1>2, <1>3 DEF IInv, ListInv, RequestInv

THEOREM TimersFire == Spec => FiresWhenDue
<1>1. Spec => []IInv
  BY InitInv, InductiveStep, PTL DEF Spec
<1>2. ASSUME IInv, [Next]_vars
      PROVE  [\A r \in requests :
                 pc' = "callback" /\ pc = "deliver" /\ Head(process) \notin touched
                 /\ r.timer = Timer(Head(process)) => r.due <= time]_vars
  BY <1>2, FiresStep
<1> QED
  BY <1>1, <1>2, PTL DEF Spec, FiresWhenDue

-------------------------------------------------------------------------------
(* The thread that waits for the next timer                                 *)

Places == {"none", "launching", "delay", "period", "asleep", "lock", "poll", "polled", "ending"}

\* Who has behaviorLock, and that callbacks run under it.
LocksInv ==
  /\ thread \in [at : Places, until : 0 .. Never]
  /\ main \in {"out", "user", "served", "wireless"} /\ nextTimer \in 0 .. Never
  /\ cancelled \in BOOLEAN /\ missed \in BOOLEAN /\ unseen \in BOOLEAN
  /\ main # "out" => thread.at \notin {"poll", "polled"}
  /\ pc # "idle" => (main = "served" \/ thread.at = "polled")

\* nextTimer is not past the next timer when the lock is free and until the
\* thread that took it has served, but for timers that nobody has looked at.
NextInv ==
  (BehaviorLockFree \/ thread.at = "poll") /\ ~unseen => nextTimer <= getNextTimer

\* The thread was not sent away while a timer is pending, and wakes in time.
WakeInv ==
  /\ thread.at = "none" => ~cancelled
  /\ ~missed => (cancelled => nextTimer = Never)
  /\ (~missed /\ nextTimer # Never) => thread.at \notin {"none", "ending"}
  /\ (~missed /\ nextTimer # Never /\ thread.at \in {"delay", "period", "asleep"})
        => thread.until <= nextTimer

ThreadInv == IInv /\ LocksInv /\ NextInv /\ WakeInv

LEMMA NextTimerFacts ==
  ASSUME IInv
  PROVE  /\ getNextTimer \in 0 .. Never
         /\ pc = "idle" => (getNextTimer = Never <=> timers = << >>)
         /\ timers = << >> => DueCount = 0
<1>1. timers \in Seq(Cells) /\ \A c \in Live : entry[c].next \in 0 .. Never
  BY LiveFacts DEF IInv, TypeOK, TimerEntry
<1>2. timers # << >> => timers[1] \in Live
  <2>1. timers # << >> => 1 \in DOMAIN timers
    BY <1>1, EmptySeq, LenProperties
  <2> QED
    BY <2>1 DEF Live, ToSet
<1>3. pc = "idle" => \A c \in Live : entry[c].next # Never
  BY DEF IInv, ListInv, ProcessInv
<1>4. timers = << >> => DueCount = 0
  <2>1. timers = << >> => Len(timers) = 0
    OBVIOUS
  <2> QED
    BY <2>1, DueFacts
<1>5. Never \in 0 .. Never
  BY Times
<1> QED
  BY <1>1, <1>2, <1>3, <1>4, <1>5 DEF getNextTimer

LEMMA ThreadInitInv == ThreadInit => ThreadInv
<1> SUFFICES ASSUME ThreadInit PROVE ThreadInv
  OBVIOUS
<1>1. IInv
  BY InitInv DEF ThreadInit
<1>2. timers = << >> /\ pc = "idle" /\ Never \in 0 .. Never
  BY Times DEF ThreadInit, Init
<1>3. LocksInv /\ WakeInv
  BY <1>2 DEF ThreadInit, LocksInv, WakeInv, Places
<1>4. NextInv
  <2>1. nextTimer = getNextTimer /\ nextTimer \in Nat
    BY <1>2 DEF ThreadInit, getNextTimer
  <2> QED
    BY <2>1 DEF NextInv
<1> QED
  BY <1>1, <1>3, <1>4 DEF ThreadInv

(* Whatever Main and its thread do, the router sees one of its own steps.   *)
LEMMA ThreadRefines == [ThreadNext]_allVars => [Next]_vars
<1> SUFFICES ASSUME [ThreadNext]_allVars PROVE [Next]_vars
  OBVIOUS
<1>1. CASE UNCHANGED allVars
  BY <1>1 DEF allVars
<1>2. CASE UserCode
  BY <1>2 DEF UserCode, Next
<1>3. CASE MainServes \/ ThreadServes
  BY <1>3 DEF MainServes, ThreadServes, Serve, Next
<1>4. CASE InCallbacks \/ Clock
  BY <1>4 DEF InCallbacks, Clock, Next
<1>5. CASE gotEvent \/ handled \/ launched \/ Sleep \/ useResource \/ polled \/ handle_exit
             \/ pollProcess \/ pollProcessReturns
  BY <1>5 DEF gotEvent, pollProcess, pollProcessReturns, handled, launched, Sleep, useResource, polled, handle_exit
<1> QED
  BY <1>1, <1>2, <1>3, <1>4, <1>5 DEF ThreadNext

(* What the thread settles on when it goes to sleep.                        *)
LEMMA SleepsFromFacts ==
  ASSUME IInv, NEW at \in Places, NEW next \in 0 .. Never, missed \in BOOLEAN, cancelled \in BOOLEAN,
         SleepsFrom(at, next)
  PROVE  /\ thread' \in [at : Places, until : 0 .. Never] /\ thread'.at = at
         /\ missed' \in BOOLEAN /\ (missed => missed')
         /\ ~missed' => ~cancelled /\ thread'.until <= next
<1>1. PICK u \in calcSleepTime(next) : /\ thread' = [at |-> at, until |-> u]
                                       /\ missed' = (missed \/ cancelled \/ u > next)
  BY DEF SleepsFrom
<1>2. u \in 0 .. Never
  BY Times DEF calcSleepTime
<1>3. missed' \in BOOLEAN /\ (missed' <=> missed \/ cancelled \/ u > next)
  BY <1>1, Zenon
<1>4. u > next <=> ~(u <= next)
  BY <1>2
<1>5. thread' \in [at : Places, until : 0 .. Never] /\ thread'.at = at /\ thread'.until = u
  BY <1>1, <1>2
<1> QED
  BY <1>3, <1>4, <1>5, Zenon

LEMMA HandledStep ==
  ASSUME ThreadInv, handled
  PROVE  LocksInv' /\ NextInv' /\ WakeInv'
<1>1. /\ main = "served" /\ pc = "idle" /\ main' = "out" /\ nextTimer' = getNextTimer
      /\ UNCHANGED vars /\ pc' = "idle" /\ unseen' = FALSE
  BY DEF handled, vars
<1>2. /\ thread \in [at : Places, until : 0 .. Never] /\ thread.at \notin {"poll", "polled"}
      /\ cancelled \in BOOLEAN /\ missed \in BOOLEAN /\ WakeInv /\ IInv
      /\ nextTimer' \in 0 .. Never /\ nextTimer \in 0 .. Never
  BY <1>1, NextTimerFacts DEF ThreadInv, LocksInv
<1>3. getNextTimer' = getNextTimer
  BY <1>1 DEF getNextTimer, vars
<1>4. SUFFICES /\ thread' \in [at : Places, until : 0 .. Never]
               /\ thread'.at \notin {"poll", "polled"}
               /\ cancelled' \in BOOLEAN /\ missed' \in BOOLEAN
               /\ WakeInv'
  <2>1. nextTimer' <= getNextTimer'
    BY <1>1, <1>2, <1>3
  <2> QED
    BY <1>1, <1>2, <2>1 DEF LocksInv, NextInv
<1>5. CASE nextTimer' = nextTimer
  BY <1>2, <1>5 DEF handled, threadVars, WakeInv
<1>6. CASE nextTimer' # nextTimer
  <2>1. reset(nextTimer')
    BY <1>6 DEF handled
  <2>2. CASE ~isStarted
    BY <1>2, <2>1, <2>2, Times DEF reset, start, isStarted, WakeInv, Places
  <2>3. CASE isStarted /\ nextTimer' = Never
    BY <1>2, <2>1, <2>3 DEF reset, stop, isStarted, WakeInv
  <2>4. CASE isStarted /\ nextTimer' # Never
    <3>1. interrupt(nextTimer') /\ thread.at # "none" /\ cancelled' = cancelled
      BY <2>1, <2>4 DEF reset, interrupt, isStarted
    <3>2. CASE cancelled \/ thread.at = "ending"
      BY <1>2, <3>1, <3>2 DEF interrupt, WakeInv
    <3>3. CASE ~(cancelled \/ thread.at = "ending")
      <4>1. CASE SleepsFrom("delay", nextTimer')
        <5>1. "delay" \in Places
          BY DEF Places
        <5> QED
          BY <1>2, <3>1, <3>3, <4>1, <5>1, SleepsFromFacts DEF WakeInv
      <4>2. CASE thread.at \in {"delay", "period"} /\ UNCHANGED thread
                 /\ missed' = (missed \/ thread.until > nextTimer')
        <5>1. missed' \in BOOLEAN /\ (missed' <=> missed \/ thread.until > nextTimer')
          BY <4>2, Zenon
        <5>2. thread.until > nextTimer' <=> ~(thread.until <= nextTimer')
          BY <1>2
        <5>3. ~missed' => ~missed /\ thread.until <= nextTimer'
          BY <5>1, <5>2
        <5> QED
          BY <1>2, <3>1, <3>3, <4>2, <5>1, <5>3 DEF WakeInv
      <4>3. CASE thread.at \in {"launching", "lock"} /\ UNCHANGED <<thread, missed>>
        BY <1>2, <3>1, <3>3, <4>3 DEF WakeInv
      <4> QED
        BY <3>1, <3>3, <4>1, <4>2, <4>3 DEF interrupt
    <3> QED
      BY <3>2, <3>3
  <2> QED
    BY <2>2, <2>3, <2>4
<1> QED
  BY <1>5, <1>6

LEMMA ThreadStep ==
  ASSUME ThreadInv, launched \/ Sleep \/ useResource \/ handle_exit
  PROVE  LocksInv' /\ NextInv' /\ WakeInv'
<1>1. /\ UNCHANGED <<vars, nextTimer, main, unseen>> /\ pc' = pc /\ timers' = timers
      /\ getNextTimer' = getNextTimer
  BY DEF launched, Sleep, useResource, handle_exit, vars, getNextTimer
<1>2. IInv /\ LocksInv /\ NextInv /\ WakeInv /\ Never \in 0 .. Never
  BY Times DEF ThreadInv
<1>3. CASE launched
  <2>1. SleepsFrom("delay", nextTimer) /\ cancelled' = cancelled /\ thread.at = "launching"
    BY <1>3 DEF launched
  <2>2. /\ thread' \in [at : Places, until : 0 .. Never] /\ thread'.at = "delay"
        /\ missed' \in BOOLEAN /\ (missed => missed')
        /\ ~missed' => thread'.until <= nextTimer
    <3>1. "delay" \in Places
      BY DEF Places
    <3> QED
      BY <1>2, <2>1, <3>1, SleepsFromFacts DEF LocksInv
  <2>3. LocksInv' /\ NextInv'
    BY <1>1, <1>2, <2>1, <2>2 DEF LocksInv, NextInv, BehaviorLockFree
  <2>4. WakeInv'
    BY <1>1, <1>2, <2>1, <2>2 DEF LocksInv, WakeInv
  <2> QED
    BY <2>3, <2>4
<1>4. CASE Sleep
  <2>1. /\ thread.at \in {"delay", "period", "asleep"} /\ UNCHANGED <<cancelled, missed>>
        /\ thread' = IF cancelled THEN [at |-> "ending", until |-> Never]
                     ELSE IF thread.until > time THEN [thread EXCEPT !.at = "asleep"]
                     ELSE [at |-> "lock", until |-> Never]
    BY <1>4 DEF Sleep
  <2>2. /\ thread' \in [at : Places, until : 0 .. Never]
        /\ thread'.at \in {"ending", "asleep", "lock"}
        /\ thread'.at = "asleep" => thread'.until = thread.until
        /\ thread'.at = "ending" => cancelled
    BY <1>2, <2>1 DEF LocksInv, Places
  <2>3. LocksInv' /\ NextInv'
    BY <1>1, <1>2, <2>1, <2>2 DEF LocksInv, NextInv, BehaviorLockFree
  <2>4. WakeInv'
    BY <1>1, <1>2, <2>1, <2>2 DEF WakeInv
  <2> QED
    BY <2>3, <2>4
<1>5. CASE useResource
  <2>1. /\ thread.at = "lock" /\ BehaviorLockFree /\ UNCHANGED <<cancelled, missed>>
        /\ thread' = [thread EXCEPT !.at = "poll"]
    BY <1>5 DEF useResource
  <2>2. thread' \in [at : Places, until : 0 .. Never] /\ thread'.at = "poll"
    BY <1>2, <2>1 DEF LocksInv, Places
  <2>3. LocksInv' /\ NextInv'
    BY <1>1, <1>2, <2>1, <2>2 DEF LocksInv, NextInv, BehaviorLockFree
  <2>4. WakeInv'
    BY <1>1, <1>2, <2>1, <2>2 DEF WakeInv
  <2> QED
    BY <2>3, <2>4
<1>6. CASE handle_exit
  <2>1. /\ thread.at = "ending" /\ cancelled' = FALSE /\ missed' = missed
        /\ thread' = [thread EXCEPT !.at = "none"]
    BY <1>6 DEF handle_exit
  <2>2. thread' \in [at : Places, until : 0 .. Never] /\ thread'.at = "none"
    BY <1>2, <2>1 DEF LocksInv, Places
  <2>3. LocksInv' /\ NextInv'
    BY <1>1, <1>2, <2>1, <2>2 DEF LocksInv, NextInv, BehaviorLockFree
  <2>4. WakeInv'
    BY <1>1, <1>2, <2>1, <2>2 DEF WakeInv
  <2> QED
    BY <2>3, <2>4
<1> QED
  BY <1>3, <1>4, <1>5, <1>6

LEMMA ServeStep ==
  ASSUME ThreadInv, MainServes \/ ThreadServes \/ polled
  PROVE  LocksInv' /\ NextInv' /\ WakeInv'
<1>1. IInv /\ LocksInv /\ NextInv /\ WakeInv /\ Never \in 0 .. Never
  BY Times DEF ThreadInv
<1>2. CASE MainServes
  <2>1. main = "user" /\ main' = "served" /\ UNCHANGED <<nextTimer, thread, cancelled, missed, unseen>>
    BY <1>2 DEF MainServes, threadVars
  <2> QED
    BY <1>1, <2>1 DEF LocksInv, NextInv, WakeInv, BehaviorLockFree
<1>3. CASE ThreadServes
  <2>1. /\ thread.at = "poll" /\ UNCHANGED <<nextTimer, main, cancelled, missed, unseen>>
        /\ thread' = [thread EXCEPT !.at = "polled"]
    BY <1>3 DEF ThreadServes
  <2>2. thread' \in [at : Places, until : 0 .. Never] /\ thread'.at = "polled" /\ main = "out"
    BY <1>1, <2>1 DEF LocksInv, Places
  <2>3. LocksInv'
    BY <1>1, <2>1, <2>2 DEF LocksInv
  <2>4. NextInv' /\ WakeInv'
    BY <1>1, <2>1, <2>2 DEF NextInv, WakeInv, BehaviorLockFree
  <2> QED
    BY <2>3, <2>4
<1>4. CASE polled
  <2>1. /\ thread.at = "polled" /\ pc = "idle" /\ nextTimer' = getNextTimer
        /\ UNCHANGED <<vars, main, cancelled>> /\ pc' = "idle" /\ unseen' = FALSE
    BY <1>4 DEF polled, vars
  <2>2. getNextTimer' = getNextTimer /\ nextTimer' \in 0 .. Never
    BY <1>1, <2>1, NextTimerFacts DEF getNextTimer, vars
  <2>3. NextInv'
    BY <2>1, <2>2 DEF NextInv
  <2>4. CASE nextTimer' = Never
    <3>1. thread' = [at |-> "ending", until |-> Never] /\ missed' = missed
      BY <1>4, <2>4 DEF polled
    <3>2. thread' \in [at : Places, until : 0 .. Never] /\ thread'.at = "ending"
      BY <1>1, <3>1 DEF Places
    <3>3. LocksInv'
      BY <1>1, <2>1, <2>2, <3>1, <3>2 DEF LocksInv
    <3>4. WakeInv'
      BY <1>1, <2>1, <2>4, <3>1, <3>2 DEF WakeInv
    <3> QED
      BY <2>3, <3>3, <3>4
  <2>5. CASE nextTimer' # Never
    <3>1. SleepsFrom("period", nextTimer') /\ "period" \in Places
      BY <1>4, <2>5 DEF polled, Places
    <3>2. /\ thread' \in [at : Places, until : 0 .. Never] /\ thread'.at = "period"
          /\ missed' \in BOOLEAN /\ (missed => missed')
          /\ ~missed' => ~cancelled /\ thread'.until <= nextTimer'
      BY <1>1, <2>2, <3>1, SleepsFromFacts DEF LocksInv
    <3>3. LocksInv'
      BY <1>1, <2>1, <2>2, <3>2 DEF LocksInv
    <3>4. WakeInv'
      BY <1>1, <2>1, <3>2 DEF WakeInv
    <3> QED
      BY <2>3, <3>3, <3>4
  <2> QED
    BY <2>4, <2>5
<1> QED
  BY <1>2, <1>3, <1>4

LEMMA UnderLockStep ==
  ASSUME ThreadInv, gotEvent \/ pollProcess \/ pollProcessReturns \/ UserCode \/ InCallbacks \/ Clock
  PROVE  LocksInv' /\ NextInv' /\ WakeInv'
<1>1. IInv /\ LocksInv /\ NextInv /\ WakeInv /\ UNCHANGED <<nextTimer, thread, cancelled, missed>>
  BY DEF ThreadInv, gotEvent, pollProcess, pollProcessReturns, UserCode, InCallbacks, Clock, threadVars
<1>2. WakeInv'
  BY <1>1 DEF WakeInv
<1>3. CASE gotEvent \/ pollProcess
  <2>1. BehaviorLockFree /\ main' \in {"user", "wireless"} /\ pc' = pc /\ unseen' = unseen
    BY <1>3 DEF gotEvent, pollProcess, vars
  <2> QED
    BY <1>1, <1>2, <2>1 DEF LocksInv, NextInv, BehaviorLockFree
<1>4. CASE Clock
  <2>1. main' = main /\ timers' = timers /\ pc' = pc /\ getNextTimer' = getNextTimer /\ unseen' = unseen
    BY <1>4 DEF Clock, Tick, getNextTimer
  <2> QED
    BY <1>1, <1>2, <2>1 DEF LocksInv, NextInv, BehaviorLockFree
<1>5. CASE UserCode
  <2>1. /\ main \in {"user", "wireless"} \/ pc = "callback"
        /\ main' = main /\ pc' = pc /\ unseen' = unseen
    BY <1>5 DEF UserCode, addTimer, removeTimer
  <2> QED
    BY <1>1, <1>2, <2>1 DEF LocksInv, NextInv, BehaviorLockFree
<1>6. CASE InCallbacks
  <2>1. pc # "idle" /\ main' = main /\ unseen' = unseen
    BY <1>6 DEF InCallbacks, deliver, returns, finish
  <2> QED
    BY <1>1, <1>2, <2>1 DEF LocksInv, NextInv, BehaviorLockFree
<1>7. CASE pollProcessReturns
  <2>1. /\ main = "wireless" /\ main' = "out" /\ unseen' = (getNextTimer < nextTimer)
        /\ pc' = pc /\ getNextTimer' = getNextTimer
    BY <1>7 DEF pollProcessReturns, vars, getNextTimer
  <2>2. getNextTimer \in 0 .. Never /\ nextTimer \in 0 .. Never
    BY <1>1, NextTimerFacts DEF LocksInv
  <2>3. unseen' \in BOOLEAN /\ (unseen' <=> getNextTimer < nextTimer)
    <3>1. (getNextTimer < nextTimer) \in BOOLEAN
      BY <2>2
    <3> QED
      BY <2>1, <3>1, Zenon
  <2>4. NextInv'
    BY <1>1, <2>1, <2>2, <2>3 DEF NextInv
  <2>5. LocksInv'
    BY <1>1, <2>1, <2>3 DEF LocksInv
  <2> QED
    BY <1>2, <2>4, <2>5
<1> QED
  BY <1>3, <1>4, <1>5, <1>6, <1>7

LEMMA ThreadInductive == ThreadInv /\ [ThreadNext]_allVars => ThreadInv'
<1> SUFFICES ASSUME ThreadInv, [ThreadNext]_allVars PROVE ThreadInv'
  OBVIOUS
<1>1. IInv'
  BY ThreadRefines, InductiveStep DEF ThreadInv
<1>2. CASE UNCHANGED allVars
  BY <1>1, <1>2 DEF ThreadInv, allVars, vars, threadVars, LocksInv, NextInv, WakeInv,
                    BehaviorLockFree, getNextTimer
<1>3. CASE ThreadNext
  BY <1>1, <1>3, HandledStep, ThreadStep, ServeStep, UnderLockStep DEF ThreadNext, ThreadInv
<1> QED
  BY <1>2, <1>3

(* Main and its timer thread use the router as any code may: what holds of  *)
(* its timers holds under them (Main.cc, TimerExecThread.cc).               *)
THEOREM ThreadedTimers == ThreadSpec => Spec /\ []PendingAsRequested /\ FiresWhenDue
<1>1. ThreadInit => Init
  BY DEF ThreadInit
<1>2. ThreadSpec => Spec
  BY <1>1, ThreadRefines, PTL DEF ThreadSpec, Spec
<1> QED
  BY <1>2, TimersPending, TimersFire, PTL

(* Between two holders of behaviorLock the thread is on its way to the next *)
(* timer or to an earlier time, and sleeps no longer than until then: what  *)
(* Main's handlers change, TimerExecThread::reset() tells it wherever it    *)
(* is, before, in or after a sleep, or being started.  Not where a signal   *)
(* to it was lost, nor for a timer that a callback of Wireless or           *)
(* MotionManager has left unseen.                                           *)
THEOREM ThreadSleepsUntilNext == ThreadSpec => []SleepsUntilNext
<1>1. ThreadInv => SleepsUntilNext
  <2> SUFFICES ASSUME ThreadInv, BehaviorLockFree, ~missed, ~unseen, timers # << >>
               PROVE  /\ nextTimer <= getNextTimer
                      /\ thread.at \in {"launching", "delay", "period", "asleep", "lock"}
                      /\ ~cancelled
                      /\ thread.at \in {"delay", "period", "asleep"} => thread.until <= nextTimer
    BY DEF SleepsUntilNext
  <2>1. pc = "idle"
    BY DEF ThreadInv, LocksInv, BehaviorLockFree
  <2>2. getNextTimer \in 0 .. Never /\ getNextTimer # Never /\ nextTimer \in 0 .. Never
    BY <2>1, NextTimerFacts DEF ThreadInv, LocksInv
  <2>3. nextTimer <= getNextTimer
    BY DEF ThreadInv, NextInv
  <2>4. nextTimer # Never
    BY <2>2, <2>3, Times
  <2> QED
    BY <2>3, <2>4 DEF ThreadInv, WakeInv, LocksInv, BehaviorLockFree, Places
<1> QED
  BY <1>1, ThreadInitInv, ThreadInductive, PTL DEF ThreadSpec

===============================================================================
