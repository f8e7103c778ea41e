--------------------------- MODULE EventRouterProofs ---------------------------
(***************************************************************************)
(* Proofs about EventRouter, for any generators, listeners, trappers,      *)
(* events and subscriptions, and any depth of postings from callbacks.     *)
(***************************************************************************)
EXTENDS EventRouter, FiniteSetTheorems, SequenceTheorems, TLAPS

-------------------------------------------------------------------------------
(* Sequences                                                               *)

LEMMA UpToLast ==
  ASSUME NEW n \in Nat
  PROVE  \A i \in 1 .. n : i = n \/ (i \in 1 .. n - 1 /\ i < n)
  OBVIOUS

(* The last element replaced, and taken away.                               *)
LEMMA TopFacts ==
  ASSUME NEW S, NEW s \in Seq(S), s # << >>, NEW f \in S
  PROVE  /\ Len(s) \in Nat \ {0} /\ Last(s) = s[Len(s)] /\ Last(s) \in S
         /\ Front(s) \in Seq(S) /\ Len(Front(s)) = Len(s) - 1
         /\ \A i \in 1 .. Len(s) - 1 : Front(s)[i] = s[i]
         /\ Append(Front(s), f) \in Seq(S) /\ Len(Append(Front(s), f)) = Len(s)
         /\ Append(Front(s), f)[Len(s)] = f
         /\ \A i \in 1 .. Len(s) - 1 : Append(Front(s), f)[i] = s[i]
<1>1. Len(s) \in Nat \ {0} /\ s[Len(s)] \in S
  BY LenProperties, ElementOfSeq, EmptySeq
<1>2. Last(s) = s[Len(s)] /\ Front(s) = SubSeq(s, 1, Len(s) - 1)
  BY DEF Last, Front
<1> DEFINE r == SubSeq(s, 1, Len(s) - 1)
<1>3. r \in Seq(S) /\ Len(r) = Len(s) - 1 /\ \A i \in 1 .. Len(s) - 1 : r[i] = s[i]
  <2> DEFINE m == Len(s) - 1
  <2>0. m \in Nat /\ m <= Len(s)
    BY <1>1
  <2>1. m \in Nat /\ m \in 1 - 1 .. Len(s) /\ 1 \in 1 .. Len(s) + 1
        /\ (IF 1 <= m THEN m - 1 + 1 ELSE 0) = m /\ m - 1 + 1 = m
        /\ \A i \in 1 .. m : 1 + i - 1 = i
    <3> HIDE DEF m
    <3>1. m \in 1 - 1 .. Len(s) /\ 1 \in 1 .. Len(s) + 1 /\ m - 1 + 1 = m
      BY <1>1, <2>0
    <3>2. (IF 1 <= m THEN m - 1 + 1 ELSE 0) = m
      BY <2>0
    <3>3. \A i \in 1 .. m : 1 + i - 1 = i
      BY <2>0
    <3> QED
      BY <2>0, <3>1, <3>2, <3>3
  <2> HIDE DEF m
  <2>2. /\ SubSeq(s, 1, m) \in Seq(S)
        /\ Len(SubSeq(s, 1, m)) = IF 1 <= m THEN m - 1 + 1 ELSE 0
        /\ \A i \in 1 .. m - 1 + 1 : SubSeq(s, 1, m)[i] = s[1 + i - 1]
    BY <2>1, SubSeqProperties
  <2>3. SubSeq(s, 1, m) \in Seq(S) /\ Len(SubSeq(s, 1, m)) = m /\ \A i \in 1 .. m : SubSeq(s, 1, m)[i] = s[i]
    BY <2>1, <2>2
  <2> QED
    BY <2>3 DEF m
<1> HIDE DEF r
<1>4. /\ Append(r, f) \in Seq(S) /\ Len(Append(r, f)) = Len(r) + 1
      /\ \A i \in 1 .. Len(r) : Append(r, f)[i] = r[i]
      /\ Append(r, f)[Len(r) + 1] = f
  BY <1>3, AppendProperties
<1>5. Len(r) + 1 = Len(s)
  BY <1>1, <1>3
<1> QED
  BY <1>1, <1>2, <1>3, <1>4, <1>5 DEF r

LEMMA CopiesNat ==
  ASSUME NEW S, NEW s \in Seq(S), NEW el
  PROVE  /\ Copies(s, el) \in Nat /\ IsFiniteSet({i \in DOMAIN s : s[i] = el})
         /\ Copies(s, el) > 0 <=> Contains(s, el)
<1> DEFINE A == {i \in 1 .. Len(s) : s[i] = el}
<1>1. Len(s) \in Nat /\ DOMAIN s = 1 .. Len(s)
  BY LenProperties
<1>2. IsFiniteSet(A)
  <2>1. IsFiniteSet(1 .. Len(s)) /\ A \in SUBSET (1 .. Len(s))
    BY <1>1, FS_Interval
  <2> QED
    BY <2>1, FS_Subset
<1>3. Cardinality(A) \in Nat /\ (Cardinality(A) = 0 <=> A = {})
  BY <1>2, FS_CardinalityType, FS_EmptySet
<1>4. Copies(s, el) = Cardinality(A)
  BY <1>1 DEF Copies
<1>5. Contains(s, el) <=> A # {}
  BY DEF Contains
<1>6. {i \in DOMAIN s : s[i] = el} = A
  BY <1>1
<1>7. Copies(s, el) > 0 <=> Contains(s, el)
  <2> HIDE DEF A
  <2> QED
    BY <1>3, <1>4, <1>5
<1> QED
  BY <1>2, <1>3, <1>4, <1>6, <1>7

LEMMA CopiesEmpty ==
  ASSUME NEW el
  PROVE  Copies(<< >>, el) = 0
<1>1. {i \in DOMAIN << >> : << >>[i] = el} = {}
  OBVIOUS
<1> QED
  BY <1>1, FS_EmptySet DEF Copies

LEMMA CopiesAppend ==
  ASSUME NEW S, NEW s \in Seq(S), NEW x \in S, NEW el
  PROVE  Copies(Append(s, x), el) = Copies(s, el) + (IF x = el THEN 1 ELSE 0)
<1> DEFINE n == Len(s)
           t == Append(s, x)
           A == {i \in DOMAIN s : s[i] = el}
           B == {i \in DOMAIN t : t[i] = el}
<1>1. n \in Nat /\ DOMAIN s = 1 .. n
  BY LenProperties
<1>2. t \in Seq(S) /\ Len(t) = n + 1 /\ t[n + 1] = x /\ \A i \in 1 .. n : t[i] = s[i]
  BY AppendProperties
<1>3. DOMAIN t = 1 .. n + 1
  BY <1>2, LenProperties
<1> HIDE DEF t, n
<1>4. B = IF x = el THEN A \cup {n + 1} ELSE A
  BY <1>1, <1>2, <1>3
<1>5. IsFiniteSet(A) /\ n + 1 \notin A /\ Cardinality(A) \in Nat
  <2>1. IsFiniteSet(A)
    BY CopiesNat
  <2>2. n + 1 \notin A
    BY <1>1
  <2> QED
    BY <2>1, <2>2, FS_CardinalityType
<1>6. Cardinality(A \cup {n + 1}) = Cardinality(A) + 1
  BY <1>5, FS_AddElement
<1>7. Copies(s, el) = Cardinality(A) /\ Copies(t, el) = Cardinality(B)
  BY DEF Copies
<1> HIDE DEF A, B
<1>8. Copies(t, el) = Copies(s, el) + (IF x = el THEN 1 ELSE 0)
  BY <1>4, <1>5, <1>6, <1>7
<1> QED
  BY <1>8 DEF t

LEMMA CopiesTail ==
  ASSUME NEW S, NEW s \in Seq(S), s # << >>, NEW el
  PROVE  /\ Head(s) \in S /\ Tail(s) \in Seq(S)
         /\ Copies(s, el) = Copies(Tail(s), el) + (IF Head(s) = el THEN 1 ELSE 0)
<1> DEFINE n == Len(s)
           t == Tail(s)
           A == {i \in DOMAIN s : s[i] = el}
           B == {i \in DOMAIN t : t[i] = el}
<1>1. n \in Nat \ {0} /\ DOMAIN s = 1 .. n
  BY LenProperties, EmptySeq
<1>2. Head(s) = s[1] /\ Head(s) \in S /\ t \in Seq(S) /\ Len(t) = n - 1 /\ \A i \in 1 .. n - 1 : t[i] = s[i + 1]
  BY <1>1, HeadTailProperties
<1>3. DOMAIN t = 1 .. n - 1
  BY <1>2, LenProperties
<1> HIDE DEF t, n
<1> DEFINE f == [i \in B |-> i + 1]
<1>4. A \ {1} = {i \in 2 .. n : s[i] = el}
  BY <1>1
<1>5. f \in Bijection(B, A \ {1})
  <2>1. \A i \in B : i \in 1 .. n - 1 /\ i + 1 \in A \ {1}
    BY <1>1, <1>2, <1>3
  <2>2. \A j \in A \ {1} : j - 1 \in B /\ (j - 1) + 1 = j
    <3> SUFFICES ASSUME NEW j \in A \ {1} PROVE j - 1 \in B /\ (j - 1) + 1 = j
      OBVIOUS
    <3>1. j \in 2 .. n /\ s[j] = el /\ j - 1 \in 1 .. n - 1 /\ (j - 1) + 1 = j
      BY <1>1, <1>4
    <3> QED
      BY <1>2, <1>3, <3>1
  <2>3. \A i, j \in B : i + 1 = j + 1 => i = j
    BY <1>1, <1>3
  <2> HIDE DEF A, B
  <2>4. f \in [B -> A \ {1}] /\ \A i, j \in B : f[i] = f[j] => i = j
    BY <2>1, <2>3
  <2>5. \A j \in A \ {1} : \E i \in B : f[i] = j
    BY <2>2
  <2> QED
    BY <2>4, <2>5 DEF Bijection, Injection, Surjection, IsInjective
<1>6. IsFiniteSet(A) /\ IsFiniteSet(B) /\ Cardinality(A) \in Nat /\ Cardinality(B) \in Nat
  <2>1. IsFiniteSet(A) /\ IsFiniteSet(B)
    BY <1>2, CopiesNat
  <2> QED
    BY <2>1, FS_CardinalityType
<1>7. Cardinality(A \ {1}) = Cardinality(B)
  BY <1>5, <1>6, FS_Bijection DEF ExistsBijection
<1>8. Cardinality(A \ {1}) = IF 1 \in A THEN Cardinality(A) - 1 ELSE Cardinality(A)
  BY <1>6, FS_RemoveElement
<1>9. 1 \in A <=> Head(s) = el
  BY <1>1, <1>2
<1>10. Copies(s, el) = Cardinality(A) /\ Copies(t, el) = Cardinality(B)
  BY DEF Copies
<1> HIDE DEF A, B
<1>11. Copies(s, el) = Copies(t, el) + (IF Head(s) = el THEN 1 ELSE 0)
  BY <1>6, <1>7, <1>8, <1>9, <1>10
<1> QED
  BY <1>2, <1>11 DEF t

(* Every set of numbers has a least one.                                    *)
LEMMA LeastNat ==
  ASSUME NEW T \in SUBSET Nat, T # {}
  PROVE  \E x \in T : \A y \in T : x <= y
<1>1. IsWellFoundedOn(OpToRel(<, Nat), Nat)
  BY NatLessThanWellFounded, Zenon
<1>2. T \subseteq Nat
  OBVIOUS
<1>3. \E x \in T : \A y \in T : <<y, x>> \notin OpToRel(<, Nat)
  BY <1>1, <1>2, WFMin, Zenon
<1>4. \E x \in T : \A y \in T : ~(y < x)
  BY <1>3, Zenon DEF OpToRel
<1> QED
  BY <1>4

(* The k-th of a finite set of numbers.                                     *)
LEMMA KthOfSet ==
  ASSUME NEW n \in Nat, NEW L \in SUBSET (1 .. n), NEW k \in 1 .. Cardinality(L)
  PROVE  \E i \in L : Cardinality({j \in L : j <= i}) = k
<1> DEFINE upTo(i) == {j \in L : j <= i}
           T == {i \in 0 .. n : Cardinality(upTo(i)) >= k}
<1>1. IsFiniteSet(L) /\ Cardinality(L) \in Nat
  <2>1. IsFiniteSet(1 .. n)
    BY FS_Interval
  <2> QED
    BY <2>1, FS_Subset, FS_CardinalityType
<1>2. \A i \in 0 .. n : IsFiniteSet(upTo(i)) /\ Cardinality(upTo(i)) \in Nat
  <2> SUFFICES ASSUME NEW i \in 0 .. n PROVE IsFiniteSet(upTo(i)) /\ Cardinality(upTo(i)) \in Nat
    OBVIOUS
  <2>1. upTo(i) \in SUBSET L
    OBVIOUS
  <2> QED
    BY <1>1, <2>1, FS_Subset, FS_CardinalityType
<1>3. upTo(n) = L
  <2>1. \A j \in L : j <= n
    OBVIOUS
  <2> QED
    BY <2>1
<1>4. n \in T
  BY <1>1, <1>3
<1>5. PICK i \in T : \A j \in T : i <= j
  <2>1. T \in SUBSET Nat /\ T # {}
    BY <1>4
  <2> QED
    BY <2>1, LeastNat
<1>6. i # 0
  <2>1. upTo(0) = {}
    <3>1. \A j \in L : ~(j <= 0)
      OBVIOUS
    <3> QED
      BY <3>1
  <2>2. Cardinality(upTo(0)) = 0
    BY <2>1, FS_EmptySet
  <2>3. ~(0 >= k)
    BY <1>1
  <2> QED
    BY <1>5, <2>2, <2>3
<1>7. i - 1 \in 0 .. n /\ i \in 1 .. n /\ Cardinality(upTo(i)) >= k
  BY <1>5, <1>6
<1>8. ~(Cardinality(upTo(i - 1)) >= k)
  <2>1. ~(i <= i - 1)
    BY <1>7
  <2>2. i - 1 \notin T
    BY <1>5, <2>1
  <2> QED
    BY <1>7, <2>2
<1>9. upTo(i) = upTo(i - 1) \cup (IF i \in L THEN {i} ELSE {})
  <2>1. \A j \in L : j <= i <=> (j <= i - 1 \/ j = i)
    BY <1>7
  <2> QED
    BY <2>1
<1>10. i \notin upTo(i - 1)
  <2>1. ~(i <= i - 1)
    BY <1>7
  <2> QED
    BY <2>1
<1>11. Cardinality(upTo(i - 1) \cup {i}) = Cardinality(upTo(i - 1)) + 1
  BY <1>2, <1>7, <1>10, FS_AddElement
<1> DEFINE c == Cardinality(upTo(i - 1))
           d == Cardinality(upTo(i))
<1>12. c \in Nat /\ d \in Nat /\ d >= k /\ ~(c >= k)
  BY <1>2, <1>7, <1>8
<1>13. i \in L
  <2>1. i \notin L => d = c
    BY <1>9
  <2> HIDE DEF c, d
  <2> QED
    BY <1>12, <2>1
<1>14. d = c + 1
  BY <1>9, <1>11, <1>13
<1> HIDE DEF c, d
<1>15. d = k
  BY <1>1, <1>12, <1>14
<1> QED
  BY <1>13, <1>15 DEF d

(* What is left of a list when a listener is taken off it is such a list.   *)
LEMMA WithoutType ==
  ASSUME NEW S, NEW s \in Seq(S), NEW el
  PROVE  Without(s, el) \in Seq(S)
<1> DEFINE left == {i \in DOMAIN s : s[i] # el}
           nth(k) == CHOOSE i \in left : Cardinality({j \in left : j <= i}) = k
<1>1. Len(s) \in Nat /\ DOMAIN s = 1 .. Len(s)
  BY LenProperties
<1>2. left \in SUBSET (1 .. Len(s)) /\ Cardinality(left) \in Nat
  <2>1. IsFiniteSet(1 .. Len(s)) /\ left \in SUBSET (1 .. Len(s))
    BY <1>1, FS_Interval
  <2> QED
    BY <2>1, FS_Subset, FS_CardinalityType
<1>3. \A k \in 1 .. Cardinality(left) : nth(k) \in left
  <2> SUFFICES ASSUME NEW k \in 1 .. Cardinality(left) PROVE nth(k) \in left
    OBVIOUS
  <2>1. \E i \in left : Cardinality({j \in left : j <= i}) = k
    BY <1>1, <1>2, KthOfSet
  <2> QED
    BY <2>1
<1>4. \A k \in 1 .. Cardinality(left) : s[nth(k)] \in S
  BY <1>1, <1>3, ElementOfSeq
<1>5. Without(s, el) = [k \in 1 .. Cardinality(left) |-> s[nth(k)]]
  BY DEF Without
<1> HIDE DEF left, nth
<1> QED
  BY <1>2, <1>4, <1>5, SeqDef

-------------------------------------------------------------------------------
(* The mappers                                                             *)

LEMMA AddType ==
  ASSUME NEW S, NEW map \in Mapper(S), NEW el \in S, NEW w \in Scope
  PROVE  addMapping(map, el, w) \in Mapper(S)
<1>1. w.egid \in EGIDs /\ map.all \in [EGIDs -> Seq(S)] /\ map.filtered \in [EventBase -> Seq(S)]
  BY DEF Scope, Mapper
<1>2. \A s \in Seq(S) : Append(s, el) \in Seq(S)
  BY AppendProperties
<1>3. CASE w.sid = Every
  <2> DEFINE a == [map.all EXCEPT ![w.egid] = Append(map.all[w.egid], el)]
  <2>1. a \in [EGIDs -> Seq(S)]
    BY <1>1, <1>2
  <2>2. addMapping(map, el, w) = [map EXCEPT !.all = a]
    BY <1>3 DEF addMapping
  <2> HIDE DEF a
  <2> QED
    BY <2>1, <2>2 DEF Mapper
<1>4. CASE w.sid # Every
  <2> DEFINE f == [e \in EventBase |-> IF Covers(w, e) THEN Append(map.filtered[e], el) ELSE map.filtered[e]]
  <2>1. f \in [EventBase -> Seq(S)]
    BY <1>1, <1>2
  <2>2. addMapping(map, el, w) = [map EXCEPT !.filtered = f]
    BY <1>4 DEF addMapping
  <2> HIDE DEF f
  <2> QED
    BY <2>1, <2>2 DEF Mapper
<1> QED
  BY <1>3, <1>4

LEMMA RemoveType ==
  ASSUME NEW S, NEW map \in Mapper(S), NEW el, NEW w \in Scope
  PROVE  removeMapping(map, el, w) \in Mapper(S)
<1>1. w.egid \in EGIDs /\ map.all \in [EGIDs -> Seq(S)] /\ map.filtered \in [EventBase -> Seq(S)]
  BY DEF Scope, Mapper
<1>2. \A s \in Seq(S) : Without(s, el) \in Seq(S)
  BY WithoutType
<1> DEFINE a == IF w.sid = Every THEN [map.all EXCEPT ![w.egid] = Without(map.all[w.egid], el)] ELSE map.all
           f == [e \in EventBase |-> IF Covers(w, e) THEN Without(map.filtered[e], el) ELSE map.filtered[e]]
<1>3. a \in [EGIDs -> Seq(S)] /\ f \in [EventBase -> Seq(S)]
  BY <1>1, <1>2
<1>4. removeMapping(map, el, w) = [all |-> a, filtered |-> f]
  BY DEF removeMapping
<1> HIDE DEF a, f
<1> QED
  BY <1>3, <1>4 DEF Mapper

LEMMA GetType ==
  ASSUME NEW S, NEW map \in Mapper(S), NEW e \in EventBase
  PROVE  getMapping(map, e) \in Seq(S)
<1>1. e.egid \in EGIDs /\ map.all \in [EGIDs -> Seq(S)] /\ map.filtered \in [EventBase -> Seq(S)]
  BY DEF EventBase, Mapper
<1> QED
  BY <1>1, ConcatProperties DEF getMapping

-------------------------------------------------------------------------------
(* The invariant                                                           *)

\* The postings that are no longer queued; the queue holds all later ones.
Popped == Len(status) - Len(postings)

QueueInv == /\ Len(postings) <= Len(status)
            /\ \A k \in 1 .. Len(postings) : postings[k] = Popped + k

IsEvent(f) == f.for = "event"
Busy(f) == IsEvent(f) /\ f.pc # "loop"
CoveredBy(s, i) == \E j \in DOMAIN s : i < j /\ IsEvent(s[j])

\* What a frame is, with m postings so far.
FrameType(f, m) ==
  \/ f \in PostFrame /\ f.post \in 1 .. m /\ (f.pc # "loop" => f.cur \in 1 .. m)
  \/ f \in SweepFrame /\ f.el \in (IF f.op = "removeListener" THEN Listeners ELSE Trappers)

\* What a frame of processEvent() that is under way says of its posting.
Told(f, c, int, tr) ==
  /\ f.pc = "listen" => c[f.cur] # << >>
  /\ f.pc = "trap" => c[f.cur] = << >> \/ f.cur \in int
  /\ f.pc # "loop" /\ f.cur \in tr => f.cur \in int

AtFront(f, q) == f.pc # "loop" => q = << >> \/ Head(q) = f.cur

StackInv ==
  \A i \in DOMAIN stack :
    /\ FrameType(stack[i], Len(status))
    /\ IsEvent(stack[i]) =>
         /\ Told(stack[i], calls, interrupted, trapped)
         /\ i < Len(stack) => stack[i].pc \in {"trap", "listen"}
         /\ CoveredBy(stack, i) /\ stack[i].pc = "trap" => stack[i].cur \in interrupted
         /\ ~CoveredBy(stack, i) => AtFront(stack[i], postings)

\* Whose frame a posting in the queue is in, and what has become of it.
Held(s, n) == \E i \in DOMAIN s : IsEvent(s[i]) /\ s[i].post = n

PostingInv ==
  /\ \A n \in trapped : n <= Popped
  /\ \A n \in Postings :
       /\ n > Popped => Held(stack, n)
       /\ n <= Popped => Finished(n)
       /\ n > Popped + 1 => calls[n] = << >>
       /\ calls[n] # << >> => status[n].t = << >>

\* A listener's subscriptions at the time of the post have been served, or
\* are still listed, but for those it has cancelled meanwhile.
Accounted(n, el) ==
  /\ Copies(calls[n], el) + Copies(status[n].l, el) <= Copies(status[n].due, el)
  /\ el \notin lost[n] =>
       /\ Copies(calls[n], el) + Copies(status[n].l, el) = Copies(status[n].due, el)
       /\ Copies(status[n].due, el) > 0 => verifyMapping(listeners, el, status[n].e)
CopyInv == \A n \in Postings, el \in Listeners : Accounted(n, el)

IInv == /\ TypeOK /\ QueueInv /\ StackInv /\ PostingInv /\ CopyInv
        /\ QuietTrapHolds

-------------------------------------------------------------------------------
(* The stack                                                               *)

Frames == PostFrame \cup SweepFrame
Entry == [e : EventBase, t : Seq(Trappers), l : Seq(Listeners), due : Seq(Listeners)]

LEMMA Basics ==
  ASSUME IInv
  PROVE  /\ stack \in Seq(Frames) /\ Len(stack) \in Nat /\ DOMAIN stack = 1 .. Len(stack)
         /\ status \in Seq(Entry) /\ Len(status) \in Nat /\ DOMAIN status = 1 .. Len(status)
         /\ \A n \in Postings : status[n] \in Entry /\ calls[n] \in Seq(Listeners) /\ lost[n] \in SUBSET Listeners
         /\ postings \in Seq(Postings) /\ Len(postings) \in Nat /\ DOMAIN postings = 1 .. Len(postings)
         /\ Popped \in Nat
         /\ postings # << >> => /\ Len(postings) > 0 /\ Head(postings) = Popped + 1
                                /\ Head(postings) \in Postings
         /\ stack # << >> => /\ Len(stack) > 0 /\ Top = stack[Len(stack)] /\ Top \in Frames
                             /\ FrameType(Top, Len(status))
                             /\ IsEvent(Top) => /\ Told(Top, calls, interrupted, trapped)
                                                /\ AtFront(Top, postings)
<1> USE DEF IInv
<1>1. /\ stack \in Seq(Frames) /\ Len(stack) \in Nat /\ DOMAIN stack = 1 .. Len(stack)
      /\ \A i \in 1 .. Len(stack) : stack[i] \in Frames
  BY LenProperties, ElementOfSeq DEF TypeOK, Frames
<1>2. /\ status \in Seq(Entry) /\ Len(status) \in Nat /\ DOMAIN status = 1 .. Len(status)
      /\ \A i \in 1 .. Len(status) : status[i] \in Entry
  BY LenProperties, ElementOfSeq DEF TypeOK, Entry
<1>3. \A n \in Postings : calls[n] \in Seq(Listeners) /\ lost[n] \in SUBSET Listeners
  BY ElementOfSeq DEF TypeOK, Postings
<1>4. /\ postings \in Seq(Postings) /\ Len(postings) \in Nat /\ DOMAIN postings = 1 .. Len(postings)
  BY LenProperties DEF TypeOK
<1>5. Popped \in Nat
  BY <1>2, <1>4 DEF Popped, QueueInv
<1>6. postings # << >> => Len(postings) > 0 /\ Head(postings) = Popped + 1 /\ Head(postings) \in Postings
  <2> SUFFICES ASSUME postings # << >>
               PROVE  Len(postings) > 0 /\ Head(postings) = Popped + 1 /\ Head(postings) \in Postings
    OBVIOUS
  <2>1. Len(postings) # 0
    BY <1>4, EmptySeq
  <2>2. Head(postings) = postings[1] /\ Head(postings) \in Postings
    BY <1>4, <2>1, HeadTailProperties
  <2> QED
    BY <1>4, <2>1, <2>2 DEF QueueInv
<1>7. ASSUME stack # << >>
      PROVE  /\ Len(stack) > 0 /\ Top = stack[Len(stack)] /\ Top \in Frames
             /\ FrameType(Top, Len(status))
             /\ IsEvent(Top) => /\ Told(Top, calls, interrupted, trapped)
                                /\ AtFront(Top, postings)
  <2>1. Len(stack) > 0 /\ Top = stack[Len(stack)] /\ Top \in Frames
    BY <1>1, <1>7, TopFacts DEF Top
  <2>2. ~CoveredBy(stack, Len(stack))
    BY <1>1 DEF CoveredBy
  <2> QED
    BY <1>1, <2>1, <2>2 DEF StackInv
<1> QED
  BY <1>1, <1>2, <1>3, <1>4, <1>5, <1>6, <1>7 DEF Postings

LEMMA NewTop ==
  ASSUME stack \in Seq(Frames), stack # << >>, NEW nf \in Frames
  PROVE  /\ Append(Front(stack), nf) \in Seq(Frames) /\ Len(Append(Front(stack), nf)) = Len(stack)
         /\ Append(Front(stack), nf)[Len(stack)] = nf
         /\ \A i \in 1 .. Len(stack) - 1 : Append(Front(stack), nf)[i] = stack[i]
<1>1. Append(Front(stack), nf) \in Seq(Frames) /\ Len(Append(Front(stack), nf)) = Len(stack)
  BY TopFacts
<1>2. Append(Front(stack), nf)[Len(stack)] = nf
  BY TopFacts
<1>3. \A i \in 1 .. Len(stack) - 1 : Append(Front(stack), nf)[i] = stack[i]
  BY TopFacts
<1> QED
  BY <1>1, <1>2, <1>3

\* The innermost frame is nf now, the others are what they were.
Retopped(nf) == /\ stack' \in Seq(Frames) /\ Len(stack') = Len(stack) /\ stack'[Len(stack)] = nf
                /\ \A i \in 1 .. Len(stack) - 1 : stack'[i] = stack[i]

LEMMA ReplaceTop ==
  ASSUME stack \in Seq(Frames), stack # << >>, NEW nf \in Frames, SetTop(nf)
  PROVE  Retopped(nf)
  BY NewTop DEF SetTop, Retopped

\* A frame of processEvent() at the top is changed.
LEMMA SetTopStep ==
  ASSUME IInv, stack # << >>, IsEvent(Top), NEW nf, Retopped(nf), IsEvent(nf), nf \in Frames,
         nf.post = Top.post, FrameType(nf, Len(status)), Len(status') = Len(status),
         interrupted' = interrupted, Told(nf, calls', interrupted, trapped'), AtFront(nf, postings'),
         \A i \in 1 .. Len(stack) - 1 :
           IsEvent(stack[i]) => Told(stack[i], calls', interrupted, trapped')
  PROVE  StackInv' /\ stack' \in Seq(Frames) /\ \A n : Held(stack, n) => Held(stack', n)
<1> DEFINE k == Len(stack)
<1>1. /\ stack \in Seq(Frames) /\ k \in Nat /\ k > 0 /\ DOMAIN stack = 1 .. k /\ Top = stack[k]
      /\ StackInv
  BY Basics DEF IInv
<1>2. /\ stack' \in Seq(Frames) /\ Len(stack') = k /\ stack'[k] = nf
      /\ \A i \in 1 .. k - 1 : stack'[i] = stack[i]
  BY DEF Retopped
<1>3. DOMAIN stack' = 1 .. k
  BY <1>2, LenProperties
<1>4. \A i \in 1 .. k : IsEvent(stack'[i]) <=> IsEvent(stack[i])
  BY <1>1, <1>2
<1>5. \A i \in 1 .. k : CoveredBy(stack', i) <=> CoveredBy(stack, i)
  BY <1>1, <1>3, <1>4 DEF CoveredBy
<1>6. \A i \in 1 .. k - 1 : CoveredBy(stack, i) /\ i < k
  BY <1>1 DEF CoveredBy
<1>7. ~CoveredBy(stack, k)
  BY <1>1 DEF CoveredBy
<1> HIDE DEF k
<1>8. ASSUME NEW i \in 1 .. k
      PROVE  /\ FrameType(stack'[i], Len(status'))
             /\ IsEvent(stack'[i]) =>
                  /\ Told(stack'[i], calls', interrupted', trapped')
                  /\ i < k => stack'[i].pc \in {"trap", "listen"}
                  /\ CoveredBy(stack', i) /\ stack'[i].pc = "trap" => stack'[i].cur \in interrupted'
                  /\ ~CoveredBy(stack', i) => AtFront(stack'[i], postings')
  <2>1. CASE i = k
    BY <1>1, <1>2, <1>5, <1>7, <2>1
  <2>2. CASE i # k
    <3>1. i \in 1 .. k - 1
      BY <1>1, <2>2
    <3>2. /\ FrameType(stack[i], Len(status))
          /\ IsEvent(stack[i]) =>
               /\ stack[i].pc \in {"trap", "listen"}
               /\ CoveredBy(stack, i) /\ stack[i].pc = "trap" => stack[i].cur \in interrupted
      BY <1>1, <1>6, <3>1 DEF StackInv, k
    <3>3. IsEvent(stack[i]) => Told(stack[i], calls', interrupted, trapped')
      BY <3>1 DEF k
    <3> QED
      BY <1>2, <1>5, <1>6, <3>1, <3>2, <3>3
  <2> QED
    BY <2>1, <2>2
<1>9. StackInv'
  BY <1>2, <1>3, <1>8 DEF StackInv, IsEvent, CoveredBy, Told, AtFront, FrameType, PostFrame, SweepFrame
<1>10. ASSUME NEW n, Held(stack, n) PROVE Held(stack', n)
  <2>1. PICK i \in 1 .. k : IsEvent(stack[i]) /\ stack[i].post = n
    BY <1>1, <1>10 DEF Held
  <2>2. IsEvent(stack'[i]) /\ stack'[i].post = n
    BY <1>1, <1>2, <2>1
  <2> QED
    BY <1>3, <2>2 DEF Held, IsEvent
<1> QED
  BY <1>2, <1>9, <1>10

\* Only frames of sweeps come or go, or a posting returns and the queue is empty.
LEMMA StackStep ==
  ASSUME IInv, stack' \in Seq(Frames), UNCHANGED <<mappers, postings, status, history>>,
         \A i \in DOMAIN stack' :
           /\ FrameType(stack'[i], Len(status))
           /\ IsEvent(stack'[i]) =>
                /\ i \in DOMAIN stack /\ stack'[i] = stack[i]
                /\ i < Len(stack') => (i < Len(stack) \/ stack[i].pc \in {"trap", "listen"})
                /\ CoveredBy(stack', i) => CoveredBy(stack, i)
                /\ ~CoveredBy(stack', i) => (~CoveredBy(stack, i) \/ postings = << >>),
         \A i \in DOMAIN stack :
           IsEvent(stack[i]) => (i \in DOMAIN stack' /\ stack'[i] = stack[i]) \/ postings = << >>
  PROVE  IInv'
<1>1. TypeOK'
  BY DEF IInv, TypeOK, Frames, mappers, history, Postings
<1>2. QueueInv' /\ CopyInv' /\ QuietTrapHolds' /\ Popped' = Popped /\ Postings' = Postings
  BY DEF IInv, mappers, history, QueueInv, Popped, CopyInv, Accounted, QuietTrapHolds, Postings
<1>3. ASSUME NEW i \in DOMAIN stack'
      PROVE  /\ FrameType(stack'[i], Len(status'))
             /\ IsEvent(stack'[i]) =>
                  /\ Told(stack'[i], calls', interrupted', trapped')
                  /\ i < Len(stack') => stack'[i].pc \in {"trap", "listen"}
                  /\ CoveredBy(stack', i) /\ stack'[i].pc = "trap" => stack'[i].cur \in interrupted'
                  /\ ~CoveredBy(stack', i) => AtFront(stack'[i], postings')
  BY DEF IInv, StackInv, AtFront, history
<1>4. StackInv'
  BY <1>3 DEF StackInv, IsEvent, CoveredBy, Told, AtFront, FrameType, PostFrame, SweepFrame
<1>5. PostingInv'
  <2>1. postings = << >> => Popped = Len(status)
    <3>1. Len(<< >>) = 0 /\ Len(status) \in Nat
      BY Basics
    <3> QED
      BY <3>1 DEF Popped
  <2>2. \A n \in Postings : n > Popped => postings # << >>
    BY <2>1, Basics DEF Postings
  <2>3. \A n \in Postings : n > Popped => Held(stack', n)
    BY <2>2 DEF IInv, PostingInv, Held, IsEvent
  <2> QED
    BY <1>2, <2>3 DEF IInv, PostingInv, history, Finished
<1> QED
  BY <1>1, <1>2, <1>4, <1>5 DEF IInv

LEMMA StartSweepStep ==
  ASSUME IInv, StartSweep
  PROVE  IInv'
<1>1. /\ stack \in Seq(Frames) /\ Len(stack) \in Nat /\ DOMAIN stack = 1 .. Len(stack)
      /\ UNCHANGED <<mappers, postings, status, history>>
  BY Basics DEF StartSweep
<1>2. PICK sf \in SweepFrame : FrameType(sf, Len(status)) /\ ~IsEvent(sf) /\ stack' = Append(stack, sf)
  <2>1. ASSUME NEW op \in {"addTrapper", "removeTrapper", "removeListener"},
               NEW els \in SUBSET (IF op = "removeListener" THEN Listeners ELSE Trappers), Sweeping(op, els)
        PROVE  \E sf \in SweepFrame : FrameType(sf, Len(status)) /\ ~IsEvent(sf) /\ stack' = Append(stack, sf)
    <3>1. PICK el \in els : stack' = Append(stack, [for |-> "sweep", op |-> op, el |-> el, egid |-> 0])
      BY <2>1 DEF Sweeping
    <3> DEFINE sf == [for |-> "sweep", op |-> op, el |-> el, egid |-> 0]
    <3>2. sf \in SweepFrame /\ sf.for = "sweep" /\ sf.el = el /\ sf.op = op
      BY <2>1, GeneratorIDs DEF SweepFrame
    <3> HIDE DEF sf
    <3> QED
      BY <2>1, <3>1, <3>2 DEF FrameType, IsEvent, sf
  <2> QED
    BY <2>1 DEF StartSweep
<1>3. sf \in Frames
  BY DEF Frames
<1>4. /\ stack' \in Seq(Frames) /\ Len(stack') = Len(stack) + 1 /\ stack'[Len(stack) + 1] = sf
      /\ \A i \in 1 .. Len(stack) : stack'[i] = stack[i]
  BY <1>1, <1>2, <1>3, AppendProperties
<1>5. DOMAIN stack' = 1 .. Len(stack) + 1
  BY <1>4, LenProperties
<1>6. \A i \in 1 .. Len(stack) : CoveredBy(stack', i) <=> CoveredBy(stack, i)
  BY <1>1, <1>2, <1>4, <1>5 DEF CoveredBy
<1>7. \A i \in 1 .. Len(stack) : FrameType(stack[i], Len(status))
  BY <1>1 DEF IInv, StackInv
<1>8. stack # << >> /\ IsEvent(Top) => Top.pc \in {"trap", "listen"}
  BY DEF StartSweep, InUserCode, Calling
<1>9. \A i \in 1 .. Len(stack) : i < Len(stack) \/ (stack # << >> /\ stack[i] = Top)
  BY <1>1, Basics, EmptySeq
<1>10. \A i \in DOMAIN stack' :
           /\ FrameType(stack'[i], Len(status))
           /\ IsEvent(stack'[i]) =>
                /\ i \in DOMAIN stack /\ stack'[i] = stack[i]
                /\ i < Len(stack') => (i < Len(stack) \/ stack[i].pc \in {"trap", "listen"})
                /\ CoveredBy(stack', i) => CoveredBy(stack, i)
                /\ ~CoveredBy(stack', i) => (~CoveredBy(stack, i) \/ postings = << >>)
  <2>1. \A i \in DOMAIN stack' : i = Len(stack) + 1 \/ i \in 1 .. Len(stack)
    BY <1>1, <1>5
  <2> QED
    BY <1>1, <1>2, <1>4, <1>6, <1>7, <1>8, <1>9, <2>1
<1> QED
  BY <1>1, <1>4, <1>5, <1>10, StackStep

LEMMA SweepIdleStep ==
  ASSUME IInv, stack # << >>, Top.for = "sweep", Top.egid < numEGIDs,
         stack' = Append(Front(stack), [Top EXCEPT !.egid = @ + 1]),
         UNCHANGED <<mappers, postings, status, history>>
  PROVE  IInv'
<1> DEFINE sf == [Top EXCEPT !.egid = Top.egid + 1]
<1>1. /\ stack \in Seq(Frames) /\ Len(stack) \in Nat /\ Len(stack) > 0 /\ DOMAIN stack = 1 .. Len(stack)
      /\ Top = stack[Len(stack)] /\ Top \in Frames /\ FrameType(Top, Len(status))
  BY Basics
<1>2. Top \in SweepFrame /\ Top.el \in (IF Top.op = "removeListener" THEN Listeners ELSE Trappers)
  BY <1>1 DEF FrameType, PostFrame
<1>3. sf \in SweepFrame /\ FrameType(sf, Len(status)) /\ ~IsEvent(sf) /\ sf \in Frames
  <2>1. Top.egid + 1 \in 0 .. numEGIDs
    BY <1>2, GeneratorIDs DEF SweepFrame
  <2>2. sf \in SweepFrame /\ sf.for = "sweep" /\ sf.op = Top.op /\ sf.el = Top.el
    BY <1>2, <2>1 DEF SweepFrame
  <2> HIDE DEF sf
  <2> QED
    BY <1>2, <2>2 DEF FrameType, IsEvent, Frames
<1>4. SetTop(sf)
  BY DEF SetTop
<1> HIDE DEF sf
<1>5. /\ stack' \in Seq(Frames) /\ Len(stack') = Len(stack) /\ stack'[Len(stack)] = sf
      /\ \A i \in 1 .. Len(stack) - 1 : stack'[i] = stack[i]
  BY <1>1, <1>3, <1>4, ReplaceTop DEF Retopped
<1>6. DOMAIN stack' = 1 .. Len(stack)
  BY <1>5, LenProperties
<1>7. ~IsEvent(Top)
  BY DEF IsEvent
<1>8. \A i \in 1 .. Len(stack) : CoveredBy(stack', i) <=> CoveredBy(stack, i)
  <2>1. \A i \in 1 .. Len(stack) : i = Len(stack) \/ i \in 1 .. Len(stack) - 1
    BY <1>1, UpToLast
  <2>2. \A i \in 1 .. Len(stack) : IsEvent(stack'[i]) <=> IsEvent(stack[i])
    <3> SUFFICES ASSUME NEW i \in 1 .. Len(stack)
                 PROVE  IsEvent(stack'[i]) <=> IsEvent(stack[i])
      OBVIOUS
    <3>1. CASE i = Len(stack)
      <4>1. stack'[i] = sf /\ stack[i] = Top
        BY <1>1, <1>5, <3>1
      <4> QED
        BY <1>3, <1>7, <4>1
    <3>2. CASE i \in 1 .. Len(stack) - 1
      BY <1>5, <3>2
    <3> QED
      BY <2>1, <3>1, <3>2
  <2> QED
    BY <1>1, <1>6, <2>2 DEF CoveredBy
<1>9. \A i \in 1 .. Len(stack) : i = Len(stack) \/ (i \in 1 .. Len(stack) - 1 /\ i < Len(stack))
  BY <1>1, UpToLast
<1>10. \A i \in 1 .. Len(stack) : FrameType(stack[i], Len(status))
  BY <1>1 DEF IInv, StackInv
<1>11. \A i \in DOMAIN stack' :
           /\ FrameType(stack'[i], Len(status))
           /\ IsEvent(stack'[i]) =>
                /\ i \in DOMAIN stack /\ stack'[i] = stack[i]
                /\ i < Len(stack') => (i < Len(stack) \/ stack[i].pc \in {"trap", "listen"})
                /\ CoveredBy(stack', i) => CoveredBy(stack, i)
                /\ ~CoveredBy(stack', i) => (~CoveredBy(stack, i) \/ postings = << >>)
  BY <1>1, <1>3, <1>5, <1>6, <1>8, <1>9, <1>10
<1>12. \A i \in DOMAIN stack :
           IsEvent(stack[i]) => (i \in DOMAIN stack' /\ stack'[i] = stack[i]) \/ postings = << >>
  BY <1>1, <1>5, <1>6, <1>7, <1>9
<1> QED
  BY <1>5, <1>11, <1>12, StackStep

\* The last frame goes: a sweep is over, or a posting is and the queue is empty.
LEMMA PopStep ==
  ASSUME IInv, stack # << >>, ~IsEvent(Top) \/ postings = << >>, stack' = Front(stack),
         UNCHANGED <<mappers, postings, status, history>>
  PROVE  IInv'
<1>1. /\ stack \in Seq(Frames) /\ Len(stack) \in Nat /\ Len(stack) > 0 /\ DOMAIN stack = 1 .. Len(stack)
      /\ Top = stack[Len(stack)] /\ Top \in Frames
  BY Basics
<1>2. /\ stack' \in Seq(Frames) /\ Len(stack') = Len(stack) - 1
      /\ \A i \in 1 .. Len(stack) - 1 : stack'[i] = stack[i]
  <2>1. Front(stack) \in Seq(Frames)
    BY <1>1, TopFacts
  <2>2. Len(Front(stack)) = Len(stack) - 1
    BY <1>1, TopFacts
  <2>3. \A i \in 1 .. Len(stack) - 1 : Front(stack)[i] = stack[i]
    BY <1>1, TopFacts
  <2> QED
    BY <2>1, <2>2, <2>3
<1>3. DOMAIN stack' = 1 .. Len(stack) - 1
  BY <1>2, LenProperties
<1>4. \A i \in 1 .. Len(stack) : i = Len(stack) \/ (i \in 1 .. Len(stack) - 1 /\ i < Len(stack))
  BY <1>1, UpToLast
<1>5. \A i \in 1 .. Len(stack) - 1 : i \in 1 .. Len(stack) /\ i < Len(stack)
  BY <1>1
<1>6. \A i \in 1 .. Len(stack) - 1 :
        /\ CoveredBy(stack', i) => CoveredBy(stack, i)
        /\ CoveredBy(stack, i) => (CoveredBy(stack', i) \/ IsEvent(Top))
  BY <1>1, <1>2, <1>3, <1>4, <1>5 DEF CoveredBy
<1>7. \A i \in 1 .. Len(stack) : FrameType(stack[i], Len(status))
  BY <1>1 DEF IInv, StackInv
<1>8. \A i \in DOMAIN stack' :
           /\ FrameType(stack'[i], Len(status))
           /\ IsEvent(stack'[i]) =>
                /\ i \in DOMAIN stack /\ stack'[i] = stack[i]
                /\ i < Len(stack') => (i < Len(stack) \/ stack[i].pc \in {"trap", "listen"})
                /\ CoveredBy(stack', i) => CoveredBy(stack, i)
                /\ ~CoveredBy(stack', i) => (~CoveredBy(stack, i) \/ postings = << >>)
  BY <1>1, <1>2, <1>3, <1>5, <1>6, <1>7
<1>9. \A i \in DOMAIN stack :
           IsEvent(stack[i]) => (i \in DOMAIN stack' /\ stack'[i] = stack[i]) \/ postings = << >>
  BY <1>1, <1>2, <1>3, <1>4
<1> QED
  BY <1>2, <1>8, <1>9, StackStep

-------------------------------------------------------------------------------
(* Posting                                                                 *)

\* The frames on which processEvent() is called are those of the stack, but
\* for how far a sweep has come; the innermost posting is in user code.
Ready(fs) ==
  /\ fs \in Seq(Frames) /\ Len(fs) = Len(stack)
  /\ \A i \in 1 .. Len(stack) :
       /\ FrameType(fs[i], Len(status))
       /\ IsEvent(fs[i]) <=> IsEvent(stack[i])
       /\ IsEvent(stack[i]) => fs[i] = stack[i]
  /\ (stack # << >> /\ IsEvent(Top)) => Top.pc \in {"trap", "listen"}

LEMMA EnterStep ==
  ASSUME IInv, NEW fs, Ready(fs), NEW e \in EventBase, Enter(fs, e),
         listeners' \in Mapper(Listeners), trappers' \in Mapper(Trappers)
  PROVE  IInv'
<1> DEFINE m == Len(status)
           n0 == m + 1
           nf == [for |-> "event", post |-> n0, cur |-> 0, pc |-> "loop"]
           due == getMapping(listeners', e)
           r == [e |-> e, t |-> getMapping(trappers', e), l |-> due, due |-> due]
           gone == [n \in DOMAIN status |->
                      lost[n] \cup {el \in Listeners : ~verifyMapping(listeners', el, status[n].e)}]
<1>1. /\ n0 <= MaxPosts /\ n0 = NewPosting /\ status' = Append(status, r) /\ postings' = Append(postings, n0)
      /\ stack' = Append(fs, nf) /\ calls' = Append(calls, << >>) /\ lost' = Append(gone, {})
      /\ interrupted' = interrupted \cup BeingTrapped /\ trapped' = trapped
  BY DEF Enter, NewPosting
<1>2. TypeOK /\ QueueInv /\ StackInv /\ PostingInv /\ CopyInv /\ QuietTrapHolds
  BY DEF IInv
<1>3. /\ m \in Nat /\ Postings = 1 .. m /\ status \in Seq(Entry) /\ DOMAIN status = 1 .. m
      /\ stack \in Seq(Frames) /\ Len(stack) \in Nat /\ DOMAIN stack = 1 .. Len(stack)
      /\ postings \in Seq(Postings) /\ Len(postings) \in Nat /\ Popped \in Nat
      /\ calls \in Seq(Seq(Listeners)) /\ Len(calls) = m /\ lost \in Seq(SUBSET Listeners) /\ Len(lost) = m
  BY <1>2, Basics DEF Postings, TypeOK
<1>4. r \in Entry /\ r.e = e /\ r.l = due /\ r.due = due /\ due \in Seq(Listeners)
  <2>1. due \in Seq(Listeners) /\ getMapping(trappers', e) \in Seq(Trappers)
    BY GetType
  <2> HIDE DEF due
  <2> QED
    BY <2>1 DEF Entry
<1>5. n0 \in 1 .. MaxPosts /\ nf \in PostFrame /\ nf.for = "event" /\ nf.post = n0 /\ nf.pc = "loop" /\ n0 \in Nat
  <2>1. n0 \in 1 .. MaxPosts /\ 0 \in 0 .. MaxPosts /\ n0 \in Nat
    BY <1>1, <1>3, UserInputs
  <2> HIDE DEF n0
  <2> QED
    BY <2>1 DEF PostFrame
<1>6. gone \in Seq(SUBSET Listeners) /\ Len(gone) = m
  <2>1. \A n \in 1 .. m : gone[n] \in SUBSET Listeners
    BY <1>3, ElementOfSeq
  <2>2. gone \in [1 .. m -> SUBSET Listeners]
    BY <1>3, <2>1
  <2> HIDE DEF gone, m
  <2> QED
    BY <1>3, <2>2, SeqDef, LenProperties
<1>7. \A n \in 1 .. m, el \in Listeners :
        /\ gone[n] = lost[n] \cup {x \in Listeners : ~verifyMapping(listeners', x, status[n].e)}
        /\ el \notin gone[n] => (el \notin lost[n] /\ verifyMapping(listeners', el, status[n].e))
  BY <1>3
<1> HIDE DEF r, nf, gone, due
<1>8. /\ status' \in Seq(Entry) /\ Len(status') = n0 /\ status'[n0] = r /\ \A n \in 1 .. m : status'[n] = status[n]
  BY <1>1, <1>3, <1>4, AppendProperties
<1>9. /\ calls' \in Seq(Seq(Listeners)) /\ Len(calls') = n0 /\ calls'[n0] = << >> /\ \A n \in 1 .. m : calls'[n] = calls[n]
  <2>1. << >> \in Seq(Listeners)
    BY EmptySeq
  <2> DEFINE s == calls
             none == << >>
  <2>2. s \in Seq(Seq(Listeners)) /\ Len(s) = m /\ calls' = Append(s, none) /\ none \in Seq(Listeners)
    BY <1>1, <1>3, <2>1
  <2> HIDE DEF s, none
  <2>3. /\ Append(s, none) \in Seq(Seq(Listeners)) /\ Len(Append(s, none)) = m + 1 /\ Append(s, none)[m + 1] = none
        /\ \A n \in 1 .. m : Append(s, none)[n] = s[n]
    BY <2>2, AppendProperties
  <2> QED
    BY <2>2, <2>3 DEF s, none
<1>10. /\ lost' \in Seq(SUBSET Listeners) /\ Len(lost') = n0 /\ lost'[n0] = {} /\ \A n \in 1 .. m : lost'[n] = gone[n]
  BY <1>1, <1>6, AppendProperties
<1>11. /\ Postings' = 1 .. n0 /\ n0 \in Postings' /\ \A n \in Postings : n \in Postings'
       /\ \A n \in 1 .. n0 : n = n0 \/ n \in 1 .. m
  BY <1>3, <1>8 DEF Postings
<1>12. /\ postings' \in Seq(Postings') /\ Len(postings') = Len(postings) + 1
       /\ postings'[Len(postings) + 1] = n0
       /\ \A k \in 1 .. Len(postings) : postings'[k] = postings[k]
  <2>1. postings \in Seq(Postings')
    BY <1>3, <1>11, SeqMonotonic
  <2> QED
    BY <1>1, <1>3, <1>11, <2>1, AppendProperties
<1>13. Popped' = Popped
  BY <1>3, <1>8, <1>12 DEF Popped
<1>14. /\ stack' \in Seq(Frames) /\ Len(stack') = Len(stack) + 1 /\ stack'[Len(stack) + 1] = nf
       /\ \A i \in 1 .. Len(stack) : stack'[i] = fs[i]
  <2>1. nf \in Frames /\ fs \in Seq(Frames) /\ Len(fs) = Len(stack)
    BY <1>5 DEF Frames, Ready
  <2> QED
    BY <1>1, <2>1, AppendProperties
<1>15. DOMAIN stack' = 1 .. Len(stack) + 1 /\ \A i \in 1 .. Len(stack) + 1 : i = Len(stack) + 1 \/ i \in 1 .. Len(stack)
  BY <1>3, <1>14, LenProperties
<1>16. BeingTrapped \subseteq Postings
  <2> SUFFICES ASSUME NEW i \in DOMAIN stack, stack[i].for = "event", stack[i].pc = "trap"
               PROVE  stack[i].cur \in Postings
    BY DEF BeingTrapped
  <2>1. FrameType(stack[i], m)
    BY <1>2 DEF StackInv
  <2> QED
    BY <1>3, <2>1 DEF FrameType, SweepFrame
<1> HIDE DEF n0, m
<1>17. TypeOK'
  <2>1. heard' \in [Listeners -> SUBSET EGIDs]
    BY <1>2 DEF TypeOK, Enter
  <2>2. steady' \in SUBSET Listeners
    BY <1>2 DEF TypeOK, Enter
  <2>3. trapped' \in SUBSET Postings' /\ interrupted' \in SUBSET Postings'
    BY <1>1, <1>2, <1>11, <1>16 DEF TypeOK
  <2> QED
    BY <1>8, <1>9, <1>10, <1>12, <1>14, <2>1, <2>2, <2>3 DEF TypeOK, Frames, Entry, Mapper
<1>18. QueueInv'
  <2>1. Len(postings) <= m /\ n0 = m + 1 /\ m - Len(postings) + (Len(postings) + 1) = n0
    BY <1>2, <1>3 DEF QueueInv, m, n0
  <2>2. \A k \in 1 .. Len(postings) + 1 : k = Len(postings) + 1 \/ k \in 1 .. Len(postings)
    BY <1>3
  <2>3. Popped + (Len(postings) + 1) = n0
    BY <2>1 DEF Popped, m
  <2>4. \A k \in 1 .. Len(postings') : postings'[k] = Popped' + k
    BY <1>2, <1>12, <1>13, <2>2, <2>3 DEF QueueInv
  <2>5. Len(postings') <= Len(status')
    BY <1>3, <1>8, <1>12, <2>1
  <2> QED
    BY <2>4, <2>5 DEF QueueInv
<1>19. ASSUME NEW i \in 1 .. Len(stack) + 1
       PROVE  /\ FrameType(stack'[i], Len(status'))
              /\ IsEvent(stack'[i]) =>
                   /\ Told(stack'[i], calls', interrupted', trapped')
                   /\ i < Len(stack') => stack'[i].pc \in {"trap", "listen"}
                   /\ CoveredBy(stack', i) /\ stack'[i].pc = "trap" => stack'[i].cur \in interrupted'
                   /\ ~CoveredBy(stack', i) => AtFront(stack'[i], postings')
  <2>1. CASE i = Len(stack) + 1
    <3>1. stack'[i] = nf /\ ~(i < Len(stack'))
      BY <1>3, <1>14, <2>1
    <3>2. ~CoveredBy(stack', i)
      BY <1>3, <1>15, <2>1 DEF CoveredBy
    <3>3. FrameType(nf, n0)
      BY <1>5 DEF FrameType
    <3> QED
      BY <1>5, <1>8, <3>1, <3>2, <3>3 DEF Told, AtFront
  <2>2. CASE i \in 1 .. Len(stack)
    <3>1. stack'[i] = fs[i] /\ FrameType(fs[i], m) /\ (IsEvent(fs[i]) => fs[i] = stack[i])
      BY <1>14, <2>2 DEF Ready, m
    <3>2. FrameType(fs[i], n0)
      BY <1>3, <3>1 DEF FrameType, n0, m
    <3>3. ASSUME IsEvent(stack'[i])
          PROVE  /\ Told(stack'[i], calls', interrupted', trapped')
                 /\ stack'[i].pc \in {"trap", "listen"}
                 /\ stack'[i].pc = "trap" => stack'[i].cur \in interrupted'
                 /\ CoveredBy(stack', i)
      <4>1. stack'[i] = stack[i] /\ IsEvent(stack[i])
        BY <3>1, <3>3
      <4>2. Told(stack[i], calls, interrupted, trapped) /\ (stack[i].pc # "loop" => stack[i].cur \in 1 .. m)
        BY <1>2, <1>3, <2>2, <3>1, <4>1 DEF StackInv, FrameType, SweepFrame, IsEvent, m
      <4>3. Told(stack[i], calls', interrupted', trapped')
        BY <1>1, <1>9, <4>2 DEF Told
      <4>4. stack[i].pc \in {"trap", "listen"}
        <5>1. CASE i = Len(stack)
          <6>1. stack # << >> /\ stack[i] = Top
            BY <1>3, <2>2, <5>1, Basics, EmptySeq
          <6> QED
            BY <4>1, <6>1 DEF Ready
        <5>2. CASE i # Len(stack)
          <6>1. i < Len(stack)
            BY <1>3, <2>2, <5>2, UpToLast
          <6> QED
            BY <1>2, <1>3, <2>2, <4>1, <6>1 DEF StackInv
        <5> QED
          BY <5>1, <5>2
      <4>5. stack[i].pc = "trap" => stack[i].cur \in BeingTrapped
        BY <1>3, <2>2, <4>1 DEF BeingTrapped, IsEvent
      <4>6. CoveredBy(stack', i)
        <5>1. Len(stack) + 1 \in DOMAIN stack' /\ IsEvent(stack'[Len(stack) + 1])
          BY <1>3, <1>5, <1>14, <1>15 DEF IsEvent
        <5>2. i < Len(stack) + 1
          BY <1>3, <2>2
        <5> QED
          BY <5>1, <5>2 DEF CoveredBy
      <4> QED
        BY <1>1, <4>1, <4>3, <4>4, <4>5, <4>6
    <3> QED
      BY <1>8, <3>1, <3>2, <3>3
  <2> QED
    BY <1>15, <2>1, <2>2
<1>20. StackInv'
  BY <1>15, <1>19 DEF StackInv, IsEvent, CoveredBy, Told, AtFront, FrameType, PostFrame, SweepFrame
<1>21. PostingInv'
  <2>1. ASSUME NEW n \in 1 .. m, Held(stack, n) PROVE Held(stack', n)
    <3>1. PICK i \in 1 .. Len(stack) : IsEvent(stack[i]) /\ stack[i].post = n
      BY <1>3, <2>1 DEF Held
    <3>2. i \in DOMAIN stack' /\ IsEvent(stack'[i]) /\ stack'[i].post = n
      BY <1>3, <1>14, <1>15, <3>1 DEF Ready
    <3> QED
      BY <3>2 DEF Held, IsEvent
  <2>2. Held(stack', n0)
    <3>1. Len(stack) + 1 \in DOMAIN stack'
      BY <1>3, <1>15
    <3> QED
      BY <1>5, <1>14, <3>1 DEF Held, IsEvent
  <2>3. n0 > Popped
    BY <1>2, <1>3 DEF Popped, n0, m, QueueInv
  <2>4. ASSUME NEW n \in 1 .. m
        PROVE  /\ n > Popped => Held(stack', n)
               /\ n <= Popped => Finished(n)'
               /\ n > Popped + 1 => calls'[n] = << >>
               /\ calls'[n] # << >> => status'[n].t = << >>
    <3>1. n \in Postings /\ status'[n] = status[n] /\ calls'[n] = calls[n]
      BY <1>3, <1>8, <1>9 DEF m
    <3>2. Finished(n) => Finished(n)'
      BY <1>1, <3>1 DEF Finished
    <3> QED
      BY <1>2, <2>1, <3>1, <3>2 DEF PostingInv
  <2> HIDE DEF n0
  <2>5. \A n \in Postings' :
          /\ n > Popped' => Held(stack', n)
          /\ n <= Popped' => Finished(n)'
          /\ n > Popped' + 1 => calls'[n] = << >>
          /\ calls'[n] # << >> => status'[n].t = << >>
    <3>1. ~(n0 <= Popped)
      BY <1>3, <1>5, <2>3
    <3> QED
      BY <1>9, <1>11, <1>13, <2>2, <2>4, <3>1
  <2>6. \A n \in trapped' : n <= Popped'
    BY <1>1, <1>2, <1>13 DEF PostingInv
  <2> QED
    BY <2>5, <2>6 DEF PostingInv
<1>22. CopyInv'
  <2>1. ASSUME NEW n \in 1 .. m, NEW el \in Listeners
        PROVE  /\ Copies(calls'[n], el) + Copies(status'[n].l, el) <= Copies(status'[n].due, el)
               /\ el \notin lost'[n] =>
                   /\ Copies(calls'[n], el) + Copies(status'[n].l, el) = Copies(status'[n].due, el)
                   /\ Copies(status'[n].due, el) > 0 => verifyMapping(listeners', el, status'[n].e)
    <3>1. n \in Postings /\ status'[n] = status[n] /\ calls'[n] = calls[n] /\ lost'[n] = gone[n]
      BY <1>3, <1>8, <1>9, <1>10 DEF m
    <3>2. el \notin gone[n] => (el \notin lost[n] /\ verifyMapping(listeners', el, status[n].e))
      BY <1>7
    <3> QED
      BY <1>2, <3>1, <3>2 DEF CopyInv, Accounted
  <2>2. ASSUME NEW el \in Listeners
        PROVE  /\ Copies(calls'[n0], el) + Copies(status'[n0].l, el) <= Copies(status'[n0].due, el)
               /\ el \notin lost'[n0] =>
                   /\ Copies(calls'[n0], el) + Copies(status'[n0].l, el) = Copies(status'[n0].due, el)
                   /\ Copies(status'[n0].due, el) > 0 => verifyMapping(listeners', el, status'[n0].e)
    <3>1. calls'[n0] = << >> /\ status'[n0].l = due /\ status'[n0].due = due /\ status'[n0].e = e
      BY <1>4, <1>8, <1>9
    <3>2. Copies(<< >>, el) = 0 /\ Copies(due, el) \in Nat
      BY <1>4, CopiesEmpty, CopiesNat
    <3>3. Copies(due, el) > 0 => Contains(due, el)
      BY <1>4, CopiesNat
    <3>4. Contains(due, el) => verifyMapping(listeners', el, e)
      BY DEF verifyMapping, due
    <3> QED
      BY <3>1, <3>2, <3>3, <3>4
  <2>3. \A n \in Postings', el \in Listeners :
          /\ Copies(calls'[n], el) + Copies(status'[n].l, el) <= Copies(status'[n].due, el)
          /\ el \notin lost'[n] =>
               /\ Copies(calls'[n], el) + Copies(status'[n].l, el) = Copies(status'[n].due, el)
               /\ Copies(status'[n].due, el) > 0 => verifyMapping(listeners', el, status'[n].e)
    BY <1>11, <2>1, <2>2
  <2> QED
    BY <2>3 DEF CopyInv, Accounted, Copies
<1>23. QuietTrapHolds'
  <2>1. \A n \in trapped : n \in 1 .. m
    BY <1>2, <1>3 DEF TypeOK, m
  <2> QED
    BY <1>1, <1>2, <1>9, <2>1 DEF QuietTrapHolds
<1> QED
  BY <1>17, <1>18, <1>20, <1>21, <1>22, <1>23 DEF IInv

LEMMA PostEventStep ==
  ASSUME IInv, NEW e \in Events, postEvent(e)
  PROVE  IInv'
<1>1. Ready(stack)
  <2>1. (stack # << >> /\ IsEvent(Top)) => Top.pc \in {"trap", "listen"}
    BY DEF postEvent, InUserCode, Calling
  <2> QED
    BY <2>1, Basics DEF Ready, IInv, StackInv
<1>2. Enter(stack, e) /\ listeners' = listeners /\ trappers' = trappers
  BY DEF postEvent, mappers
<1> QED
  BY <1>1, <1>2, UserInputs, EnterStep DEF IInv, TypeOK

LEMMA ChangeStep ==
  ASSUME IInv, NEW fs, Ready(fs), NEW w \in Scope, NEW el,
         \/ el \in Listeners /\ (addListener(fs, el, w) \/ removeListener(fs, el, w))
         \/ el \in Trappers /\ (addTrapper(fs, el, w) \/ removeTrapper(fs, el, w))
  PROVE  IInv'
<1>1. listeners \in Mapper(Listeners) /\ trappers \in Mapper(Trappers) /\ w.egid \in EGIDs
  BY DEF IInv, TypeOK, Scope
<1>2. \A etid \in ETIDs : About(w.egid, etid) \in EventBase
  BY <1>1, GeneratorIDs DEF About, EventBase, SIDs
<1>3. AnnounceAdded(w.egid) \in EventBase /\ AnnounceRemoved(w.egid) \in EventBase
  <2>1. {"activate", "status", "deactivate"} = ETIDs
    BY DEF ETIDs
  <2> QED
    BY <1>2, <2>1 DEF AnnounceAdded, AnnounceRemoved
<1>4. CASE el \in Listeners /\ addListener(fs, el, w)
  BY <1>1, <1>3, <1>4, AddType, EnterStep DEF addListener
<1>5. CASE el \in Listeners /\ removeListener(fs, el, w)
  BY <1>1, <1>3, <1>5, RemoveType, EnterStep DEF removeListener
<1>6. CASE el \in Trappers /\ addTrapper(fs, el, w)
  BY <1>1, <1>3, <1>6, AddType, EnterStep DEF addTrapper
<1>7. CASE el \in Trappers /\ removeTrapper(fs, el, w)
  BY <1>1, <1>3, <1>7, RemoveType, EnterStep DEF removeTrapper
<1> QED
  BY <1>4, <1>5, <1>6, <1>7

LEMMA SubscribeStep ==
  ASSUME IInv, Subscribe
  PROVE  IInv'
<1>1. Ready(stack)
  <2>1. (stack # << >> /\ IsEvent(Top)) => Top.pc \in {"trap", "listen"}
    BY DEF Subscribe, InUserCode, Calling
  <2> QED
    BY <2>1, Basics DEF Ready, IInv, StackInv
<1>2. \A w \in Scopes : w \in Scope
  BY UserInputs
<1> QED
  BY <1>1, <1>2, ChangeStep DEF Subscribe

LEMMA SweepStepInv ==
  ASSUME IInv, Sweep
  PROVE  IInv'
<1> DEFINE w == [egid |-> Top.egid, sid |-> Every, etid |-> Every]
           sf == [Top EXCEPT !.egid = Top.egid + 1]
           fs == Append(Front(stack), sf)
<1>1. /\ stack # << >> /\ Top.for = "sweep" /\ stack \in Seq(Frames) /\ Len(stack) \in Nat /\ Len(stack) > 0
      /\ DOMAIN stack = 1 .. Len(stack) /\ Top = stack[Len(stack)] /\ Top \in Frames
      /\ FrameType(Top, Len(status))
  BY Basics DEF Sweep
<1>2. Top \in SweepFrame /\ Top.el \in (IF Top.op = "removeListener" THEN Listeners ELSE Trappers)
  BY <1>1 DEF FrameType, PostFrame
<1>3. CASE Top.egid < numEGIDs /\ SweepStep(Top.el, w, fs)
  <2>1. sf \in SweepFrame /\ FrameType(sf, Len(status)) /\ ~IsEvent(sf) /\ sf \in Frames
    <3>1. Top.egid + 1 \in 0 .. numEGIDs
      BY <1>2, <1>3, GeneratorIDs DEF SweepFrame
    <3>2. sf \in SweepFrame /\ sf.for = "sweep" /\ sf.op = Top.op /\ sf.el = Top.el
      BY <1>2, <3>1 DEF SweepFrame
    <3> HIDE DEF sf
    <3> QED
      BY <1>2, <3>2 DEF FrameType, IsEvent, Frames
  <2>2. Ready(fs)
    <3> HIDE DEF sf
    <3>1. fs \in Seq(Frames) /\ Len(fs) = Len(stack)
      BY <1>1, <2>1, NewTop
    <3>2. fs[Len(stack)] = sf
      BY <1>1, <2>1, NewTop
    <3>3. \A i \in 1 .. Len(stack) - 1 : fs[i] = stack[i]
      BY <1>1, <2>1, NewTop
    <3> HIDE DEF fs
    <3>4. \A i \in 1 .. Len(stack) : FrameType(stack[i], Len(status))
      BY <1>1 DEF IInv, StackInv
    <3>5. ~IsEvent(Top)
      BY <1>1 DEF IsEvent
    <3>6. \A i \in 1 .. Len(stack) : i = Len(stack) \/ i \in 1 .. Len(stack) - 1
      BY <1>1, UpToLast
    <3> QED
      BY <1>1, <2>1, <3>1, <3>2, <3>3, <3>4, <3>5, <3>6 DEF Ready
  <2>3. w \in Scope
    <3>1. Top.egid \in EGIDs
      BY <1>2, <1>3, GeneratorIDs DEF SweepFrame, EGIDs
    <3> QED
      BY <3>1 DEF Scope
  <2> HIDE DEF fs, w
  <2>4. \/ Top.el \in Listeners /\ removeListener(fs, Top.el, w)
        \/ Top.el \in Trappers /\ (addTrapper(fs, Top.el, w) \/ removeTrapper(fs, Top.el, w))
    BY <1>2, <1>3 DEF SweepStep
  <2> QED
    BY <2>2, <2>3, <2>4, ChangeStep
<1>4. CASE /\ Top.egid < numEGIDs /\ stack' = fs
           /\ UNCHANGED <<mappers, postings, status, history>>
  BY <1>1, <1>4, SweepIdleStep
<1>5. CASE /\ Top.egid = numEGIDs /\ stack' = Front(stack)
           /\ UNCHANGED <<mappers, postings, status, history>>
  BY <1>1, <1>5, PopStep DEF IsEvent
<1> QED
  BY <1>3, <1>4, <1>5 DEF Sweep

LEMMA ReturnStep ==
  ASSUME IInv, Return
  PROVE  IInv'
  BY PopStep DEF Return, InLoop, Calling, Again

-------------------------------------------------------------------------------
(* Processing                                                              *)

\* What Basics says of a frame at the top that is processing.
LEMMA AtWork ==
  ASSUME IInv, stack # << >>, Top.for = "event", Top.pc # "loop"
  PROVE  /\ IsEvent(Top) /\ Top \in PostFrame /\ Top.cur \in Postings /\ Top.cur <= MaxPosts
         /\ Cur \in Entry /\ Cur = status[Top.cur] /\ Top.cur \in Nat /\ Top.cur <= Popped + 1
         /\ Told(Top, calls, interrupted, trapped) /\ AtFront(Top, postings)
         /\ stack \in Seq(Frames) /\ Top.cur \in 1 .. Len(status) /\ Len(stack) \in Nat \ {0}
<1>1. /\ FrameType(Top, Len(status)) /\ Told(Top, calls, interrupted, trapped) /\ AtFront(Top, postings)
      /\ IsEvent(Top) /\ Len(status) \in Nat /\ Popped \in Nat /\ stack \in Seq(Frames)
      /\ Len(stack) \in Nat /\ Len(stack) > 0
  BY Basics DEF IsEvent
<1>2. Top \in PostFrame /\ Top.cur \in 1 .. Len(status) /\ Top.cur <= MaxPosts
  BY <1>1, UserInputs DEF FrameType, SweepFrame, PostFrame
<1>3. Cur \in Entry /\ Top.cur \in Postings
  BY <1>2, Basics DEF Cur, Postings
<1>4. Top.cur <= Popped + 1
  <2>1. CASE postings = << >>
    <3>1. Len(<< >>) = 0
      OBVIOUS
    <3>2. Popped = Len(status)
      BY <1>1, <2>1, <3>1 DEF Popped
    <3> QED
      BY <1>1, <1>2, <3>2
  <2>2. CASE postings # << >>
    <3>1. Top.cur = Popped + 1
      BY <1>1, <2>2, Basics DEF AtFront
    <3> QED
      BY <1>1, <1>2, <3>1
  <2> QED
    BY <2>1, <2>2
<1> QED
  BY <1>1, <1>2, <1>3, <1>4 DEF Cur

\* A frame is given another place in the loop, or another posting.
LEMMA NewFrame ==
  ASSUME IInv, stack # << >>, Top.for = "event",
         NEW c \in 1 .. Len(status), c <= MaxPosts,
         NEW pc \in {"loop", "process", "trap", "listen"}
  PROVE  LET nf == [Top EXCEPT !.cur = c, !.pc = pc]
         IN  /\ nf \in PostFrame /\ nf \in Frames /\ IsEvent(nf) /\ FrameType(nf, Len(status))
             /\ nf.cur = c /\ nf.pc = pc /\ nf.post = Top.post
<1> DEFINE nf == [Top EXCEPT !.cur = c, !.pc = pc]
<1>1. Top \in PostFrame /\ Top.post \in 1 .. Len(status) /\ Len(status) \in Nat
  BY Basics DEF FrameType, SweepFrame
<1>2. c \in 0 .. MaxPosts
  BY <1>1, UserInputs
<1>3. nf \in PostFrame /\ nf.cur = c /\ nf.pc = pc /\ nf.post = Top.post /\ nf.for = "event"
  BY <1>1, <1>2 DEF PostFrame
<1> HIDE DEF nf
<1>4. FrameType(nf, Len(status)) /\ IsEvent(nf) /\ nf \in Frames
  BY <1>1, <1>3 DEF FrameType, IsEvent, Frames
<1> QED
  BY <1>3, <1>4 DEF nf

\* Nothing but the innermost frame changes.
LEMMA FrameStep ==
  ASSUME IInv, stack # << >>, Top.for = "event", UNCHANGED <<mappers, postings, status, history>>,
         NEW nf, Retopped(nf), nf \in Frames, IsEvent(nf), FrameType(nf, Len(status)),
         nf.post = Top.post, Told(nf, calls, interrupted, trapped), AtFront(nf, postings)
  PROVE  IInv'
<1>1. /\ IsEvent(Top) /\ calls' = calls /\ interrupted' = interrupted /\ trapped' = trapped
      /\ postings' = postings /\ status' = status /\ Postings' = Postings /\ Popped' = Popped
  BY DEF IsEvent, history, Postings, Popped
<1>2. DOMAIN stack = 1 .. Len(stack) /\ Len(stack) \in Nat
  BY Basics
<1>3. \A i \in 1 .. Len(stack) - 1 : IsEvent(stack[i]) => Told(stack[i], calls, interrupted, trapped)
  <2>1. \A i \in 1 .. Len(stack) - 1 : i \in 1 .. Len(stack)
    BY <1>2
  <2> QED
    BY <1>2, <2>1 DEF IInv, StackInv
<1>4. StackInv' /\ stack' \in Seq(Frames) /\ \A n : Held(stack, n) => Held(stack', n)
  BY <1>1, <1>3, SetTopStep
<1>5. TypeOK'
  BY <1>4 DEF IInv, TypeOK, Frames, mappers, history, Postings
<1>6. QueueInv' /\ CopyInv' /\ QuietTrapHolds'
  BY DEF IInv, mappers, history, QueueInv, Popped, CopyInv, Accounted, QuietTrapHolds, Postings
<1>7. PostingInv'
  BY <1>1, <1>4 DEF IInv, PostingInv, Finished
<1> QED
  BY <1>4, <1>5, <1>6, <1>7 DEF IInv

LEMMA ProcessFrontStep ==
  ASSUME IInv, ProcessFront
  PROVE  IInv'
<1> DEFINE nf == [Top EXCEPT !.cur = Head(postings), !.pc = "process"]
<1>1. /\ stack # << >> /\ Top.for = "event" /\ Top.pc = "loop" /\ postings # << >> /\ SetTop(nf)
      /\ UNCHANGED <<mappers, postings, status, history>>
  BY DEF ProcessFront, InLoop, Calling, Again
<1>2. Head(postings) \in Postings /\ Head(postings) = Popped + 1 /\ stack \in Seq(Frames) /\ Popped \in Nat
  BY <1>1, Basics
<1>3. Head(postings) <= MaxPosts
  <2>1. Held(stack, Head(postings))
    BY <1>2 DEF IInv, PostingInv
  <2>2. PICK i \in DOMAIN stack : IsEvent(stack[i]) /\ stack[i].post = Head(postings)
    BY <2>1 DEF Held
  <2>3. stack[i] \in PostFrame
    BY <2>2 DEF IInv, StackInv, FrameType, SweepFrame, IsEvent
  <2> QED
    BY <2>2, <2>3, UserInputs DEF PostFrame
<1>4. /\ nf \in Frames /\ IsEvent(nf) /\ FrameType(nf, Len(status))
      /\ nf.cur = Head(postings) /\ nf.pc = "process" /\ nf.post = Top.post
  BY <1>1, <1>2, <1>3, NewFrame DEF Postings
<1> HIDE DEF nf
<1>5. Retopped(nf)
  BY <1>1, <1>2, <1>4, ReplaceTop
<1>6. Head(postings) \notin trapped
  BY <1>2 DEF IInv, PostingInv
<1>7. Told(nf, calls, interrupted, trapped) /\ AtFront(nf, postings)
  BY <1>4, <1>6 DEF Told, AtFront
<1> QED
  BY <1>1, <1>4, <1>5, <1>7, FrameStep

\* A callback returns, and process() goes on.
LEMMA ReturnsStep ==
  ASSUME IInv, stack # << >>, Top.for = "event", Top.pc \in {"trap", "listen"},
         SetTop([Top EXCEPT !.pc = "process"]), UNCHANGED <<mappers, postings, status, history>>
  PROVE  IInv'
<1> DEFINE nf == [Top EXCEPT !.cur = Top.cur, !.pc = "process"]
<1>1. /\ Top \in PostFrame /\ Top.cur \in 1 .. Len(status) /\ Top.cur <= MaxPosts /\ stack \in Seq(Frames)
      /\ Told(Top, calls, interrupted, trapped) /\ AtFront(Top, postings)
  BY AtWork
<1>2. /\ nf \in Frames /\ IsEvent(nf) /\ FrameType(nf, Len(status))
      /\ nf.cur = Top.cur /\ nf.pc = "process" /\ nf.post = Top.post
  BY <1>1, NewFrame
<1>3. SetTop(nf)
  <2>1. nf = [Top EXCEPT !.pc = "process"]
    BY <1>1 DEF PostFrame
  <2> HIDE DEF nf
  <2> QED
    BY <2>1
<1> HIDE DEF nf
<1>4. Retopped(nf)
  BY <1>1, <1>2, <1>3, ReplaceTop
<1>5. Told(nf, calls, interrupted, trapped) /\ AtFront(nf, postings)
  BY <1>1, <1>2 DEF Told, AtFront
<1> QED
  BY <1>2, <1>4, <1>5, FrameStep

\* The posting in process() is through, and the front of the queue is popped.
LEMMA PopPosting ==
  ASSUME IInv, stack # << >>, Top.for = "event", Top.pc # "loop", postings' = Pop, status' = status
  PROVE  /\ postings' \in Seq(Postings) /\ QueueInv' /\ Popped' \in Nat /\ Popped <= Popped'
         /\ Postings' = Postings /\ Top.cur <= Popped'
         /\ \A n \in Postings : n <= Popped' => n <= Popped \/ n = Top.cur
<1>1. /\ postings \in Seq(Postings) /\ Len(postings) \in Nat /\ Popped \in Nat /\ Len(status) \in Nat
      /\ Postings = 1 .. Len(status) /\ Popped = Len(status) - Len(postings) /\ Len(postings) <= Len(status)
      /\ \A k \in 1 .. Len(postings) : postings[k] = Popped + k
  BY Basics DEF Postings, Popped, IInv, QueueInv
<1>2. Top.cur \in Postings /\ AtFront(Top, postings)
  BY AtWork
<1>3. Postings' = Postings
  BY DEF Postings
<1>4. CASE postings = << >>
  <2>1. postings' = postings /\ Len(postings) = 0
    BY <1>4 DEF Pop
  <2>2. Popped' = Popped /\ Popped = Len(status)
    BY <1>1, <2>1 DEF Popped
  <2>3. QueueInv'
    BY <1>1, <2>1, <2>2 DEF QueueInv
  <2> QED
    BY <1>1, <1>2, <1>3, <2>1, <2>2, <2>3
<1>5. CASE postings # << >>
  <2>1. Top.cur = Popped + 1 /\ postings' = Tail(postings) /\ Len(postings) > 0
    BY <1>2, <1>5, Basics, AtWork DEF AtFront, Pop
  <2>2. /\ postings' \in Seq(Postings) /\ Len(postings') = Len(postings) - 1
        /\ \A k \in 1 .. Len(postings) - 1 : postings'[k] = postings[k + 1]
    BY <1>1, <1>5, <2>1, HeadTailProperties
  <2>3. Popped' = Popped + 1
    <3>1. Len(status) - (Len(postings) - 1) = Len(status) - Len(postings) + 1
      BY <1>1
    <3> QED
      BY <1>1, <2>2, <3>1 DEF Popped
  <2>4. \A k \in 1 .. Len(postings) - 1 : k + 1 \in 1 .. Len(postings) /\ Popped + (k + 1) = (Popped + 1) + k
    BY <1>1
  <2>5. QueueInv'
    <3>1. Len(postings') <= Len(status')
      BY <1>1, <2>1, <2>2
    <3>2. \A k \in 1 .. Len(postings') : postings'[k] = Popped' + k
      BY <1>1, <2>2, <2>3, <2>4
    <3> QED
      BY <3>1, <3>2 DEF QueueInv
  <2>6. \A n \in Postings : n <= Popped + 1 => n <= Popped \/ n = Popped + 1
    BY <1>1
  <2> QED
    BY <1>1, <1>3, <2>1, <2>2, <2>3, <2>5, <2>6
<1> QED
  BY <1>4, <1>5

LEMMA EndStep ==
  ASSUME IInv, stack # << >>, Top.for = "event", Top.pc # "loop", EndProcess,
         UNCHANGED <<mappers, status, calls, lost, interrupted, heard, steady>>,
         \/ trapped' = trapped \cup {Top.cur} /\ Top.pc = "trap"
         \/ trapped' = trapped /\ Cur.t = << >> /\ Cur.l = << >>
  PROVE  IInv'
<1> DEFINE c == Top.cur
           nf == [Top EXCEPT !.cur = c, !.pc = "loop"]
<1>1. /\ Top \in PostFrame /\ c \in 1 .. Len(status) /\ c \in Postings /\ c <= MaxPosts /\ stack \in Seq(Frames)
      /\ Told(Top, calls, interrupted, trapped) /\ IsEvent(Top) /\ Cur = status[c]
      /\ Len(stack) \in Nat \ {0}
  BY AtWork
<1>2. nf \in Frames /\ IsEvent(nf) /\ FrameType(nf, Len(status)) /\ nf.pc = "loop" /\ nf.post = Top.post
  BY <1>1, NewFrame
<1>3. SetTop(nf) /\ postings' = Pop
  <2>1. nf = [Top EXCEPT !.pc = "loop"]
    BY <1>1 DEF PostFrame
  <2> HIDE DEF nf
  <2> QED
    BY <2>1 DEF EndProcess
<1> HIDE DEF nf
<1>4. Retopped(nf)
  BY <1>1, <1>2, <1>3, ReplaceTop
<1>5. /\ postings' \in Seq(Postings) /\ QueueInv' /\ Popped' \in Nat /\ Popped <= Popped'
      /\ Postings' = Postings /\ c <= Popped'
      /\ \A n \in Postings : n <= Popped' => n <= Popped \/ n = c
  BY <1>3, PopPosting
<1>6. Told(nf, calls, interrupted, trapped') /\ AtFront(nf, postings')
  BY <1>2 DEF Told, AtFront
<1>7. DOMAIN stack = 1 .. Len(stack) /\ Top = stack[Len(stack)]
  BY <1>1, Basics
<1>8. ASSUME NEW i \in 1 .. Len(stack) - 1, IsEvent(stack[i])
      PROVE  Told(stack[i], calls, interrupted, trapped')
  <2>1. i \in DOMAIN stack /\ i < Len(stack) /\ Len(stack) \in DOMAIN stack
    BY <1>1, <1>7
  <2>2. CoveredBy(stack, i)
    BY <1>1, <1>7, <2>1 DEF CoveredBy
  <2>3. /\ Told(stack[i], calls, interrupted, trapped) /\ stack[i].pc \in {"trap", "listen"}
        /\ stack[i].pc = "trap" => stack[i].cur \in interrupted
    BY <1>8, <2>1, <2>2 DEF IInv, StackInv
  <2>4. ASSUME stack[i].cur \in trapped' PROVE stack[i].cur \in interrupted
    <3>1. CASE stack[i].cur \in trapped
      BY <2>3, <3>1 DEF Told
    <3>2. CASE stack[i].cur = c /\ Top.pc = "trap"
      <4>1. calls[c] = << >> \/ c \in interrupted
        BY <1>1, <3>2 DEF Told
      <4> QED
        BY <2>3, <3>2, <4>1 DEF Told
    <3> QED
      BY <2>4, <3>1, <3>2
  <2> QED
    BY <2>3, <2>4 DEF Told
<1> HIDE DEF c
<1>9. StackInv' /\ stack' \in Seq(Frames) /\ \A n : Held(stack, n) => Held(stack', n)
  BY <1>1, <1>2, <1>4, <1>6, <1>8, SetTopStep
<1>10. trapped \subseteq trapped' /\ trapped' \subseteq trapped \cup {c}
  BY DEF c
<1>11. TypeOK'
  <2>1. trapped' \in SUBSET Postings'
    BY <1>1, <1>5, <1>10 DEF IInv, TypeOK
  <2> QED
    BY <1>5, <1>9, <2>1 DEF IInv, TypeOK, Frames, mappers
<1>12. CopyInv'
  BY <1>5 DEF IInv, mappers, CopyInv, Accounted
<1>13. QuietTrapHolds'
  <2>1. c \in trapped' /\ c \notin trapped => Top.pc = "trap"
    BY DEF c
  <2>2. c \in trapped' /\ c \notin interrupted => calls[c] = << >>
    BY <1>1, <2>1 DEF Told, c, IInv, QuietTrapHolds
  <2> QED
    BY <1>10, <2>2 DEF IInv, QuietTrapHolds
<1>14. PostingInv'
  <2>1. \A n \in trapped' : n <= Popped'
    <3>1. \A n \in trapped : n <= Popped /\ n \in Nat
      BY <1>1 DEF IInv, TypeOK, PostingInv, Postings
    <3>2. \A n \in trapped : n <= Popped'
      BY <1>5, <3>1, Basics
    <3> QED
      BY <1>5, <1>10, <3>2
  <2>2. \A n \in Postings : n = c => Finished(n)'
    BY <1>1 DEF Finished, c
  <2>3. ASSUME NEW n \in Postings
        PROVE  /\ n > Popped' => Held(stack', n)
               /\ n <= Popped' => Finished(n)'
               /\ n > Popped' + 1 => calls[n] = << >>
               /\ calls[n] # << >> => status[n].t = << >>
    <3>1. n > Popped' => n > Popped
      BY <1>5, Basics DEF Postings
    <3>2. n > Popped' + 1 => n > Popped + 1
      <4>1. Popped \in Nat /\ n \in Nat
        BY Basics DEF Postings
      <4>2. Popped' \in Nat /\ Popped <= Popped'
        BY <1>5
      <4>3. \A x, y, z \in Nat : x <= y /\ z > y + 1 => z > x + 1
        OBVIOUS
      <4> QED
        BY <4>1, <4>2, <4>3
    <3>3. Finished(n) => Finished(n)'
      BY <1>10 DEF Finished
    <3>4. /\ n > Popped => Held(stack, n)
          /\ n <= Popped => Finished(n)
          /\ n > Popped + 1 => calls[n] = << >>
          /\ calls[n] # << >> => status[n].t = << >>
      BY DEF IInv, PostingInv
    <3> QED
      BY <1>5, <1>9, <2>2, <3>1, <3>2, <3>3, <3>4
  <2> QED
    BY <1>5, <2>1, <2>3 DEF PostingInv
<1> QED
  BY <1>5, <1>9, <1>11, <1>12, <1>13, <1>14 DEF IInv

LEMMA TrapReturnsStep ==
  ASSUME IInv, NEW trap \in BOOLEAN, trapEventReturns(trap)
  PROVE  IInv'
<1>1. CASE ~trap
  BY <1>1, ReturnsStep DEF trapEventReturns, InLoop, Calling, history
<1>2. CASE trap
  BY <1>2, EndStep DEF trapEventReturns, InLoop, Calling
<1> QED
  BY <1>1, <1>2

LEMMA ListenReturnsStep ==
  ASSUME IInv, processEventReturns
  PROVE  IInv'
  BY ReturnsStep DEF processEventReturns, InLoop, Calling

LEMMA CompletedStep ==
  ASSUME IInv, Completed
  PROVE  IInv'
  BY EndStep DEF Completed, InLoop, Calling, history

\* One entry of a PostingStatus is taken off.
LEMMA StatusStep ==
  ASSUME IInv, NEW c \in Postings, NEW r \in Entry, status' = [status EXCEPT ![c] = r]
  PROVE  /\ status' \in Seq(Entry) /\ Len(status') = Len(status) /\ Postings' = Postings
         /\ status'[c] = r /\ \A n \in Postings : n # c => status'[n] = status[n]
<1>1. status \in Seq(Entry) /\ c \in 1 .. Len(status) /\ Postings = 1 .. Len(status)
  BY Basics DEF Postings
<1>2. /\ [status EXCEPT ![c] = r] \in Seq(Entry) /\ Len([status EXCEPT ![c] = r]) = Len(status)
      /\ \A j \in 1 .. Len(status) : [status EXCEPT ![c] = r][j] = IF j = c THEN r ELSE status[j]
  BY <1>1, ExceptSeq
<1> QED
  BY <1>1, <1>2 DEF Postings

\* What PostingInv says of a posting, and of the next state.
LEMMA PostingStep ==
  ASSUME IInv, Postings' = Postings, postings' = postings, Len(status') = Len(status), trapped' = trapped,
         NEW c \in Postings, c <= Popped + 1, \A n : Held(stack, n) => Held(stack', n),
         \A n \in Postings : n # c => calls'[n] = calls[n] /\ status'[n] = status[n],
         c \in trapped \/ ~(c <= Popped), calls'[c] # << >> => status'[c].t = << >>
  PROVE  PostingInv'
<1>1. Popped' = Popped /\ Popped \in Nat /\ \A n \in Postings : n \in Nat
  BY Basics DEF Popped, Postings
<1>2. ASSUME NEW n \in Postings
      PROVE  /\ n > Popped => Held(stack', n)
             /\ n <= Popped => Finished(n)'
             /\ n > Popped + 1 => calls'[n] = << >>
             /\ calls'[n] # << >> => status'[n].t = << >>
  <2>1. /\ n > Popped => Held(stack, n)
        /\ n <= Popped => Finished(n)
        /\ n > Popped + 1 => calls[n] = << >>
        /\ calls[n] # << >> => status[n].t = << >>
    BY DEF IInv, PostingInv
  <2>2. CASE n = c
    <3>1. c \in trapped => Finished(n)'
      BY <2>2 DEF Finished
    <3>2. ~(c > Popped + 1)
      BY <1>1
    <3> QED
      BY <2>1, <2>2, <3>1, <3>2
  <2>3. CASE n # c
    BY <2>1, <2>3 DEF Finished
  <2> QED
    BY <2>2, <2>3
<1> QED
  BY <1>1, <1>2 DEF IInv, PostingInv

LEMMA NextTrapperStep ==
  ASSUME IInv, NextTrapper
  PROVE  IInv'
<1> DEFINE c == Top.cur
           tl == Tail(Cur.t)
           r == [Cur EXCEPT !.t = tl]
           nf == [Top EXCEPT !.cur = c, !.pc = "trap"]
<1>1. /\ stack # << >> /\ Top.for = "event" /\ Top.pc = "process" /\ Cur.t # << >>
      /\ UNCHANGED <<mappers, postings, history>>
      /\ SetTop([Top EXCEPT !.pc = "trap"]) \/ stack' = stack
  BY DEF NextTrapper, InLoop, Calling
<1>2. /\ Top \in PostFrame /\ c \in 1 .. Len(status) /\ c \in Postings /\ c <= MaxPosts /\ stack \in Seq(Frames)
      /\ Told(Top, calls, interrupted, trapped) /\ IsEvent(Top) /\ Cur = status[c] /\ Cur \in Entry
      /\ Len(stack) \in Nat \ {0} /\ AtFront(Top, postings) /\ c <= Popped + 1
  BY <1>1, AtWork
<1>3. r \in Entry /\ r.t = tl /\ r.l = Cur.l /\ r.due = Cur.due /\ r.e = Cur.e
  <2>1. Cur.t \in Seq(Trappers)
    BY <1>2 DEF Entry
  <2>2. tl \in Seq(Trappers)
    BY <1>1, <2>1, CopiesTail
  <2> HIDE DEF tl
  <2> QED
    BY <1>2, <2>2 DEF Entry
<1>4. status' = [status EXCEPT ![c] = r]
  BY <1>2 DEF NextTrapper
<1> HIDE DEF r, tl
<1>5. /\ status' \in Seq(Entry) /\ Len(status') = Len(status) /\ Postings' = Postings
      /\ status'[c] = r /\ \A n \in Postings : n # c => status'[n] = status[n]
  BY <1>2, <1>3, <1>4, StatusStep
<1>6. calls[c] = << >>
  BY <1>1, <1>2 DEF IInv, PostingInv
<1>7. /\ nf \in Frames /\ IsEvent(nf) /\ FrameType(nf, Len(status))
      /\ nf.cur = c /\ nf.pc = "trap" /\ nf.post = Top.post
  BY <1>1, <1>2, NewFrame
<1>8. nf = [Top EXCEPT !.pc = "trap"]
  BY <1>2 DEF PostFrame
<1> HIDE DEF nf
<1>9. calls' = calls /\ interrupted' = interrupted /\ trapped' = trapped /\ postings' = postings /\ listeners' = listeners
  BY <1>1 DEF history, mappers
<1>10. \A i \in 1 .. Len(stack) - 1 : IsEvent(stack[i]) => Told(stack[i], calls', interrupted, trapped')
  <2>1. \A i \in 1 .. Len(stack) - 1 : i \in DOMAIN stack
    BY <1>2, Basics
  <2> QED
    BY <1>9, <2>1 DEF IInv, StackInv
<1>11. StackInv' /\ stack' \in Seq(Frames) /\ \A n : Held(stack, n) => Held(stack', n)
  <2>1. CASE stack' = stack
    <3>1. Retopped(Top) /\ Top \in Frames /\ FrameType(Top, Len(status))
      <4>1. Top = stack[Len(stack)] /\ Top \in Frames /\ FrameType(Top, Len(status))
        BY <1>1, Basics
      <4> QED
        BY <1>2, <2>1, <4>1 DEF Retopped
    <3> QED
      BY <1>1, <1>2, <1>5, <1>9, <1>10, <3>1, SetTopStep
  <2>2. CASE SetTop([Top EXCEPT !.pc = "trap"])
    <3>1. Retopped(nf)
      BY <1>2, <1>1, <1>7, <1>8, <2>2, ReplaceTop
    <3>2. Told(nf, calls, interrupted, trapped) /\ AtFront(nf, postings)
      BY <1>1, <1>2, <1>6, <1>7 DEF Told, AtFront
    <3> QED
      BY <1>1, <1>2, <1>5, <1>7, <1>9, <1>10, <3>1, <3>2, SetTopStep
  <2> QED
    BY <1>1, <2>1, <2>2
<1>12. TypeOK'
  <2>1. postings' \in Seq(Postings')
    BY <1>5, <1>9, Basics
  <2> QED
    BY <1>1, <1>5, <1>11, <2>1 DEF IInv, TypeOK, Frames, Entry, mappers, history
<1>13. QueueInv' /\ QuietTrapHolds'
  BY <1>5, <1>9 DEF IInv, QueueInv, Popped, QuietTrapHolds
<1>14. PostingInv'
  <2>1. c \in trapped \/ ~(c <= Popped)
    BY <1>1, <1>2 DEF IInv, PostingInv, Finished
  <2> QED
    BY <1>2, <1>5, <1>6, <1>9, <1>11, <2>1, PostingStep
<1> HIDE DEF c
<1>15. CopyInv'
  <2>1. \A n \in Postings : /\ status'[n].l = status[n].l /\ status'[n].due = status[n].due
                            /\ status'[n].e = status[n].e
    BY <1>2, <1>3, <1>5
  <2>2. lost' = lost
    BY <1>1 DEF history
  <2> QED
    BY <1>5, <1>9, <2>1, <2>2 DEF IInv, CopyInv, Accounted
<1> QED
  BY <1>11, <1>12, <1>13, <1>14, <1>15 DEF IInv

LEMMA NextListenerStep ==
  ASSUME IInv, NextListener
  PROVE  IInv'
<1> DEFINE c == Top.cur
           el == Head(Cur.l)
           tl == Tail(Cur.l)
           r == [Cur EXCEPT !.l = tl]
           nf == [Top EXCEPT !.cur = c, !.pc = "listen"]
           asked == verifyMapping(listeners, el, Cur.e)
<1>1. /\ stack # << >> /\ Top.for = "event" /\ Top.pc = "process" /\ Cur.t = << >> /\ Cur.l # << >>
      /\ UNCHANGED <<mappers, postings, lost, trapped, interrupted, steady>>
      /\ \/ /\ asked
            /\ SetTop([Top EXCEPT !.pc = "listen"])
            /\ calls' = [calls EXCEPT ![c] = Append(calls[c], el)]
            /\ Learn(el, Cur.e)
         \/ ~asked /\ stack' = stack /\ calls' = calls /\ heard' = heard
  BY DEF NextListener, InLoop, Calling, StillListens
<1>2. /\ Top \in PostFrame /\ c \in 1 .. Len(status) /\ c \in Postings /\ c <= MaxPosts /\ stack \in Seq(Frames)
      /\ Told(Top, calls, interrupted, trapped) /\ IsEvent(Top) /\ Cur = status[c] /\ Cur \in Entry
      /\ Len(stack) \in Nat \ {0} /\ AtFront(Top, postings) /\ c <= Popped + 1
  BY <1>1, AtWork
<1>3. Cur.l \in Seq(Listeners) /\ el \in Listeners /\ tl \in Seq(Listeners) /\ Cur.e \in EventBase
  <2>1. Cur.l \in Seq(Listeners) /\ Cur.e \in EventBase
    BY <1>2 DEF Entry
  <2> QED
    BY <1>1, <2>1, CopiesTail
<1>4. status' = [status EXCEPT ![c] = r]
  BY <1>2 DEF NextListener, StepPast
<1>5. \A x : Copies(Cur.l, x) = Copies(tl, x) + (IF el = x THEN 1 ELSE 0)
  BY <1>1, <1>3, CopiesTail
<1> HIDE DEF tl, el
<1>6. r \in Entry /\ r.t = << >> /\ r.l = tl /\ r.due = Cur.due /\ r.e = Cur.e
  BY <1>1, <1>2, <1>3 DEF Entry
<1> HIDE DEF r
<1>7. /\ status' \in Seq(Entry) /\ Len(status') = Len(status) /\ Postings' = Postings
      /\ status'[c] = r /\ \A n \in Postings : n # c => status'[n] = status[n]
  BY <1>2, <1>4, <1>6, StatusStep
<1>8. /\ nf \in Frames /\ IsEvent(nf) /\ FrameType(nf, Len(status))
      /\ nf.cur = c /\ nf.pc = "listen" /\ nf.post = Top.post
  BY <1>1, <1>2, NewFrame
<1>9. nf = [Top EXCEPT !.pc = "listen"]
  BY <1>2 DEF PostFrame
<1> HIDE DEF nf, asked
<1>10. /\ interrupted' = interrupted /\ trapped' = trapped /\ postings' = postings
       /\ listeners' = listeners /\ lost' = lost
  BY <1>1 DEF mappers
<1>11. calls \in Seq(Seq(Listeners)) /\ Len(calls) = Len(status) /\ calls[c] \in Seq(Listeners)
  BY <1>2, Basics DEF IInv, TypeOK
<1>12. /\ calls' \in Seq(Seq(Listeners)) /\ Len(calls') = Len(status)
       /\ \A n \in Postings : n # c => calls'[n] = calls[n]
       /\ asked => calls'[c] = Append(calls[c], el)
       /\ ~asked => calls'[c] = calls[c]
  <2>1. CASE asked
    <3>1. calls' = [calls EXCEPT ![c] = Append(calls[c], el)] /\ Append(calls[c], el) \in Seq(Listeners)
      BY <1>1, <1>3, <1>11, <2>1, AppendProperties
    <3> DEFINE x == Append(calls[c], el)
    <3> HIDE DEF x
    <3>2. /\ [calls EXCEPT ![c] = x] \in Seq(Seq(Listeners)) /\ Len([calls EXCEPT ![c] = x]) = Len(calls)
          /\ \A j \in 1 .. Len(calls) : [calls EXCEPT ![c] = x][j] = IF j = c THEN x ELSE calls[j]
      <4>1. x \in Seq(Listeners)
        BY <3>1 DEF x
      <4> QED
        BY <1>2, <1>11, <4>1, ExceptSeq
    <3>3. calls' = [calls EXCEPT ![c] = x]
      BY <3>1 DEF x
    <3>4. Postings = 1 .. Len(calls)
      BY <1>11 DEF Postings
    <3>5. calls'[c] = x
      BY <1>2, <3>2, <3>3, <3>4
    <3> QED
      BY <1>11, <2>1, <3>2, <3>3, <3>4, <3>5 DEF x
  <2>2. CASE ~asked
    BY <1>1, <1>11, <2>2
  <2> QED
    BY <2>1, <2>2
<1>13. asked => calls'[c] # << >>
  BY <1>3, <1>11, <1>12, AppendProperties
<1>14. calls[c] # << >> => calls'[c] # << >>
  BY <1>12, <1>13
<1>15. DOMAIN stack = 1 .. Len(stack) /\ Top = stack[Len(stack)] /\ Top \in Frames /\ FrameType(Top, Len(status))
  BY <1>1, <1>2, Basics
<1>16. ASSUME NEW i \in 1 .. Len(stack) - 1, IsEvent(stack[i])
       PROVE  Told(stack[i], calls', interrupted, trapped')
  <2>1. i \in DOMAIN stack /\ i < Len(stack) /\ Len(stack) \in DOMAIN stack
    BY <1>2, <1>15
  <2>2. CoveredBy(stack, i)
    BY <1>2, <1>15, <2>1 DEF CoveredBy
  <2>3. /\ Told(stack[i], calls, interrupted, trapped) /\ stack[i].pc \in {"trap", "listen"}
        /\ stack[i].pc = "trap" => stack[i].cur \in interrupted
        /\ FrameType(stack[i], Len(status))
    BY <1>16, <2>1, <2>2 DEF IInv, StackInv
  <2>4. stack[i].cur \in Postings
    BY <1>16, <2>3 DEF FrameType, IsEvent, SweepFrame, Postings
  <2>5. calls[stack[i].cur] # << >> => calls'[stack[i].cur] # << >>
    BY <1>12, <1>14, <2>4
  <2> QED
    BY <1>10, <2>3, <2>5 DEF Told
<1>17. StackInv' /\ stack' \in Seq(Frames) /\ \A n : Held(stack, n) => Held(stack', n)
  <2>1. CASE ~asked
    <3>1. Retopped(Top) /\ calls' = calls
      BY <1>1, <1>2, <1>15, <2>1 DEF Retopped
    <3> QED
      BY <1>1, <1>2, <1>7, <1>10, <1>15, <1>16, <3>1, SetTopStep
  <2>2. CASE asked
    <3>1. Retopped(nf)
      BY <1>2, <1>1, <1>8, <1>9, <2>2, ReplaceTop
    <3>2. Told(nf, calls', interrupted, trapped') /\ AtFront(nf, postings')
      BY <1>1, <1>2, <1>8, <1>10, <1>13, <2>2 DEF Told, AtFront
    <3> QED
      BY <1>1, <1>2, <1>7, <1>8, <1>10, <1>16, <3>1, <3>2, SetTopStep
  <2> QED
    BY <2>1, <2>2
<1>18. heard' \in [Listeners -> SUBSET EGIDs] /\ steady' = steady
  <2>1. heard \in [Listeners -> SUBSET EGIDs] /\ Cur.e.sid \in EGIDs
    BY <1>3 DEF IInv, TypeOK, EventBase, SIDs
  <2>2. CASE asked
    BY <1>1, <1>3, <2>1, <2>2 DEF Learn
  <2>3. CASE ~asked
    BY <1>1, <2>1, <2>3
  <2> QED
    BY <1>1, <2>2, <2>3
<1>19. TypeOK'
  <2>1. postings' \in Seq(Postings')
    BY <1>7, <1>10, Basics
  <2> QED
    BY <1>1, <1>7, <1>10, <1>12, <1>17, <1>18, <2>1 DEF IInv, TypeOK, Frames, Entry, mappers
<1>20. QueueInv'
  BY <1>7, <1>10 DEF IInv, QueueInv, Popped
<1>21. QuietTrapHolds'
  <2>1. c \in trapped => c \in interrupted
    BY <1>1, <1>2 DEF Told
  <2>2. \A n \in trapped : n \in Postings
    BY DEF IInv, TypeOK
  <2> QED
    BY <1>10, <1>12, <2>1, <2>2 DEF IInv, QuietTrapHolds
<1>22. PostingInv'
  <2>1. c \in trapped \/ ~(c <= Popped)
    BY <1>1, <1>2 DEF IInv, PostingInv, Finished
  <2> QED
    BY <1>2, <1>6, <1>7, <1>10, <1>12, <1>17, <2>1, PostingStep
<1> HIDE DEF c
<1>23. CopyInv'
  <2>1. ASSUME NEW n \in Postings, NEW x \in Listeners
        PROVE  /\ Copies(calls'[n], x) + Copies(status'[n].l, x) <= Copies(status'[n].due, x)
               /\ x \notin lost[n] =>
                    /\ Copies(calls'[n], x) + Copies(status'[n].l, x) = Copies(status'[n].due, x)
                    /\ Copies(status'[n].due, x) > 0 => verifyMapping(listeners, x, status'[n].e)
    <3>1. /\ Copies(calls[n], x) + Copies(status[n].l, x) <= Copies(status[n].due, x)
          /\ x \notin lost[n] =>
               /\ Copies(calls[n], x) + Copies(status[n].l, x) = Copies(status[n].due, x)
               /\ Copies(status[n].due, x) > 0 => verifyMapping(listeners, x, status[n].e)
      BY DEF IInv, CopyInv, Accounted
    <3>2. CASE n # c
      BY <1>7, <1>12, <3>1, <3>2
    <3>3. CASE n = c
      <4> DEFINE k == Copies(calls[c], x)
                 l == Copies(tl, x)
                 d == Copies(Cur.due, x)
                 one == IF el = x THEN 1 ELSE 0
      <4>1. k \in Nat /\ l \in Nat /\ d \in Nat
        <5>1. Cur.due \in Seq(Listeners)
          BY <1>2 DEF Entry
        <5> QED
          BY <1>3, <1>11, <5>1, CopiesNat
      <4>2. Copies(status[n].l, x) = l + one /\ Copies(status[n].due, x) = d
        BY <1>2, <1>5, <3>3
      <4>3. Copies(status'[n].l, x) = l /\ Copies(status'[n].due, x) = d /\ status'[n].e = Cur.e
        BY <1>6, <1>7, <3>3
      <4>4. Copies(calls'[n], x) = k + (IF asked THEN one ELSE 0)
        <5>1. CASE asked
          <6>1. calls'[n] = Append(calls[c], el)
            BY <1>12, <3>3, <5>1
          <6>2. Copies(Append(calls[c], el), x) = Copies(calls[c], x) + (IF el = x THEN 1 ELSE 0)
            BY <1>3, <1>11, CopiesAppend
          <6> QED
            BY <5>1, <6>1, <6>2
        <5>2. CASE ~asked
          BY <1>12, <3>3, <4>1, <5>2
        <5> QED
          BY <5>1, <5>2
      <4>5. one \in {0, 1} /\ (~asked => (one = 0 \/ (el = x /\ one = 1)))
        OBVIOUS
      <4>6. ~asked => ~verifyMapping(listeners, el, Cur.e)
        BY DEF asked
      <4>7. /\ k + (l + one) <= d
            /\ x \notin lost[n] => (k + (l + one) = d /\ (d > 0 => verifyMapping(listeners, x, Cur.e)))
        BY <1>2, <3>1, <3>3, <4>2
      <4> HIDE DEF k, l, d, one
      <4>8. CASE asked \/ one = 0
        <5>1. k + (IF asked THEN one ELSE 0) + l = k + (l + one)
          BY <4>1, <4>5, <4>8
        <5> QED
          BY <4>1, <4>3, <4>4, <4>7, <5>1
      <4>9. CASE ~asked /\ one = 1 /\ el = x
        <5>1. k + (IF asked THEN one ELSE 0) + l <= d
          BY <4>1, <4>7, <4>9
        <5>2. x \in lost[n]
          <6>1. x \notin lost[n] => d > 0
            BY <4>1, <4>7, <4>9
          <6> QED
            BY <4>6, <4>7, <4>9, <6>1
        <5> QED
          BY <4>3, <4>4, <5>1, <5>2
      <4> QED
        BY <4>5, <4>8, <4>9
    <3> QED
      BY <3>2, <3>3
  <2> QED
    BY <1>7, <1>10, <2>1 DEF CopyInv, Accounted, Copies
<1> QED
  BY <1>17, <1>19, <1>20, <1>21, <1>22, <1>23 DEF IInv

-------------------------------------------------------------------------------
(* The invariant holds                                                     *)

LEMMA InitInv ==
  ASSUME Init
  PROVE  IInv
<1>1. listeners \in Mapper(Listeners) /\ trappers \in Mapper(Trappers)
  <2>1. PICK s \in Setups : listeners = s.listeners /\ trappers = s.trappers
    BY DEF Init
  <2>2. s \in [listeners : Mapper(Listeners), trappers : Mapper(Trappers)]
    BY <2>1, UserInputs
  <2> QED
    BY <2>1, <2>2
<1>2. /\ postings = << >> /\ status = << >> /\ stack = << >> /\ calls = << >> /\ lost = << >>
      /\ trapped = {} /\ interrupted = {} /\ steady = Listeners
      /\ heard = [el \in Listeners |-> {g \in EGIDs : hasListeners(g)}]
  BY DEF Init
<1>3. heard \in [Listeners -> SUBSET EGIDs]
  <2> DEFINE all == {g \in EGIDs : hasListeners(g)}
  <2>1. all \in SUBSET EGIDs
    OBVIOUS
  <2>2. heard = [el \in Listeners |-> all]
    BY <1>2
  <2> HIDE DEF all
  <2> QED
    BY <2>1, <2>2
<1>4. Len(<< >>) = 0 /\ \A S : << >> \in Seq(S)
  BY EmptySeq
<1>5. TypeOK
  BY <1>1, <1>2, <1>3, <1>4 DEF TypeOK
<1>6. Postings = {} /\ DOMAIN stack = {} /\ 1 .. 0 = {}
  BY <1>2, <1>4 DEF Postings
<1>7. QueueInv /\ StackInv /\ PostingInv /\ CopyInv /\ QuietTrapHolds
  BY <1>2, <1>4, <1>6 DEF QueueInv, StackInv, PostingInv, CopyInv, QuietTrapHolds
<1> QED
  BY <1>5, <1>7 DEF IInv

LEMMA Unchanged ==
  ASSUME IInv, UNCHANGED vars
  PROVE  IInv'
<1>1. /\ UNCHANGED <<listeners, trappers, postings, status, stack>>
      /\ UNCHANGED <<calls, lost, trapped, interrupted, heard, steady>>
  BY DEF vars, mappers, history
<1>2. TypeOK' /\ QueueInv' /\ Postings' = Postings /\ Popped' = Popped
  BY <1>1 DEF IInv, TypeOK, QueueInv, Popped, Postings
<1>3. StackInv'
  BY <1>1 DEF IInv, StackInv
<1>4. PostingInv' /\ CopyInv' /\ QuietTrapHolds'
  BY <1>1, <1>2 DEF IInv, PostingInv, CopyInv, Accounted, Finished, QuietTrapHolds
<1> QED
  BY <1>2, <1>3, <1>4 DEF IInv

LEMMA InductiveStep ==
  ASSUME IInv, [Next]_vars
  PROVE  IInv'
<1>1. CASE \E e \in Events : postEvent(e)
  BY <1>1, PostEventStep
<1>2. CASE Subscribe
  BY <1>2, SubscribeStep
<1>3. CASE StartSweep
  BY <1>3, StartSweepStep
<1>4. CASE Sweep
  BY <1>4, SweepStepInv
<1>5. CASE ProcessFront
  BY <1>5, ProcessFrontStep
<1>6. CASE NextTrapper
  BY <1>6, NextTrapperStep
<1>7. CASE NextListener
  BY <1>7, NextListenerStep
<1>8. CASE Completed
  BY <1>8, CompletedStep
<1>9. CASE Return
  BY <1>9, ReturnStep
<1>10. CASE \E trap \in BOOLEAN : trapEventReturns(trap)
  BY <1>10, TrapReturnsStep
<1>11. CASE processEventReturns
  BY <1>11, ListenReturnsStep
<1>12. CASE UNCHANGED vars
  BY <1>12, Unchanged
<1> QED
  BY <1>1, <1>2, <1>3, <1>4, <1>5, <1>6, <1>7, <1>8, <1>9, <1>10, <1>11, <1>12 DEF Next

(* The router keeps its invariant: the queue is what is left of an interval *)
(* of postings, each a local of a processEvent() still on the call stack,   *)
(* and each listener's calls and remaining entries add up to its            *)
(* subscriptions at the time of the post.                                   *)
THEOREM Inductive == Spec => []IInv
<1>1. Init => IInv
  BY InitInv
<1>2. IInv /\ [Next]_vars => IInv'
  BY InductiveStep
<1> QED
  BY <1>1, <1>2, PTL DEF Spec

(* The types of the router's state.                                         *)
THEOREM Typed == Spec => []TypeOK
<1>1. IInv => TypeOK
  BY DEF IInv
<1> QED
  BY <1>1, Inductive, PTL

(* The queue never points into the frame of a processEvent() that has       *)
(* returned, and the posting that process() ends with is the one at the     *)
(* front: pop() removes what was processed, however calls nest.             *)
THEOREM QueueAndStack == Spec => []NoDanglingPosting
<1>1. ASSUME IInv PROVE NoDanglingPosting
  <2>1. ASSUME NEW k \in DOMAIN postings
        PROVE  \E i \in DOMAIN stack : stack[i].for = "event" /\ stack[i].post = postings[k]
    <3>1. k \in 1 .. Len(postings) /\ postings[k] = Popped + k /\ postings[k] \in Postings /\ Popped \in Nat
      BY <1>1, <2>1, Basics, ElementOfSeq DEF IInv, QueueInv
    <3>2. Held(stack, postings[k])
      BY <1>1, <3>1 DEF IInv, PostingInv
    <3> QED
      BY <3>2 DEF Held, IsEvent
  <2>2. stack # << >> /\ Top.for = "event" /\ Top.pc = "process" => postings = << >> \/ Head(postings) = Top.cur
    BY <1>1, Basics DEF AtFront, IsEvent
  <2> QED
    BY <2>1, <2>2 DEF NoDanglingPosting
<1> QED
  BY <1>1, Inductive, PTL

(* Whatever is posted and unsubscribed from callbacks meanwhile, a listener *)
(* gets an event at most once per subscription, and exactly once by the     *)
(* time the post returns unless it unsubscribed or the event was trapped.   *)
THEOREM Served == Spec => []EachSubscriptionServed
<1>1. ASSUME IInv PROVE EachSubscriptionServed
  <2> SUFFICES ASSUME NEW n \in Postings, NEW el \in Listeners
               PROVE  /\ Copies(calls[n], el) <= Copies(status[n].due, el)
                      /\ Returned(n) /\ n \notin trapped /\ el \notin lost[n] =>
                           Copies(calls[n], el) = Copies(status[n].due, el)
    BY DEF EachSubscriptionServed
  <2>1. status[n] \in Entry /\ calls[n] \in Seq(Listeners)
    BY <1>1, Basics
  <2>2. status[n].l \in Seq(Listeners) /\ status[n].due \in Seq(Listeners)
    BY <2>1 DEF Entry
  <2>3. Copies(calls[n], el) \in Nat /\ Copies(status[n].l, el) \in Nat /\ Copies(status[n].due, el) \in Nat
    BY <2>1, <2>2, CopiesNat
  <2>4. /\ Copies(calls[n], el) + Copies(status[n].l, el) <= Copies(status[n].due, el)
        /\ el \notin lost[n] => Copies(calls[n], el) + Copies(status[n].l, el) = Copies(status[n].due, el)
    BY <1>1 DEF IInv, CopyInv, Accounted
  <2>5. ASSUME Returned(n), n \notin trapped PROVE Copies(status[n].l, el) = 0
    <3>1. ~(n > Popped)
      BY <1>1, <2>5 DEF IInv, PostingInv, Returned, Held, IsEvent
    <3>2. n <= Popped
      BY <1>1, <3>1, Basics DEF Postings
    <3>3. status[n].l = << >>
      BY <1>1, <2>5, <3>2 DEF IInv, PostingInv, Finished
    <3> QED
      BY <3>3, CopiesEmpty
  <2> QED
    BY <2>3, <2>4, <2>5
<1> QED
  BY <1>1, Inductive, PTL

(* An event trapped while nothing was posted from trapEvent() reaches no    *)
(* listener.                                                                *)
THEOREM TrapHolds == Spec => []QuietTrapHolds
<1>1. IInv => QuietTrapHolds
  BY DEF IInv
<1> QED
  BY <1>1, Inductive, PTL

-------------------------------------------------------------------------------
(* Whom a step calls                                                       *)

LEMMA CallStep ==
  ASSUME IInv, [Next]_vars, NEW n \in Postings, calls'[n] # calls[n]
  PROVE  /\ NextListener /\ n = Top.cur /\ Cur.l # << >>
         /\ calls'[n] = Append(calls[n], Head(Cur.l)) /\ StillListens(Head(Cur.l))
<1>1. calls \in Seq(Seq(Listeners)) /\ n \in 1 .. Len(calls)
  BY DEF IInv, TypeOK, Postings
<1>2. calls' # calls /\ calls' # Append(calls, << >>)
  <2>1. << >> \in Seq(Listeners)
    BY EmptySeq
  <2>2. Append(calls, << >>)[n] = calls[n]
    BY <1>1, <2>1, AppendProperties
  <2> QED
    BY <2>2
<1>3. \A fs, e : ~Enter(fs, e)
  BY <1>2 DEF Enter
<1>4. /\ \A e : ~postEvent(e)
      /\ \A fs, el, w : /\ ~addListener(fs, el, w) /\ ~removeListener(fs, el, w)
                        /\ ~addTrapper(fs, el, w) /\ ~removeTrapper(fs, el, w)
  BY <1>3 DEF postEvent, addListener, removeListener, addTrapper, removeTrapper
<1>5. ~Subscribe /\ ~StartSweep /\ ~Sweep
  BY <1>2, <1>4 DEF Subscribe, StartSweep, Sweep, SweepStep, history
<1>6. ~ProcessFront /\ ~NextTrapper /\ ~Completed /\ ~Return /\ ~processEventReturns
  BY <1>2 DEF ProcessFront, NextTrapper, Completed, Return, processEventReturns, history
<1>7. \A trap \in BOOLEAN : ~trapEventReturns(trap)
  BY <1>2 DEF trapEventReturns
<1>8. NextListener
  BY <1>2, <1>4, <1>5, <1>6, <1>7 DEF Next, vars, history
<1>9. StillListens(Head(Cur.l)) /\ calls' = [calls EXCEPT ![Top.cur] = Append(calls[Top.cur], Head(Cur.l))]
  BY <1>2, <1>8 DEF NextListener
<1>10. n = Top.cur
  BY <1>1, <1>9
<1> QED
  BY <1>1, <1>8, <1>9, <1>10 DEF NextListener

(* When a listener is called for a posting, the earlier postings are done   *)
(* with, and unless a trapper trapped this one no later one has been        *)
(* delivered to anybody.                                                    *)
THEOREM PostingOrder == Spec => InPostingOrder
<1>1. ASSUME IInv, [Next]_vars
      PROVE  \A n \in Postings : calls'[n] # calls[n] =>
               \A m \in Postings : /\ m < n => Finished(m)
                                   /\ m > n /\ n \notin trapped => calls[m] = << >>
  <2> SUFFICES ASSUME NEW n \in Postings, calls'[n] # calls[n], NEW m \in Postings
               PROVE  /\ m < n => Finished(m)
                      /\ m > n /\ n \notin trapped => calls[m] = << >>
    OBVIOUS
  <2>1. /\ stack # << >> /\ Top.for = "event" /\ Top.pc = "process" /\ n = Top.cur /\ Cur.l # << >>
    BY <1>1, CallStep DEF NextListener, InLoop, Calling
  <2>2. n <= Popped + 1 /\ Cur = status[n]
    BY <1>1, <2>1, AtWork
  <2>3. Popped \in Nat /\ m \in Nat /\ n \in Nat
    BY <1>1, Basics DEF Postings
  <2>4. m < n => m <= Popped
    BY <2>2, <2>3
  <2>5. n \notin trapped => ~(n <= Popped)
    BY <1>1, <2>1, <2>2 DEF IInv, PostingInv, Finished
  <2>6. n \notin trapped /\ m > n => m > Popped + 1
    BY <2>3, <2>5
  <2> QED
    BY <1>1, <2>4, <2>6 DEF IInv, PostingInv
<1> QED
  BY <1>1, Inductive, PTL DEF Spec, InPostingOrder
===============================================================================
