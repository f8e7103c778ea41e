-------------------------- MODULE MessageQueueProofs --------------------------
(***************************************************************************)
(* Proofs about MessageQueue, for every capacity, any number of senders,   *)
(* receivers and regions, every overflow policy: counts, references and    *)
(* positions stay consistent, messages are read in order, none is slept    *)
(* on, and until DROP_OLDEST throws one out the queue is a MessageFeed.    *)
(***************************************************************************)
EXTENDS MessageQueue, SequenceTheorems, FiniteSetTheorems, TLAPS

LBP == INSTANCE ListMemBufProofs WITH MAX <- CAPACITY, list <- mq

-------------------------------------------------------------------------------
(* What the operations on a pool, here the list of receivers, do to its    *)
(* slots: none is ever in two places.                                      *)

Injective(s) == \A j, k \in 1 .. Len(s) : s[j] = s[k] => j = k

Pool(S) == [used : Seq(S), free : Seq(S)]

(* No slot is listed twice, used or free. *)
Sound(p) == /\ Injective(p.used) /\ Injective(p.free)
            /\ \A j \in 1 .. Len(p.used), k \in 1 .. Len(p.free) : p.used[j] # p.free[k]

LEMMA Members ==
  ASSUME NEW S, NEW s \in Seq(S)
  PROVE  /\ Len(s) \in Nat /\ DOMAIN s = 1 .. Len(s) /\ \A k \in 1 .. Len(s) : s[k] \in S
         /\ ToSet(s) = {s[k] : k \in 1 .. Len(s)} /\ ToSet(s) \in SUBSET S
  BY LenProperties, ElementOfSeq DEF ToSet

LEMMA EmptyPoolFacts ==
  ASSUME NEW max \in Nat
  PROVE  /\ EmptyPool(max) \in Pool(0 .. max - 1) /\ Sound(EmptyPool(max))
         /\ UsedSlots(EmptyPool(max)) = {}
<1> DEFINE f == [i \in 1 .. max |-> i - 1]
<1>1. \A i \in 1 .. max : i - 1 \in 0 .. max - 1
  OBVIOUS
<1>2. f \in Seq(0 .. max - 1) /\ Len(f) = max /\ \A i \in 1 .. max : f[i] = i - 1
  <2>1. f \in [1 .. max -> 0 .. max - 1]
    BY <1>1
  <2>2. DOMAIN f = 1 .. max
    OBVIOUS
  <2> HIDE DEF f
  <2> QED
    BY <2>1, <2>2, SeqDef, LenProperties DEF f
<1> HIDE DEF f
<1>3. EmptyPool(max) = [used |-> << >>, free |-> f]
  BY DEF EmptyPool, f
<1>4. << >> \in Seq(0 .. max - 1) /\ Len(<< >>) = 0
  BY EmptySeq
<1>5. Injective(f)
  BY <1>2 DEF Injective
<1>6. ToSet(<< >>) = {}
  BY DEF ToSet
<1> QED
  BY <1>2, <1>3, <1>4, <1>5, <1>6 DEF Pool, Sound, Injective, UsedSlots, Range, ToSet

LEMMA InsertFacts ==
  ASSUME NEW S, NEW p \in Pool(S), Sound(p), ~IsFull(p), NEW i \in 1 .. Len(p.used) + 1
  PROVE  /\ Insert(p, i) \in Pool(S) /\ Sound(Insert(p, i))
         /\ NextSlot(p) = p.free[1] /\ NextSlot(p) \in S /\ NextSlot(p) \notin UsedSlots(p)
         /\ Insert(p, i).used = LBP!With(p.used, i, NextSlot(p))
         /\ Len(Insert(p, i).free) = Len(p.free) - 1
         /\ \A k \in 1 .. Len(p.free) - 1 : Insert(p, i).free[k] = p.free[k + 1]
         /\ UsedSlots(Insert(p, i)) = UsedSlots(p) \cup {NextSlot(p)}
<1> DEFINE x == Head(p.free)
           u == LBP!With(p.used, i, x)
           f == Tail(p.free)
           n == Len(p.used)
           l == Len(p.free)
<1>1. p.used \in Seq(S) /\ p.free \in Seq(S) /\ p.free # << >> /\ NextSlot(p) = x
  BY DEF Pool, IsFull, NextSlot
<1>2. n \in Nat /\ l \in Nat /\ l # 0 /\ i \in 1 .. n + 1
  BY <1>1, Members, EmptySeq
<1>3. x = p.free[1] /\ x \in S /\ f \in Seq(S) /\ Len(f) = l - 1 /\ \A k \in 1 .. l - 1 : f[k] = p.free[k + 1]
  BY <1>1, <1>2, HeadTailProperties
<1>4. Insert(p, i) = [used |-> u, free |-> f]
  BY DEF Insert, LBP!With
<1> HIDE DEF x
<1>5. /\ u \in Seq(S) /\ Len(u) = n + 1
      /\ \A k \in 1 .. n + 1 : u[k] = IF k < i THEN p.used[k] ELSE IF k = i THEN x ELSE p.used[k - 1]
  <2> DEFINE s == p.used
  <2>1. s \in Seq(S) /\ x \in S /\ i \in 1 .. Len(s) + 1
    BY <1>1, <1>3
  <2> HIDE DEF s
  <2>2. /\ LBP!With(s, i, x) \in Seq(S) /\ Len(LBP!With(s, i, x)) = Len(s) + 1
        /\ \A k \in 1 .. Len(s) + 1 :
              LBP!With(s, i, x)[k] = IF k < i THEN s[k] ELSE IF k = i THEN x ELSE s[k - 1]
    BY <2>1, LBP!InsertOne, Sizes
  <2> QED
    BY <2>2 DEF s
<1> HIDE DEF u, f, n, l
<1>6. Insert(p, i) \in Pool(S) /\ Insert(p, i).used = u /\ Insert(p, i).free = f
  BY <1>3, <1>4, <1>5 DEF Pool
<1>7. /\ Injective(p.used) /\ Injective(p.free)
      /\ \A j \in 1 .. n, k \in 1 .. l : p.used[j] # p.free[k]
  BY DEF Sound, n, l
<1> DEFINE at(k) == IF k < i THEN k ELSE k - 1
<1>8. /\ \A k \in 1 .. n + 1 : k # i => at(k) \in 1 .. n /\ u[k] = p.used[at(k)]
      /\ i \in 1 .. n + 1 /\ u[i] = x
  <2>1. \A k \in 1 .. n + 1 : k # i => at(k) \in 1 .. n
    BY <1>2
  <2>2. ~(i < i)
    BY <1>2
  <2> QED
    BY <1>2, <1>5, <2>1, <2>2
<1>9. \A j, k \in 1 .. n + 1 : j # i /\ k # i /\ at(j) = at(k) => j = k
  BY <1>2
<1>10. \A k \in 1 .. n : \E j \in 1 .. n + 1 : j # i /\ at(j) = k
  <2> SUFFICES ASSUME NEW k \in 1 .. n PROVE \E j \in 1 .. n + 1 : j # i /\ at(j) = k
    OBVIOUS
  <2>1. CASE k < i
    <3>1. k \in 1 .. n + 1 /\ k # i /\ at(k) = k
      BY <1>2, <2>1
    <3> QED
      BY <3>1
  <2>2. CASE ~(k < i)
    <3>1. k + 1 \in 1 .. n + 1 /\ k + 1 # i /\ at(k + 1) = k
      BY <1>2, <2>2
    <3> QED
      BY <3>1
  <2> QED
    BY <2>1, <2>2
<1> HIDE DEF at
<1>11. \A k \in 1 .. n : p.used[k] # x
  BY <1>2, <1>3, <1>7
<1>12. \A k \in 1 .. l - 1 : k + 1 \in 1 .. l /\ k + 1 # 1 /\ k \in Nat
  BY <1>2
<1>13. \A k \in 1 .. l - 1 : f[k] # x
  <2>1. 1 \in 1 .. l
    BY <1>2
  <2> QED
    BY <1>3, <1>7, <1>12, <2>1 DEF Injective, l
<1>14. Injective(u)
  <2>1. \A j, k \in 1 .. n + 1 : u[j] = u[k] => j = k
    BY <1>7, <1>8, <1>9, <1>11 DEF Injective, n
  <2> QED
    BY <1>5, <2>1 DEF Injective
<1>15. Injective(f)
  <2>1. \A j, k \in 1 .. l - 1 : f[j] = f[k] => j = k
    <3> SUFFICES ASSUME NEW j \in 1 .. l - 1, NEW k \in 1 .. l - 1, f[j] = f[k] PROVE j = k
      OBVIOUS
    <3>1. j + 1 = k + 1 /\ j \in Nat /\ k \in Nat
      BY <1>3, <1>7, <1>12 DEF Injective, l
    <3> QED
      BY <3>1
  <2> QED
    BY <1>3, <2>1 DEF Injective
<1>16. \A j \in 1 .. n + 1, k \in 1 .. l - 1 : u[j] # f[k]
  <2> SUFFICES ASSUME NEW j \in 1 .. n + 1, NEW k \in 1 .. l - 1 PROVE u[j] # f[k]
    OBVIOUS
  <2>1. CASE j = i
    BY <1>8, <1>13, <2>1
  <2>2. CASE j # i
    <3>1. at(j) \in 1 .. n /\ u[j] = p.used[at(j)]
      BY <1>8, <2>2
    <3>2. f[k] = p.free[k + 1] /\ k + 1 \in 1 .. l
      BY <1>3, <1>12
    <3> QED
      BY <1>7, <3>1, <3>2
  <2> QED
    BY <2>1, <2>2
<1>17. Sound(Insert(p, i))
  BY <1>3, <1>5, <1>6, <1>14, <1>15, <1>16 DEF Sound
<1>18. UsedSlots(p) = {p.used[k] : k \in 1 .. n} /\ UsedSlots(Insert(p, i)) = {u[k] : k \in 1 .. n + 1}
  <2>1. ToSet(p.used) = {p.used[k] : k \in 1 .. n}
    BY <1>1, Members DEF n
  <2>2. ToSet(u) = {u[k] : k \in 1 .. n + 1}
    <3>1. DOMAIN u = 1 .. n + 1
      BY <1>5, LenProperties
    <3> QED
      BY <3>1 DEF ToSet
  <2> QED
    BY <1>6, <2>1, <2>2 DEF UsedSlots, Range, ToSet
<1>19. {u[k] : k \in 1 .. n + 1} = {p.used[k] : k \in 1 .. n} \cup {x}
  <2>1. \A k \in 1 .. n : \E j \in 1 .. n + 1 : u[j] = p.used[k]
    BY <1>8, <1>10
  <2> QED
    BY <1>8, <2>1, SMTT(30)
<1> QED
  BY <1>1, <1>3, <1>6, <1>11, <1>17, <1>18, <1>19 DEF u, l

LEMMA TakeOutFacts ==
  ASSUME NEW S, NEW p \in Pool(S), Sound(p), NEW i \in 1 .. Len(p.used)
  PROVE  /\ TakeOut(p, i) \in Pool(S) /\ Sound(TakeOut(p, i))
         /\ TakeOut(p, i).used = LBP!Without(p.used, i)
         /\ Len(TakeOut(p, i).free) = Len(p.free) + 1
         /\ TakeOut(p, i).free[Len(p.free) + 1] = p.used[i]
         /\ \A k \in 1 .. Len(p.free) : TakeOut(p, i).free[k] = p.free[k]
         /\ UsedSlots(TakeOut(p, i)) = UsedSlots(p) \ {p.used[i]}
<1> DEFINE x == p.used[i]
           u == LBP!Without(p.used, i)
           f == Append(p.free, x)
           n == Len(p.used)
           l == Len(p.free)
<1>1. /\ p.used \in Seq(S) /\ p.free \in Seq(S) /\ n \in Nat /\ l \in Nat /\ UsedSlots(p) = {p.used[k] : k \in 1 .. n} /\ x \in S
  BY Members DEF Pool, UsedSlots, Range, ToSet
<1>2. i \in 1 .. n /\ p.used[i] = x
  OBVIOUS
<1>3. TakeOut(p, i) = [used |-> u, free |-> f]
  BY DEF TakeOut, LBP!Without
<1> HIDE DEF x
<1>4. u \in Seq(S) /\ Len(u) = n - 1 /\ \A k \in 1 .. n - 1 : u[k] = IF k < i THEN p.used[k] ELSE p.used[k + 1]
  BY <1>1, <1>2, LBP!RemoveOne, Sizes
<1>5. f \in Seq(S) /\ Len(f) = l + 1 /\ f[l + 1] = x /\ \A k \in 1 .. l : f[k] = p.free[k]
  BY <1>1, AppendProperties
<1> HIDE DEF u, f, n, l
<1>6. TakeOut(p, i) \in Pool(S) /\ TakeOut(p, i).used = u /\ TakeOut(p, i).free = f
  BY <1>3, <1>4, <1>5 DEF Pool
<1>7. /\ Injective(p.used) /\ Injective(p.free)
      /\ \A j \in 1 .. n, k \in 1 .. l : p.used[j] # p.free[k]
  BY DEF Sound, n, l
<1> DEFINE at(k) == IF k < i THEN k ELSE k + 1
<1>8. \A k \in 1 .. n - 1 : at(k) \in 1 .. n /\ at(k) # i /\ u[k] = p.used[at(k)]
  <2>1. \A k \in 1 .. n - 1 : at(k) \in 1 .. n /\ at(k) # i
    BY <1>1, <1>2
  <2> QED
    BY <1>4, <2>1
<1>9. \A j, k \in 1 .. n - 1 : at(j) = at(k) => j = k
  BY <1>1, <1>2
<1>10. \A k \in 1 .. n : k # i => \E j \in 1 .. n - 1 : at(j) = k
  <2> SUFFICES ASSUME NEW k \in 1 .. n, k # i PROVE \E j \in 1 .. n - 1 : at(j) = k
    OBVIOUS
  <2>1. CASE k < i
    <3>1. k \in 1 .. n - 1 /\ at(k) = k
      BY <1>1, <1>2, <2>1
    <3> QED
      BY <3>1
  <2>2. CASE ~(k < i)
    <3>1. k - 1 \in 1 .. n - 1 /\ at(k - 1) = k
      BY <1>1, <1>2, <2>2
    <3> QED
      BY <3>1
  <2> QED
    BY <2>1, <2>2
<1> HIDE DEF at
<1>11. \A k \in 1 .. n - 1 : u[k] # x
  BY <1>2, <1>7, <1>8 DEF Injective, n
<1>12. Injective(u)
  <2>1. \A j, k \in 1 .. n - 1 : u[j] = u[k] => j = k
    BY <1>7, <1>8, <1>9 DEF Injective, n
  <2> QED
    BY <1>4, <2>1 DEF Injective
<1>13. \A k \in 1 .. l + 1 : k = l + 1 \/ k \in 1 .. l
  BY <1>1
<1>14. \A k \in 1 .. l : p.free[k] # x
  BY <1>2, <1>7
<1>15. Injective(f)
  <2>1. \A j, k \in 1 .. l + 1 : f[j] = f[k] => j = k
    BY <1>5, <1>7, <1>13, <1>14 DEF Injective, l
  <2> QED
    BY <1>5, <2>1 DEF Injective
<1>16. \A j \in 1 .. n - 1, k \in 1 .. l + 1 : u[j] # f[k]
  BY <1>5, <1>7, <1>8, <1>11, <1>13
<1>17. Sound(TakeOut(p, i))
  BY <1>4, <1>5, <1>6, <1>12, <1>15, <1>16 DEF Sound
<1>18. UsedSlots(TakeOut(p, i)) = {u[k] : k \in 1 .. n - 1}
  <2>1. DOMAIN u = 1 .. n - 1
    BY <1>4, LenProperties
  <2> QED
    BY <1>6, <2>1 DEF UsedSlots, Range, ToSet
<1>19. {u[k] : k \in 1 .. n - 1} = {p.used[k] : k \in 1 .. n} \ {x}
  <2>1. \A k \in 1 .. n : p.used[k] # x => k # i
    BY <1>2
  <2>2. \A k \in 1 .. n : k # i => \E j \in 1 .. n - 1 : u[j] = p.used[k]
    BY <1>8, <1>10
  <2> QED
    BY <1>8, <1>11, <2>1, <2>2
<1> QED
  BY <1>1, <1>5, <1>6, <1>17, <1>18, <1>19 DEF u, x, l

LEMMA EraseFacts ==
  ASSUME NEW S, NEW p \in Pool(S), Sound(p), NEW x \in UsedSlots(p)
  PROVE  /\ Erase(p, x) \in Pool(S) /\ Sound(Erase(p, x))
         /\ UsedSlots(Erase(p, x)) = UsedSlots(p) \ {x}
<1>1. DOMAIN p.used = 1 .. Len(p.used) /\ UsedSlots(p) = {p.used[k] : k \in 1 .. Len(p.used)}
  BY Members DEF Pool, UsedSlots, Range, ToSet
<1>2. Position(p, x) \in 1 .. Len(p.used) /\ p.used[Position(p, x)] = x
  <2>1. \E k \in DOMAIN p.used : p.used[k] = x
    BY <1>1
  <2> QED
    BY <1>1, <2>1 DEF Position
<1> QED
  BY <1>2, TakeOutFacts DEF Erase

-------------------------------------------------------------------------------
(* The list of messages                                                    *)

LEMMA SameList ==
  /\ LB!Slots = LBP!Slots /\ LB!End = LBP!End /\ LBP!End = End /\ Slots = LBP!Slots
  /\ \A l : LB!new_back(l) = LBP!new_back(l) /\ LB!pop_front(l) = LBP!pop_front(l)
  /\ \A l, x : LB!erase(l, x) = LBP!erase(l, x) /\ LB!next(l, x) = LBP!next(l, x)
  /\ \A first, link : LB!Chain(first, link) = LBP!Chain(first, link)
  /\ LB!UsedSeq = LBP!UsedSeq /\ LB!FreeSeq = LBP!FreeSeq
<1>1. LB!Slots = LBP!Slots /\ LB!End = LBP!End /\ LBP!End = End /\ Slots = LBP!Slots
  BY DEF LB!Slots, LBP!Slots, LB!End, LBP!End, End, Slots
<1>2. \A l, x, v : LB!SetNext(l, x, v) = LBP!SetNext(l, x, v) /\ LB!SetPrev(l, x, v) = LBP!SetPrev(l, x, v)
  BY <1>1 DEF LB!SetNext, LBP!SetNext, LB!SetPrev, LBP!SetPrev
<1>3. \A l, x : LB!push_free(l, x) = LBP!push_free(l, x)
  BY <1>1 DEF LB!push_free, LBP!push_free
<1>4. \A l : LB!new_back(l) = LBP!new_back(l)
  BY <1>1, <1>2 DEF LB!new_back, LBP!new_back, LB!pop_free, LBP!pop_free
<1>5. \A l : LB!pop_front(l) = LBP!pop_front(l) /\ LB!pop_back(l) = LBP!pop_back(l)
  BY <1>1, <1>2, <1>3 DEF LB!pop_front, LBP!pop_front, LB!pop_back, LBP!pop_back
<1>6. \A l, x : LB!erase(l, x) = LBP!erase(l, x)
  BY <1>3, <1>5 DEF LB!erase, LBP!erase
<1>7. \A l, x : LB!next(l, x) = LBP!next(l, x)
  BY <1>1 DEF LB!next, LBP!next
<1>8. \A first, link : LB!Chain(first, link) = LBP!Chain(first, link)
  BY <1>1 DEF LB!Chain, LBP!Chain
<1>9. LB!UsedSeq = LBP!UsedSeq /\ LB!FreeSeq = LBP!FreeSeq
  BY <1>1, <1>8 DEF LB!UsedSeq, LBP!UsedSeq, LB!FreeSeq, LBP!FreeSeq
<1> QED
  BY <1>1, <1>4, <1>5, <1>6, <1>7, <1>8, <1>9

\* l stands for the used slots u and the free slots f, and the last free
\* slot, whose link is of no use any more, does not lead back among them.
Shape(l, u, f) == /\ LBP!Rep(l, u, f)
                  /\ f # << >> => l.next[f[Len(f)]] \notin ToSet(f)

\* end() after the last of a sequence of slots.
After(u, k) == IF k \in 1 .. Len(u) THEN u[k] ELSE End

\* What that says of the fields of l.
Layout(l, u, f) ==
    /\ u \in Seq(Slots) /\ f \in Seq(Slots) /\ Len(u) \in Nat /\ Len(f) \in Nat
    /\ \A k \in 1 .. Len(u) : u[k] \in Slots /\ u[k] # End
    /\ \A k \in 1 .. Len(f) : f[k] \in Slots /\ f[k] # End
    /\ Injective(u) /\ Injective(f) /\ Len(u) + Len(f) = CAPACITY
    /\ \A j \in 1 .. Len(u), k \in 1 .. Len(f) : u[j] # f[k]
    /\ ToSet(u) = {u[k] : k \in 1 .. Len(u)} /\ ToSet(f) = {f[k] : k \in 1 .. Len(f)}
    /\ ToSet(u) \cup ToSet(f) = Slots /\ ToSet(u) \cap ToSet(f) = {}
    /\ l.cursize = Len(u) /\ l.activeBegin = After(u, 1) /\ l.activeBack = After(u, Len(u))
    /\ l.freeBegin = After(f, 1) /\ l.freeBack = After(f, Len(f))
    /\ \A k \in 1 .. Len(u) : l.next[u[k]] = After(u, k + 1)
    /\ \A k \in 1 .. Len(f) - 1 : l.next[f[k]] = f[k + 1]

LEMMA ShapeFacts ==
  ASSUME NEW l, NEW u, NEW f, Shape(l, u, f)
  PROVE  Layout(l, u, f)
<1>1. /\ l \in LBP!Lists /\ u \in Seq(LBP!Slots) /\ f \in Seq(LBP!Slots)
      /\ LBP!Apart(u, f) /\ LBP!Ring(l, u) /\ LBP!Queue(l, f)
      /\ l.cursize = Len(u)
  BY DEF Shape, LBP!Rep
<1>2. u \in Seq(Slots) /\ f \in Seq(Slots)
  BY <1>1, SameList
<1>3. /\ Len(u) \in Nat /\ Len(f) \in Nat
      /\ \A k \in 1 .. Len(u) : u[k] \in Slots
      /\ \A k \in 1 .. Len(f) : f[k] \in Slots
      /\ ToSet(u) = {u[k] : k \in 1 .. Len(u)} /\ ToSet(f) = {f[k] : k \in 1 .. Len(f)}
  BY <1>2, Members
<1>4. \A x \in Slots : x # End
  BY Sizes DEF Slots, LB!Slots, End
<1>5. \A q, k : After(q, k) = LBP!At(q, k)
  BY SameList DEF After, LBP!At
<1>6. /\ Injective(u) /\ Injective(f) /\ Len(u) + Len(f) = CAPACITY
      /\ \A j \in 1 .. Len(u), k \in 1 .. Len(f) : u[j] # f[k]
      /\ \A x \in Slots : \/ \E j \in 1 .. Len(u) : x = u[j]
                          \/ \E k \in 1 .. Len(f) : x = f[k]
  BY <1>1, SameList DEF LBP!Apart, LBP!Injective, Injective
<1>7. ToSet(u) \cup ToSet(f) = Slots /\ ToSet(u) \cap ToSet(f) = {}
  BY <1>3, <1>6
<1>8. /\ l.activeBegin = LBP!At(u, 1) /\ l.activeBack = LBP!At(u, Len(u))
      /\ \A k \in 1 .. Len(u) : l.next[u[k]] = LBP!At(u, k + 1) /\ l.prev[u[k]] = LBP!At(u, k - 1)
  BY <1>1, LBP!RingLinks, Sizes
<1>9. /\ l.freeBegin = LBP!At(f, 1) /\ l.freeBack = LBP!At(f, Len(f))
      /\ \A k \in 1 .. Len(f) - 1 : l.next[f[k]] = f[k + 1]
  BY <1>1 DEF LBP!Queue
<1>10. /\ l.activeBegin = After(u, 1) /\ l.activeBack = After(u, Len(u))
       /\ \A k \in 1 .. Len(u) : l.next[u[k]] = After(u, k + 1)
       /\ l.freeBegin = After(f, 1) /\ l.freeBack = After(f, Len(f))
  BY <1>5, <1>8, <1>9, Zenon
<1>11. /\ \A k \in 1 .. Len(u) : u[k] \in Slots /\ u[k] # End
       /\ \A k \in 1 .. Len(f) : f[k] \in Slots /\ f[k] # End
  BY <1>3, <1>4, Zenon
<1> QED
  BY <1>1, <1>2, <1>3, <1>6, <1>7, <1>9, <1>10, <1>11, Zenon DEF Layout

\* v is u with x at the end; with its i-th element taken out.
Grown(u, x, v) == /\ Len(v) = Len(u) + 1 /\ v[Len(u) + 1] = x
                  /\ \A k \in 1 .. Len(u) : v[k] = u[k]
Without(u, i, v) == /\ Len(v) = Len(u) - 1
                    /\ \A k \in 1 .. Len(u) - 1 : v[k] = IF k < i THEN u[k] ELSE u[k + 1]

LEMMA InsertLast ==
  ASSUME NEW S, NEW u \in Seq(S), NEW x \in S
  PROVE  LBP!With(u, Len(u) + 1, x) \in Seq(S) /\ Grown(u, x, LBP!With(u, Len(u) + 1, x))
<1> DEFINE i == Len(u) + 1
<1>1. Len(u) \in Nat /\ i \in 1 .. Len(u) + 1
  BY Members
<1> HIDE DEF i
<1>2. /\ LBP!With(u, i, x) \in Seq(S) /\ Len(LBP!With(u, i, x)) = Len(u) + 1
      /\ \A k \in 1 .. Len(u) + 1 :
           LBP!With(u, i, x)[k] = IF k < i THEN u[k] ELSE IF k = i THEN x ELSE u[k - 1]
  BY <1>1, LBP!InsertOne, Sizes
<1> QED
  BY <1>1, <1>2 DEF i, Grown

\* One more at the end is one more in the set.
LEMMA LastIn ==
  ASSUME NEW S, NEW T, NEW u \in Seq(S), NEW v \in Seq(T), NEW x, Grown(u, x, v)
  PROVE  \A y : y \in ToSet(v) <=> y \in ToSet(u) \/ y = x
<1>1. Len(u) \in Nat /\ ToSet(u) = {u[k] : k \in 1 .. Len(u)} /\ ToSet(v) = {v[k] : k \in 1 .. Len(u) + 1}
  <2>1. Len(u) \in Nat /\ ToSet(u) = {u[k] : k \in 1 .. Len(u)}
    BY Members
  <2>2. ToSet(v) = {v[k] : k \in 1 .. Len(v)} /\ Len(v) = Len(u) + 1
    BY Members DEF Grown
  <2> QED
    BY <2>1, <2>2
<1>2. /\ \A k \in 1 .. Len(u) + 1 : k \in 1 .. Len(u) \/ k = Len(u) + 1
      /\ \A k \in 1 .. Len(u) : k \in 1 .. Len(u) + 1
      /\ Len(u) + 1 \in 1 .. Len(u) + 1
  BY <1>1
<1> QED
  BY <1>1, <1>2 DEF Grown

\* The first free slot becomes the last in use; the links of the slots that
\* stay free are left alone.
LEMMA AddedBack ==
  ASSUME NEW l, NEW u, NEW f, Shape(l, u, f), f # << >>
  PROVE  /\ f[1] \in Slots /\ l.freeBegin = f[1] /\ Len(f) \in Nat \ {0}
         /\ \E v, g : /\ Shape(LB!new_back(l), v, g) /\ Grown(u, f[1], v) /\ Without(f, 1, g)
                      /\ ToSet(v) = ToSet(u) \cup {f[1]}
                      /\ \A k \in 2 .. Len(f) : LB!new_back(l).next[f[k]] = l.next[f[k]]
<1> DEFINE n == Len(u)
           v == LBP!With(u, n + 1, Head(f))
           g == Tail(f)
           m == LBP!new_back(l)
<1>0. Layout(l, u, f)
  BY ShapeFacts
<1>1. /\ u \in Seq(Slots) /\ f \in Seq(Slots) /\ n \in Nat /\ Len(f) \in Nat
      /\ \A k \in 1 .. Len(f) : f[k] \in Slots /\ f[k] # End
      /\ Injective(f) /\ \A j \in 1 .. n, k \in 1 .. Len(f) : u[j] # f[k]
      /\ ToSet(u) = {u[k] : k \in 1 .. n} /\ ToSet(f) = {f[k] : k \in 1 .. Len(f)}
      /\ l.freeBegin = After(f, 1) /\ l.activeBack = After(u, n)
  BY <1>0, Zenon DEF Layout
<1>2. LBP!Rep(l, u, f)
  BY DEF Shape
<1>3. LBP!Rep(m, v, g)
  BY <1>2, LBP!NewBack, Sizes
<1>4. /\ Head(f) = f[1] /\ g \in Seq(Slots) /\ Len(g) = Len(f) - 1 /\ Len(f) \in Nat \ {0}
      /\ \A k \in 1 .. Len(f) - 1 : g[k] = f[k + 1]
  BY <1>1, HeadTailProperties, EmptySeq
<1>5. f[1] \in Slots /\ l.freeBegin = f[1]
  BY <1>1, <1>4 DEF After
<1>6. v = LBP!With(u, n + 1, f[1])
  BY <1>4
<1> HIDE DEF v, g
<1>7. v \in Seq(Slots) /\ Grown(u, f[1], v)
  BY <1>1, <1>5, <1>6, InsertLast
<1>8. Len(v) = n + 1
  BY <1>7 DEF Grown
<1>9. Without(f, 1, g)
  <2>1. \A k \in 1 .. Len(f) - 1 : ~(k < 1)
    BY <1>1
  <2> QED
    BY <1>4, <2>1 DEF Without
<1>10. ToSet(v) = ToSet(u) \cup {f[1]}
  <2>1. \A y : y \in ToSet(v) <=> y \in ToSet(u) \/ y = f[1]
    BY <1>1, <1>7, LastIn
  <2> QED
    BY <2>1
<1>11. \A x \in Slots : x # f[1] /\ x # After(u, n) => m.next[x] = l.next[x]
  <2>1. l \in LBP!Lists /\ l.next \in [Slots -> LBP!Index]
    BY <1>2, SameList DEF LBP!Rep, LBP!Lists
  <2>2. m.next = IF l.activeBack = End THEN [l.next EXCEPT ![f[1]] = End]
                 ELSE [[l.next EXCEPT ![f[1]] = End] EXCEPT ![l.activeBack] = f[1]]
    BY <1>5, <2>1, SameList DEF LBP!new_back, LBP!pop_free, LBP!SetNext, LBP!Lists
  <2> HIDE DEF m
  <2> QED
    BY <1>1, <1>5, <2>1, <2>2
<1> HIDE DEF m
<1>12. \A k \in 2 .. Len(f) : m.next[f[k]] = l.next[f[k]]
  <2> SUFFICES ASSUME NEW k \in 2 .. Len(f) PROVE m.next[f[k]] = l.next[f[k]]
    OBVIOUS
  <2>1. k \in 1 .. Len(f) /\ 1 \in 1 .. Len(f) /\ k # 1
    BY <1>1
  <2>2. f[k] \in Slots /\ f[k] # f[1]
    BY <1>1, <2>1 DEF Injective
  <2>3. f[k] # After(u, n)
    BY <1>1, <2>1 DEF After
  <2> QED
    BY <1>11, <2>2, <2>3
<1>13. g # << >> => m.next[g[Len(g)]] \notin ToSet(g)
  <2> SUFFICES ASSUME g # << >> PROVE m.next[g[Len(g)]] \notin ToSet(g)
    OBVIOUS
  <2>1. Len(g) # 0
    BY <1>4, EmptySeq
  <2>2. Len(f) \in 2 .. Len(f) /\ Len(g) \in 1 .. Len(f) - 1 /\ Len(g) + 1 = Len(f)
    BY <1>4, <2>1
  <2>3. g[Len(g)] = f[Len(f)]
    BY <1>4, <2>2
  <2>4. m.next[g[Len(g)]] = l.next[f[Len(f)]]
    BY <1>12, <2>2, <2>3
  <2>5. ToSet(g) = {g[k] : k \in 1 .. Len(g)}
    BY <1>4, Members
  <2>6. \A k \in 1 .. Len(f) - 1 : k + 1 \in 1 .. Len(f)
    BY <1>4
  <2>7. ToSet(g) \subseteq ToSet(f)
    BY <1>1, <1>4, <2>5, <2>6
  <2> QED
    BY <2>4, <2>7 DEF Shape
<1>14. Shape(m, v, g)
  BY <1>3, <1>13 DEF Shape
<1> QED
  BY <1>4, <1>5, <1>7, <1>9, <1>10, <1>12, <1>14, SameList DEF m

\* A sequence of slots without its i-th element.
LEMMA OneOut ==
  ASSUME NEW S, NEW u \in Seq(S), NEW i \in 1 .. Len(u)
  PROVE  LBP!Without(u, i) \in Seq(S) /\ Without(u, i, LBP!Without(u, i))
  BY LBP!RemoveOne, Sizes DEF Without

LEMMA OneLess ==
  ASSUME NEW S, NEW T, NEW u \in Seq(S), NEW v \in Seq(T), NEW i \in 1 .. Len(u), Without(u, i, v),
         Injective(u)
  PROVE  \A y : y \in ToSet(v) <=> y \in ToSet(u) /\ y # u[i]
<1>1. Len(u) \in Nat /\ ToSet(u) = {u[k] : k \in 1 .. Len(u)}
  BY Members
<1>2. Len(v) = Len(u) - 1 /\ ToSet(v) = {v[k] : k \in 1 .. Len(v)}
  BY Members DEF Without
<1> DEFINE at(k) == IF k < i THEN k ELSE k + 1
<1>3. \A k \in 1 .. Len(u) - 1 : at(k) \in 1 .. Len(u) /\ at(k) # i
  BY <1>1
<1>4. \A k \in 1 .. Len(u) - 1 : v[k] = u[at(k)]
  BY <1>1 DEF Without
<1>5. \A k \in 1 .. Len(u) : k # i => \E j \in 1 .. Len(u) - 1 : at(j) = k
  <2> SUFFICES ASSUME NEW k \in 1 .. Len(u), k # i PROVE \E j \in 1 .. Len(u) - 1 : at(j) = k
    OBVIOUS
  <2>1. k < i => k \in 1 .. Len(u) - 1 /\ at(k) = k
    BY <1>1
  <2>2. ~(k < i) => k - 1 \in 1 .. Len(u) - 1 /\ at(k - 1) = k
    BY <1>1
  <2> QED
    BY <2>1, <2>2
<1> HIDE DEF at
<1>6. ToSet(v) = {v[k] : k \in 1 .. Len(u) - 1}
  BY <1>2
<1>7. ASSUME NEW k \in 1 .. Len(u) - 1 PROVE v[k] \in ToSet(u) /\ v[k] # u[i]
  BY <1>1, <1>3, <1>4 DEF Injective
<1>8. ASSUME NEW k \in 1 .. Len(u), u[k] # u[i] PROVE u[k] \in ToSet(v)
  <2>1. PICK j \in 1 .. Len(u) - 1 : at(j) = k
    BY <1>5, <1>8
  <2> QED
    BY <1>4, <1>6, <2>1
<1> QED
  BY <1>1, <1>6, <1>7, <1>8

\* The erased slot becomes the last free one; it keeps its link, and the
\* slots before it and behind it become neighbours.
Erased(u, f, m, i, v, g) == /\ Shape(m, v, g) /\ Without(u, i, v) /\ Grown(f, u[i], g)
                            /\ ToSet(v) = ToSet(u) \ {u[i]}
                            /\ ToSet(g) = ToSet(f) \cup {u[i]}
                            /\ m.next[u[i]] = After(u, i + 1)

LEMMA TakenOutFacts ==
  ASSUME NEW l, NEW u, NEW f, Shape(l, u, f), NEW m, NEW i \in 1 .. Len(u),
         LBP!Rep(m, LBP!Without(u, i), Append(f, u[i])),
         m.next[u[i]] = After(u, i + 1)
  PROVE  \E v, g : Erased(u, f, m, i, v, g)
<1> DEFINE x == u[i]
           v == LBP!Without(u, i)
           g == Append(f, x)
<1>0. Layout(l, u, f)
  BY ShapeFacts
<1>1. /\ u \in Seq(Slots) /\ f \in Seq(Slots) /\ Len(u) \in Nat /\ Len(f) \in Nat
      /\ \A k \in 1 .. Len(u) : u[k] \in Slots /\ u[k] # End
      /\ Injective(u) /\ \A j \in 1 .. Len(u), k \in 1 .. Len(f) : u[j] # f[k]
      /\ ToSet(u) = {u[k] : k \in 1 .. Len(u)} /\ ToSet(f) = {f[k] : k \in 1 .. Len(f)}
  BY <1>0, Zenon DEF Layout
<1>2. v \in Seq(Slots) /\ Without(u, i, v)
  BY <1>1, OneOut
<1>3. x \in Slots /\ x # End
  BY <1>1
<1>4. g \in Seq(Slots) /\ Len(g) = Len(f) + 1 /\ g[Len(f) + 1] = x /\ \A k \in 1 .. Len(f) : g[k] = f[k]
  <2> HIDE DEF x
  <2> QED
    BY <1>1, <1>3, AppendProperties
<1>5. LBP!Rep(m, v, g)
  OBVIOUS
<1> HIDE DEF v, g
<1>7. Grown(f, x, g)
  BY <1>4 DEF Grown
<1>8. ToSet(v) = ToSet(u) \ {x}
  <2>1. \A y : y \in ToSet(v) <=> y \in ToSet(u) /\ y # u[i]
    BY <1>1, <1>2, OneLess
  <2> QED
    BY <2>1
<1>9. ToSet(g) = ToSet(f) \cup {x}
  <2>1. \A y : y \in ToSet(g) <=> y \in ToSet(f) \/ y = x
    BY <1>1, <1>4, <1>7, LastIn
  <2> QED
    BY <2>1
<1>10. After(u, i + 1) \notin ToSet(g)
  <2>1. \A k \in 1 .. Len(f) : f[k] # End
    BY <1>0, Zenon DEF Layout
  <2>2. CASE i + 1 \in 1 .. Len(u)
    <3>1. u[i + 1] # u[i]
      BY <1>1, <2>2 DEF Injective
    <3> QED
      BY <1>1, <1>9, <2>2, <3>1 DEF After
  <2>3. CASE i + 1 \notin 1 .. Len(u)
    BY <1>1, <1>3, <1>9, <2>1, <2>3 DEF After
  <2> QED
    BY <2>2, <2>3
<1>11. m.next[g[Len(g)]] \notin ToSet(g)
  BY <1>4, <1>10
<1> QED
  BY <1>5, <1>2, <1>7, <1>8, <1>9, <1>11, Zenon DEF Shape, Erased

LEMMA ErasedOne ==
  ASSUME NEW l, NEW u, NEW f, Shape(l, u, f), NEW x \in ToSet(u)
  PROVE  \E i \in 1 .. Len(u) : x = u[i] /\ \E v, g : Erased(u, f, LB!erase(l, x), i, v, g)
<1> DEFINE m == LBP!erase(l, x)
<1>0. Layout(l, u, f) /\ LBP!Rep(l, u, f)
  BY ShapeFacts DEF Shape
<1>1. /\ u \in Seq(Slots) /\ f \in Seq(Slots) /\ Len(u) \in Nat /\ Len(f) \in Nat
      /\ \A k \in 1 .. Len(u) : u[k] \in Slots /\ u[k] # End
      /\ \A k \in 1 .. Len(f) : f[k] \in Slots /\ f[k] # End
      /\ Injective(u) /\ \A j \in 1 .. Len(u), k \in 1 .. Len(f) : u[j] # f[k]
      /\ ToSet(u) = {u[k] : k \in 1 .. Len(u)} /\ ToSet(f) = {f[k] : k \in 1 .. Len(f)}
      /\ l.activeBegin = After(u, 1) /\ l.activeBack = After(u, Len(u))
      /\ l.freeBack = After(f, Len(f))
      /\ \A k \in 1 .. Len(u) : l.next[u[k]] = After(u, k + 1)
  BY <1>0, Zenon DEF Layout
<1>2. x \in LBP!Range(u)
  BY DEF LBP!Range, ToSet
<1>3. PICK i \in 1 .. Len(u) : LBP!Rep(m, LBP!Without(u, i), Append(f, u[i]))
  BY <1>0, <1>2, LBP!Erases, Sizes
<1>4. l \in LBP!Lists /\ l.next \in [Slots -> LBP!Index] /\ l.prev \in [Slots -> LBP!Index] /\ x \in Slots
  BY <1>0, <1>1, SameList DEF LBP!Rep, LBP!Lists
<1>5. x # l.freeBack /\ x # End
  <2>1. \A k : After(f, k) = End \/ \E j \in 1 .. Len(f) : After(f, k) = f[j]
    BY DEF After
  <2>2. \A j \in 1 .. Len(f) : f[j] # x
    BY <1>1
  <2> QED
    BY <1>1, <2>1, <2>2
<1>6. l.prev[x] # x
  <2>1. PICK j \in 1 .. Len(u) : x = u[j]
    BY <1>1
  <2>2. l.prev[x] = LBP!At(u, j - 1)
    BY <1>0, <1>1, <2>1, SameList, LBP!RingLinks, Sizes DEF LBP!Rep
  <2>3. j - 1 \in 1 .. Len(u) => u[j - 1] # u[j]
    BY <1>1 DEF Injective
  <2> QED
    BY <1>5, <2>1, <2>2, <2>3, SameList DEF LBP!At
<1>7. /\ m.freeBack = x
      /\ m.next[x] = l.next[x]
  <2>1. ASSUME NEW k, k \in LBP!Lists, k.freeBack = l.freeBack, k.next[x] = l.next[x]
        PROVE  LBP!push_free(k, x).freeBack = x /\ LBP!push_free(k, x).next[x] = l.next[x]
    BY <1>4, <1>5, <2>1, SameList DEF LBP!push_free, LBP!Lists
  <2>2. ASSUME x = l.activeBegin
        PROVE  m.freeBack = x /\ m.next[x] = l.next[x]
    <3> DEFINE n == l.next[x]
               k == [LBP!SetPrev(l, n, End) EXCEPT !.activeBegin = n]
    <3>1. m = LBP!push_free(k, x)
      BY <2>2, SameList DEF LBP!erase, LBP!pop_front
    <3>2. n \in LBP!Index /\ End \in LBP!Index
      BY <1>4, SameList DEF LBP!Index
    <3>3. k \in LBP!Lists /\ k.freeBack = l.freeBack /\ k.next = l.next
      <4> HIDE DEF n
      <4> QED
        BY <1>4, <3>2, SameList DEF LBP!SetPrev, LBP!Lists
    <3> HIDE DEF k
    <3> QED
      BY <2>1, <3>1, <3>3
  <2>3. ASSUME x # l.activeBegin, x = l.activeBack
        PROVE  m.freeBack = x /\ m.next[x] = l.next[x]
    <3> DEFINE p == l.prev[x]
               k == [LBP!SetNext(l, p, End) EXCEPT !.activeBack = p]
    <3>1. m = LBP!push_free(k, x)
      BY <2>3, SameList DEF LBP!erase, LBP!pop_back
    <3>2. p \in LBP!Index /\ End \in LBP!Index /\ p # x
      BY <1>4, <1>6, SameList DEF LBP!Index
    <3>3. k \in LBP!Lists /\ k.freeBack = l.freeBack /\ k.next[x] = l.next[x]
      <4> HIDE DEF p
      <4> QED
        BY <1>4, <3>2, SameList DEF LBP!SetNext, LBP!Lists, LBP!Index
    <3> HIDE DEF k
    <3> QED
      BY <2>1, <3>1, <3>3
  <2>4. ASSUME x # l.activeBegin, x # l.activeBack
        PROVE  m.freeBack = x /\ m.next[x] = l.next[x]
    <3> DEFINE p == l.prev[x]
               n == l.next[x]
               k == [l EXCEPT !.prev[n] = p, !.next[p] = n]
    <3>1. m = LBP!push_free(k, x)
      BY <2>4 DEF LBP!erase
    <3>2. p \in LBP!Index /\ n \in LBP!Index /\ p # x
      BY <1>4, <1>6
    <3>3. k \in LBP!Lists /\ k.freeBack = l.freeBack /\ k.next[x] = l.next[x]
      <4> HIDE DEF p, n
      <4> QED
        BY <1>4, <3>2, SameList DEF LBP!Lists
    <3> HIDE DEF k
    <3> QED
      BY <2>1, <3>1, <3>3
  <2> QED
    BY <2>2, <2>3, <2>4
<1>8. m.freeBack = u[i]
  <2> DEFINE g == Append(f, u[i])
  <2>1. g \in Seq(Slots) /\ Len(g) = Len(f) + 1 /\ g[Len(f) + 1] = u[i]
    BY <1>1, AppendProperties
  <2>2. m.freeBack = LBP!At(g, Len(g))
    BY <1>3 DEF LBP!Rep, LBP!Queue
  <2> HIDE DEF g, m
  <2>3. Len(g) \in 1 .. Len(g)
    BY <1>1, <2>1
  <2> QED
    BY <2>1, <2>2, <2>3 DEF LBP!At
<1>9. x = u[i] /\ m.next[u[i]] = After(u, i + 1)
  BY <1>1, <1>7, <1>8
<1>10. \E v, g : Erased(u, f, m, i, v, g)
  <2> HIDE DEF m
  <2> QED
    BY <1>3, <1>9, TakenOutFacts
<1> QED
  BY <1>9, <1>10, SameList DEF m
\* The erase loop of removeReceiver, cut off after n slots of u.
Loop(l, u, S, n, h) ==
    [k \in 0 .. n |-> IF k = 0 THEN l ELSE IF u[k] \in S THEN LB!erase(h[k - 1], u[k]) ELSE h[k - 1]]

LEMMA LoopRuns ==
  ASSUME NEW l, NEW u, NEW S, NEW n \in Nat
  PROVE  \E h : h = Loop(l, u, S, n, h)
<1> DEFINE Bad == {m \in Nat : ~ \E h : h = Loop(l, u, S, m, h)}
<1> SUFFICES ASSUME Bad # {} PROVE FALSE
  OBVIOUS
<1>1. PICK m \in Bad : \A y \in Bad : m <= y
  <2>1. Bad \in SUBSET Nat
    OBVIOUS
  <2> HIDE DEF Bad
  <2> QED
    BY <2>1, LBP!LeastNat, Sizes
<1>2. m \in Nat /\ ~ \E h : h = Loop(l, u, S, m, h)
  OBVIOUS
<1>3. CASE m = 0
  <2> DEFINE h == [k \in 0 .. 0 |-> l]
  <2>1. Loop(l, u, S, 0, h) = h
    <3>1. \A k \in 0 .. 0 : k = 0
      OBVIOUS
    <3> QED
      BY <3>1 DEF Loop
  <2> QED
    BY <1>2, <1>3, <2>1
<1>4. CASE m # 0
  <2>1. m - 1 \in Nat /\ ~(m <= m - 1)
    BY <1>2, <1>4
  <2>2. m - 1 \notin Bad
    BY <1>1, <2>1
  <2>3. PICK h : h = Loop(l, u, S, m - 1, h)
    BY <2>1, <2>2
  <2> DEFINE j == [k \in 0 .. m |-> IF k = m THEN Loop(l, u, S, m, h)[m] ELSE h[k]]
  <2>4. \A k \in 0 .. m : k # m => k \in 0 .. m - 1
    BY <1>2
  <2>5. \A k \in 0 .. m - 1 : h[k] = IF k = 0 THEN l ELSE IF u[k] \in S THEN LB!erase(h[k - 1], u[k]) ELSE h[k - 1]
    BY <2>3 DEF Loop
  <2>6. \A k \in 0 .. m : k # 0 => k - 1 \in 0 .. m - 1 /\ k - 1 \in 0 .. m /\ k - 1 # m
    BY <1>2
  <2>7. \A k \in 0 .. m : k # 0 => j[k - 1] = h[k - 1]
    BY <2>6
  <2>8. ASSUME NEW k \in 0 .. m
        PROVE  j[k] = IF k = 0 THEN l ELSE IF u[k] \in S THEN LB!erase(j[k - 1], u[k]) ELSE j[k - 1]
    <3>1. j[k] = IF k = m THEN Loop(l, u, S, m, h)[m] ELSE h[k]
      OBVIOUS
    <3>2. m \in 0 .. m
      BY <1>2
    <3>3. Loop(l, u, S, m, h)[m] = IF u[m] \in S THEN LB!erase(h[m - 1], u[m]) ELSE h[m - 1]
      BY <1>4, <3>2 DEF Loop
    <3> HIDE DEF j
    <3> QED
      BY <1>4, <2>4, <2>5, <2>7, <3>1, <3>3
  <2>9. j = Loop(l, u, S, m, j)
    <3>1. j = [k \in 0 .. m |-> j[k]]
      OBVIOUS
    <3> HIDE DEF j
    <3> QED
      BY <2>8, <3>1 DEF Loop
  <2> QED
    BY <1>2, <2>9
<1> QED
  BY <1>3, <1>4

\* v has elements of u only, in the order of u.
InOrderOf(u, v) ==
    \A a, b \in 1 .. Len(v) : a < b => \E j, k \in 1 .. Len(u) : j < k /\ v[a] = u[j] /\ v[b] = u[k]

\* u and f after the elements of S have been erased among the first k of u;
\* the rest of u is still the end of v.
Pruned(u, f, S, k, m, v, g) ==
    /\ Shape(m, v, g)
    /\ ToSet(v) = ToSet(u) \ {u[j] : j \in {i \in 1 .. k : u[i] \in S}}
    /\ ToSet(g) = ToSet(f) \cup {u[j] : j \in {i \in 1 .. k : u[i] \in S}}
    /\ Len(v) >= Len(u) - k
    /\ \A t \in 1 .. Len(u) - k : v[Len(v) - Len(u) + k + t] = u[k + t]
    /\ InOrderOf(u, v)
    /\ Len(g) >= Len(f) /\ \A i \in 1 .. Len(f) : g[i] = f[i]
    /\ \A i \in Len(f) + 1 .. Len(g) : g[i] \in S /\ g[i] \in ToSet(u)
    /\ Len(g) > Len(f) =>
         \E j \in 1 .. k : /\ u[j] \in S /\ g[Len(g)] = u[j] /\ m.next[u[j]] = After(u, j + 1)
                           /\ \A i \in j + 1 .. k : u[i] \notin S

LEMMA PrunedOne ==
  ASSUME NEW l, NEW u, NEW f, Shape(l, u, f), NEW S, NEW k \in 1 .. Len(u), u[k] \in S,
         NEW m, NEW v, NEW g, Pruned(u, f, S, k - 1, m, v, g)
  PROVE  \E w, h : Pruned(u, f, S, k, LB!erase(m, u[k]), w, h)
<1> DEFINE N == Len(u)
           p == Len(v) - N + k
           x == u[k]
           e == LB!erase(m, x)
<1>0. Layout(l, u, f) /\ Shape(m, v, g) /\ Layout(m, v, g)
  BY ShapeFacts DEF Pruned
<1>1. /\ u \in Seq(Slots) /\ f \in Seq(Slots) /\ N \in Nat /\ Len(f) \in Nat /\ Injective(u)
      /\ ToSet(u) = {u[i] : i \in 1 .. N}
  BY <1>0, Zenon DEF Layout
<1>2. /\ v \in Seq(Slots) /\ g \in Seq(Slots) /\ Len(v) \in Nat /\ Len(g) \in Nat /\ Injective(v)
      /\ ToSet(v) = {v[i] : i \in 1 .. Len(v)}
  BY <1>0, Zenon DEF Layout
<1>3. /\ Len(v) >= N - (k - 1)
      /\ \A t \in 1 .. N - (k - 1) : v[Len(v) - N + (k - 1) + t] = u[(k - 1) + t]
      /\ InOrderOf(u, v)
      /\ Len(g) >= Len(f) /\ \A i \in 1 .. Len(f) : g[i] = f[i]
      /\ \A i \in Len(f) + 1 .. Len(g) : g[i] \in S /\ g[i] \in ToSet(u)
      /\ ToSet(v) = ToSet(u) \ {u[j] : j \in {i \in 1 .. k - 1 : u[i] \in S}}
      /\ ToSet(g) = ToSet(f) \cup {u[j] : j \in {i \in 1 .. k - 1 : u[i] \in S}}
  BY Zenon DEF Pruned
<1>4. p \in 1 .. Len(v)
  BY <1>1, <1>2, <1>3
<1>5. v[p] = x
  <2>1. 1 \in 1 .. N - (k - 1) /\ Len(v) - N + (k - 1) + 1 = p /\ (k - 1) + 1 = k
    BY <1>1, <1>2
  <2> HIDE DEF p, N
  <2> QED
    BY <1>3, <2>1
<1>6. x \in ToSet(v)
  BY <1>2, <1>4, <1>5
<1>7. PICK i \in 1 .. Len(v) : x = v[i] /\ \E w, h : Erased(v, g, e, i, w, h)
  <2> HIDE DEF x
  <2> QED
    BY <1>0, <1>6, ErasedOne
<1>8. i = p
  BY <1>2, <1>4, <1>5, <1>7 DEF Injective
<1>9. PICK w, h : Erased(v, g, e, p, w, h)
  BY <1>7, <1>8
<1> HIDE DEF e
<1>10. /\ Shape(e, w, h) /\ Without(v, p, w) /\ Grown(g, x, h)
       /\ ToSet(w) = ToSet(v) \ {x} /\ ToSet(h) = ToSet(g) \cup {x}
       /\ e.next[x] = After(v, p + 1)
  BY <1>5, <1>9, Zenon DEF Erased
<1>11. /\ Len(w) = Len(v) - 1 /\ \A t \in 1 .. Len(v) - 1 : w[t] = IF t < p THEN v[t] ELSE v[t + 1]
       /\ Len(h) = Len(g) + 1 /\ h[Len(g) + 1] = x /\ \A t \in 1 .. Len(g) : h[t] = g[t]
  BY <1>10 DEF Without, Grown
<1>12. {u[j] : j \in {q \in 1 .. k : u[q] \in S}} = {u[j] : j \in {q \in 1 .. k - 1 : u[q] \in S}} \cup {x}
  <2>1. \A q \in 1 .. k : q \in 1 .. k - 1 \/ q = k
    OBVIOUS
  <2>2. \A q \in 1 .. k - 1 : q \in 1 .. k
    OBVIOUS
  <2>3. k \in 1 .. k
    OBVIOUS
  <2> QED
    BY <2>1, <2>2, <2>3
<1>13. /\ ToSet(w) = ToSet(u) \ {u[j] : j \in {q \in 1 .. k : u[q] \in S}}
       /\ ToSet(h) = ToSet(f) \cup {u[j] : j \in {q \in 1 .. k : u[q] \in S}}
  <2> DEFINE A == {u[j] : j \in {q \in 1 .. k : u[q] \in S}}
             B == {u[j] : j \in {q \in 1 .. k - 1 : u[q] \in S}}
  <2>1. A = B \cup {x} /\ ToSet(v) = ToSet(u) \ B /\ ToSet(g) = ToSet(f) \cup B
    BY <1>3, <1>12
  <2> HIDE DEF A, B, x
  <2>2. ToSet(w) = ToSet(u) \ A /\ ToSet(h) = ToSet(f) \cup A
    BY <1>10, <2>1
  <2> QED
    BY <2>2 DEF A
<1>14. Len(w) >= N - k /\ \A t \in 1 .. N - k : w[Len(w) - N + k + t] = u[k + t]
  <2>1. Len(w) >= N - k
    BY <1>1, <1>2, <1>3, <1>11
  <2> SUFFICES ASSUME NEW t \in 1 .. N - k PROVE w[Len(w) - N + k + t] = u[k + t]
    BY <2>1
  <2>2. /\ Len(w) - N + k + t = p - 1 + t /\ p - 1 + t \in 1 .. Len(v) - 1
        /\ ~(p - 1 + t < p) /\ p - 1 + t + 1 = Len(v) - N + (k - 1) + (t + 1)
        /\ t + 1 \in 1 .. N - (k - 1) /\ (k - 1) + (t + 1) = k + t
    BY <1>1, <1>2, <1>3, <1>11
  <2>3. w[p - 1 + t] = v[p - 1 + t + 1]
    <3> HIDE DEF p, N
    <3> QED
      BY <1>11, <2>2
  <2>4. v[Len(v) - N + (k - 1) + (t + 1)] = u[(k - 1) + (t + 1)]
    <3> HIDE DEF p, N
    <3> QED
      BY <1>3, <2>2
  <2> HIDE DEF p, N
  <2> QED
    BY <2>2, <2>3, <2>4
<1>15. InOrderOf(u, w)
  <2> SUFFICES ASSUME NEW a \in 1 .. Len(w), NEW b \in 1 .. Len(w), a < b
               PROVE  \E i1, i2 \in 1 .. N : i1 < i2 /\ w[a] = u[i1] /\ w[b] = u[i2]
    BY DEF InOrderOf
  <2> DEFINE at(t) == IF t < p THEN t ELSE t + 1
  <2>1. at(a) \in 1 .. Len(v) /\ at(b) \in 1 .. Len(v) /\ at(a) < at(b)
    BY <1>2, <1>4, <1>11
  <2>2. w[a] = v[at(a)] /\ w[b] = v[at(b)]
    BY <1>2, <1>11
  <2> HIDE DEF at, N
  <2> QED
    BY <1>3, <2>1, <2>2, SMTT(30) DEF InOrderOf, N
<1>16. /\ Len(h) >= Len(f) /\ \A t \in 1 .. Len(f) : h[t] = f[t]
       /\ \A t \in Len(f) + 1 .. Len(h) : h[t] \in S /\ h[t] \in ToSet(u)
  <2>1. Len(h) >= Len(f)
    BY <1>1, <1>2, <1>3, <1>11
  <2>2. \A t \in 1 .. Len(f) : t \in 1 .. Len(g)
    BY <1>1, <1>2, <1>3
  <2>3. ASSUME NEW t \in Len(f) + 1 .. Len(h), t # Len(g) + 1
        PROVE  t \in Len(f) + 1 .. Len(g) /\ t \in 1 .. Len(g)
    <3>1. Len(h) = Len(g) + 1 /\ Len(g) \in Nat /\ Len(f) \in Nat
      BY <1>1, <1>2, <1>11
    <3> QED
      BY <2>3, <3>1
  <2>4. x \in ToSet(u)
    BY <1>1
  <2> HIDE DEF x
  <2>5. x \in S
    BY DEF x
  <2> QED
    BY <1>3, <1>11, <2>1, <2>2, <2>3, <2>4, <2>5
<1>17. After(v, p + 1) = After(u, k + 1)
  <2>1. p + 1 \in 1 .. Len(v) <=> k + 1 \in 1 .. N
    BY <1>1, <1>2, <1>4
  <2>2. CASE k + 1 \in 1 .. N
    <3>1. 2 \in 1 .. N - (k - 1) /\ Len(v) - N + (k - 1) + 2 = p + 1 /\ (k - 1) + 2 = k + 1
      BY <1>1, <1>2, <2>2
    <3> HIDE DEF p, N
    <3>2. v[p + 1] = u[k + 1]
      BY <1>3, <3>1
    <3> QED
      BY <2>1, <2>2, <3>2 DEF After, N
  <2>3. CASE k + 1 \notin 1 .. N
    BY <2>1, <2>3 DEF After
  <2> QED
    BY <2>2, <2>3
<1>18. \E j \in 1 .. k : /\ u[j] \in S /\ h[Len(h)] = u[j] /\ e.next[u[j]] = After(u, j + 1)
                         /\ \A q \in j + 1 .. k : u[q] \notin S
  <2>1. k \in 1 .. k /\ \A q \in k + 1 .. k : FALSE
    OBVIOUS
  <2>2. u[k] \in S /\ h[Len(h)] = u[k] /\ e.next[u[k]] = After(u, k + 1)
    BY <1>10, <1>11, <1>17
  <2> QED
    BY <2>1, <2>2
<1>19. Pruned(u, f, S, k, e, w, h)
  <2> HIDE DEF x, p
  <2> QED
    BY <1>10, <1>13, <1>14, <1>15, <1>16, <1>18, Zenon DEF Pruned, N
<1> QED
  BY <1>19 DEF e

\* removeReceiver's loop takes the slots of S out of the list, whatever S is.
LEMMA ErasedSlots ==
  ASSUME NEW S, NEW u, NEW f, u = LB!UsedSeq, Shape(mq, u, f)
  PROVE  \E v, g : Pruned(u, f, S, Len(u), EraseSlots(S), v, g)
<1> DEFINE N == Len(u)
           h == CHOOSE x : x = Loop(mq, u, S, N, x)
           Bad == {m \in Nat : m <= N /\ ~ \E v, g : Pruned(u, f, S, m, h[m], v, g)}
<1>0. Layout(mq, u, f)
  BY ShapeFacts
<1>1. /\ u \in Seq(Slots) /\ f \in Seq(Slots) /\ N \in Nat /\ Len(f) \in Nat
      /\ ToSet(u) = {u[i] : i \in 1 .. N}
  BY <1>0, Zenon DEF Layout
<1>2. h = Loop(mq, u, S, N, h)
  <2> HIDE DEF N
  <2>1. \E x : x = Loop(mq, u, S, N, x)
    BY <1>1, LoopRuns
  <2> QED
    BY <2>1, Zenon
<1>3. EraseSlots(S) = h[N]
  BY Zenon DEF EraseSlots, Loop
<1> HIDE DEF h
<1>4. /\ h[0] = mq
      /\ \A k \in 1 .. N : h[k] = IF u[k] \in S THEN LB!erase(h[k - 1], u[k]) ELSE h[k - 1]
  <2>1. 0 \in 0 .. N /\ \A k \in 1 .. N : k \in 0 .. N /\ k # 0
    BY <1>1
  <2> QED
    BY <1>2, <2>1 DEF Loop
<1>5. Bad = {}
  <2> SUFFICES ASSUME Bad # {} PROVE FALSE
    OBVIOUS
  <2>1. PICK m \in Bad : \A y \in Bad : m <= y
    <3>1. Bad \in SUBSET Nat
      OBVIOUS
    <3> HIDE DEF Bad
    <3> QED
      BY <3>1, LBP!LeastNat, Sizes
  <2>2. m \in Nat /\ m <= N /\ ~ \E v, g : Pruned(u, f, S, m, h[m], v, g)
    OBVIOUS
  <2>3. CASE m = 0
    <3>1. {u[j] : j \in {i \in 1 .. 0 : u[i] \in S}} = {}
      OBVIOUS
    <3>2. Len(u) >= Len(u) - 0 /\ \A t \in 1 .. Len(u) - 0 : Len(u) - Len(u) + 0 + t = 0 + t
      BY <1>1
    <3>3. InOrderOf(u, u)
      BY DEF InOrderOf
    <3>4. Len(f) >= Len(f) /\ ~(Len(f) > Len(f)) /\ \A i \in Len(f) + 1 .. Len(f) : FALSE
      BY <1>1
    <3>5. Pruned(u, f, S, 0, mq, u, f)
      <4>1. \A t \in 1 .. Len(u) - 0 : u[Len(u) - Len(u) + 0 + t] = u[0 + t]
        BY <3>2
      <4>2. ToSet(u) = ToSet(u) \ {} /\ ToSet(f) = ToSet(f) \cup {}
        OBVIOUS
      <4> QED
        BY <3>1, <3>2, <3>3, <3>4, <4>1, <4>2 DEF Pruned
    <3> QED
      BY <1>4, <2>2, <2>3, <3>5
  <2>4. CASE m # 0
    <3>1. m \in 1 .. N /\ m - 1 \in Nat /\ ~(m <= m - 1) /\ m - 1 <= N
      BY <1>1, <2>2, <2>4
    <3>2. m - 1 \notin Bad
      BY <2>1, <3>1
    <3>3. PICK v, g : Pruned(u, f, S, m - 1, h[m - 1], v, g)
      BY <3>1, <3>2
    <3>4. CASE u[m] \in S
      <4>1. h[m] = LB!erase(h[m - 1], u[m])
        BY <1>4, <3>1, <3>4
      <4>2. \E w, j : Pruned(u, f, S, m, LB!erase(h[m - 1], u[m]), w, j)
        BY <3>1, <3>3, <3>4, PrunedOne
      <4> QED
        BY <2>2, <4>1, <4>2
    <3>5. CASE u[m] \notin S
      <4>1. h[m] = h[m - 1]
        BY <1>4, <3>1, <3>5
      <4> DEFINE e == h[m - 1]
      <4> HIDE DEF e
      <4>2. /\ Shape(e, v, g) /\ InOrderOf(u, v)
            /\ ToSet(v) = ToSet(u) \ {u[j] : j \in {i \in 1 .. m - 1 : u[i] \in S}}
            /\ ToSet(g) = ToSet(f) \cup {u[j] : j \in {i \in 1 .. m - 1 : u[i] \in S}}
            /\ Len(v) >= Len(u) - (m - 1)
            /\ \A t \in 1 .. Len(u) - (m - 1) : v[Len(v) - Len(u) + (m - 1) + t] = u[(m - 1) + t]
            /\ Len(g) >= Len(f) /\ \A i \in 1 .. Len(f) : g[i] = f[i]
            /\ \A i \in Len(f) + 1 .. Len(g) : g[i] \in S /\ g[i] \in ToSet(u)
            /\ Len(g) > Len(f) =>
                 \E j \in 1 .. m - 1 : /\ u[j] \in S /\ g[Len(g)] = u[j] /\ e.next[u[j]] = After(u, j + 1)
                                       /\ \A i \in j + 1 .. m - 1 : u[i] \notin S
        BY <3>3, Zenon DEF Pruned, e
      <4>3. {i \in 1 .. m : u[i] \in S} = {i \in 1 .. m - 1 : u[i] \in S}
        <5>1. \A i \in 1 .. m : i \in 1 .. m - 1 \/ i = m
          BY <3>1
        <5>2. \A i \in 1 .. m - 1 : i \in 1 .. m
          BY <3>1
        <5> QED
          BY <3>5, <5>1, <5>2
      <4>4. Layout(e, v, g)
        BY <4>2, ShapeFacts
      <4>5. Len(v) \in Nat
        BY <4>4, Zenon DEF Layout
      <4>6. Len(v) >= Len(u) - m /\ \A t \in 1 .. Len(u) - m : v[Len(v) - Len(u) + m + t] = u[m + t]
        <5>1. Len(v) >= Len(u) - m
          BY <1>1, <3>1, <4>2, <4>5
        <5> SUFFICES ASSUME NEW t \in 1 .. Len(u) - m PROVE v[Len(v) - Len(u) + m + t] = u[m + t]
          BY <5>1
        <5>2. /\ t + 1 \in 1 .. Len(u) - (m - 1) /\ (m - 1) + (t + 1) = m + t
              /\ Len(v) - Len(u) + (m - 1) + (t + 1) = Len(v) - Len(u) + m + t
          BY <1>1, <3>1, <4>5
        <5>3. v[Len(v) - Len(u) + (m - 1) + (t + 1)] = u[(m - 1) + (t + 1)]
          BY <4>2, <5>2
        <5> QED
          BY <5>2, <5>3
      <4>7. Len(g) > Len(f) =>
               \E j \in 1 .. m : /\ u[j] \in S /\ g[Len(g)] = u[j] /\ e.next[u[j]] = After(u, j + 1)
                                 /\ \A i \in j + 1 .. m : u[i] \notin S
        <5> SUFFICES ASSUME Len(g) > Len(f)
                     PROVE  \E j \in 1 .. m : /\ u[j] \in S /\ g[Len(g)] = u[j] /\ e.next[u[j]] = After(u, j + 1)
                                              /\ \A i \in j + 1 .. m : u[i] \notin S
          OBVIOUS
        <5>1. PICK j \in 1 .. m - 1 : /\ u[j] \in S /\ g[Len(g)] = u[j] /\ e.next[u[j]] = After(u, j + 1)
                                      /\ \A i \in j + 1 .. m - 1 : u[i] \notin S
          BY <4>2
        <5>2. j \in 1 .. m /\ \A i \in j + 1 .. m : i \in j + 1 .. m - 1 \/ i = m
          BY <3>1
        <5> QED
          BY <3>5, <5>1, <5>2
      <4>8. Pruned(u, f, S, m, e, v, g)
        BY <4>2, <4>3, <4>6, <4>7, Zenon DEF Pruned
      <4> QED
        BY <2>2, <4>1, <4>8 DEF e
    <3> QED
      BY <3>4, <3>5
  <2> QED
    BY <2>3, <2>4
<1>6. N \notin Bad /\ N <= N
  BY <1>1, <1>5
<1> QED
  BY <1>1, <1>3, <1>6

-------------------------------------------------------------------------------
(* The list in a step of the queue                                         *)

U == LB!UsedSeq
F == LB!FreeSeq

\* The links of mq stand for these two sequences.
Linked == Shape(mq, U, F)

LEMMA LinkedFacts ==
  ASSUME Linked
  PROVE  /\ U \in Seq(Slots) /\ F \in Seq(Slots) /\ Len(U) \in Nat /\ Len(F) \in Nat
         /\ Queued = ToSet(U) /\ Queued = {U[k] : k \in 1 .. Len(U)} /\ Queued \subseteq Slots
         /\ ToSet(F) = {F[k] : k \in 1 .. Len(F)} /\ Queued \cup ToSet(F) = Slots
         /\ Queued \cap ToSet(F) = {} /\ End \notin Slots
         /\ Injective(U) /\ Injective(F) /\ Len(U) + Len(F) = CAPACITY
         /\ (Full(mq) <=> F = << >>)
<1>0. Layout(mq, U, F)
  BY ShapeFacts DEF Linked
<1>1. /\ U \in Seq(Slots) /\ F \in Seq(Slots) /\ Len(U) \in Nat /\ Len(F) \in Nat
      /\ ToSet(U) = {U[k] : k \in 1 .. Len(U)} /\ ToSet(F) = {F[k] : k \in 1 .. Len(F)}
      /\ ToSet(U) \cup ToSet(F) = Slots /\ ToSet(U) \cap ToSet(F) = {}
      /\ Injective(U) /\ Injective(F) /\ Len(U) + Len(F) = CAPACITY
      /\ mq.cursize = Len(U)
  BY <1>0, Zenon DEF Layout
<1>2. Queued = ToSet(U)
  BY DEF Queued, LB!Used, U, LB!Range, ToSet
<1>3. End \notin Slots
  BY Sizes DEF Slots, LB!Slots, End
<1>4. F = << >> <=> Len(F) = 0
  BY <1>1, EmptySeq
<1>5. Full(mq) <=> F = << >>
  BY <1>1, <1>4, Sizes DEF Full
<1>6. Queued \subseteq Slots
  BY <1>1, <1>2
<1> QED
  BY <1>1, <1>2, <1>3, <1>5, <1>6, Zenon

LEMMA LinkedAt ==
  ASSUME NEW v, NEW g, Shape(mq', v, g)
  PROVE  U' = v /\ F' = g /\ Linked'
<1>1. LBP!Rep(mq', v, g)
  BY DEF Shape
<1>2. LBP!UsedSeq' = v /\ LBP!FreeSeq' = g
  BY <1>1, LBP!StandsNext, Sizes
<1>3. LB!UsedSeq' = LBP!UsedSeq' /\ LB!FreeSeq' = LBP!FreeSeq'
  BY SameList DEF LB!UsedSeq, LBP!UsedSeq, LB!FreeSeq, LBP!FreeSeq
<1> QED
  BY <1>2, <1>3 DEF U, F, Linked

LEMMA LinkedSame ==
  ASSUME mq' = mq
  PROVE  U' = U /\ F' = F /\ Queued' = Queued /\ Linked' = Linked
<1>1. U' = U /\ F' = F
  BY DEF U, F, LB!UsedSeq, LB!FreeSeq
<1> QED
  BY <1>1 DEF Linked, Queued, LB!Used, U

LEMMA InitLinked ==
  ASSUME LB!Init
  PROVE  Linked /\ U = << >> /\ Queued = {} /\ \A k \in 1 .. Len(F) : F[k] \in Slots
<1> DEFINE g == [i \in 1 .. CAPACITY |-> i - 1]
<1>1. LBP!Init
  BY SameList DEF LB!Init, LBP!Init
<1>2. LBP!Rep(mq, << >>, g)
  BY <1>1, LBP!InitRep, Sizes
<1>3. g \in Seq(Slots) /\ Len(g) = CAPACITY
  <2>1. \A i \in 1 .. CAPACITY : i - 1 \in Slots
    BY Sizes DEF Slots, LB!Slots
  <2>2. g \in [1 .. CAPACITY -> Slots] /\ DOMAIN g = 1 .. CAPACITY
    BY <2>1
  <2> HIDE DEF g
  <2> QED
    BY <2>2, Sizes, SeqDef, LenProperties
<1>4. mq.next[CAPACITY - 1] = End
  <2>1. mq.next = [x \in LB!Slots |-> IF x + 1 < CAPACITY THEN x + 1 ELSE LB!End]
    BY DEF LB!Init
  <2> QED
    BY <2>1, Sizes, SameList DEF LB!Slots
<1>5. g[Len(g)] = CAPACITY - 1
  BY <1>3, Sizes
<1> HIDE DEF g
<1>6. End \notin ToSet(g)
  <2>1. ToSet(g) = {g[k] : k \in 1 .. Len(g)} /\ \A k \in 1 .. Len(g) : g[k] \in Slots
    BY <1>3, Members
  <2>2. End \notin Slots
    BY Sizes DEF Slots, LB!Slots, End
  <2> QED
    BY <2>1, <2>2
<1>7. Shape(mq, << >>, g)
  BY <1>2, <1>4, <1>5, <1>6 DEF Shape
<1>8. LBP!UsedSeq = << >> /\ LBP!FreeSeq = g
  BY <1>2, LBP!Stands, Sizes
<1>9. U = << >> /\ F = g
  BY <1>8, SameList DEF U, F
<1>10. Linked
  BY <1>7, <1>9 DEF Linked
<1>11. Queued = {}
  BY <1>9 DEF Queued, LB!Used, U, LB!Range
<1>12. \A k \in 1 .. Len(g) : g[k] \in Slots
  BY <1>3, Members
<1> QED
  BY <1>9, <1>10, <1>11, <1>12

\* A message comes in while there is room.
LEMMA ListPosts ==
  ASSUME Linked, F # << >>, mq' = LB!new_back(mq)
  PROVE  /\ mq.freeBegin = F[1] /\ F[1] \in Slots /\ F[1] \notin Queued
         /\ Linked' /\ Grown(U, F[1], U') /\ Without(F, 1, F')
         /\ Queued' = Queued \cup {F[1]}
         /\ \A k \in 2 .. Len(F) : mq'.next[F[k]] = mq.next[F[k]]
<1> DEFINE x == F[1]
<1>0. Layout(mq, U, F)
  BY ShapeFacts DEF Linked
<1>1. /\ x \in Slots /\ mq.freeBegin = x /\ Len(F) \in Nat \ {0}
      /\ \E v, g : /\ Shape(mq', v, g) /\ Grown(U, x, v) /\ Without(F, 1, g)
                   /\ ToSet(v) = ToSet(U) \cup {x}
                   /\ \A k \in 2 .. Len(F) : mq'.next[F[k]] = mq.next[F[k]]
  BY AddedBack DEF Linked
<1>2. x \notin Queued
  <2>1. 1 \in 1 .. Len(F)
    BY <1>1
  <2> QED
    BY <2>1, LinkedFacts
<1> HIDE DEF x
<1>3. PICK v, g : /\ Shape(mq', v, g) /\ Grown(U, x, v) /\ Without(F, 1, g)
                  /\ ToSet(v) = ToSet(U) \cup {x}
                  /\ \A k \in 2 .. Len(F) : mq'.next[F[k]] = mq.next[F[k]]
  BY <1>1
<1>4. U' = v /\ F' = g /\ Linked'
  BY <1>3, LinkedAt
<1>5. Queued' = ToSet(v)
  BY <1>4 DEF Queued, LB!Used, U, LB!Range, ToSet
<1>6. Queued' = Queued \cup {x}
  BY <1>3, <1>5, LinkedFacts
<1> QED
  BY <1>1, <1>2, <1>3, <1>4, <1>6 DEF x

\* v is u with its first element moved to the end.
Rotated(u, v) == /\ Len(v) = Len(u) /\ v[Len(u)] = u[1]
                 /\ \A k \in 1 .. Len(u) - 1 : v[k] = u[k + 1]

\* A message comes in and the oldest goes, in the one slot.
LEMMA ListDrops ==
  ASSUME Linked, F = << >>, mq' = LB!new_back(LB!pop_front(mq))
  PROVE  /\ mq.activeBegin = U[1] /\ LB!pop_front(mq).freeBegin = U[1] /\ U[1] \in Queued
         /\ Linked' /\ Rotated(U, U') /\ F' = << >> /\ Queued' = Queued
<1> DEFINE m == LB!pop_front(mq)
           x == U[1]
<1>0. Layout(mq, U, F)
  BY ShapeFacts DEF Linked
<1>1. /\ U \in Seq(Slots) /\ F \in Seq(Slots) /\ Len(U) \in Nat /\ Injective(U) /\ Len(U) + Len(F) = CAPACITY
      /\ ToSet(U) = {U[k] : k \in 1 .. Len(U)} /\ mq.activeBegin = After(U, 1)
      /\ \A k \in 1 .. Len(U) : U[k] \in Slots
  BY <1>0, Zenon DEF Layout
<1>2. Len(F) = 0 /\ Len(U) \in Nat \ {0} /\ 1 \in 1 .. Len(U)
  <2>1. Len(F) = 0
    BY EmptySeq
  <2> QED
    BY <1>1, <2>1, Sizes
<1>3. mq.activeBegin = x /\ x \in ToSet(U) /\ x \in Slots
  BY <1>1, <1>2 DEF After
<1>4. LB!erase(mq, x) = m
  BY <1>3 DEF LB!erase
<1>5. PICK i \in 1 .. Len(U) : x = U[i] /\ \E v, g : Erased(U, F, m, i, v, g)
  <2> HIDE DEF m, x
  <2>1. Shape(mq, U, F)
    BY DEF Linked
  <2> QED
    BY <1>3, <1>4, <2>1, ErasedOne
<1>6. i = 1
  BY <1>1, <1>2, <1>5 DEF Injective
<1>7. PICK v, g : Erased(U, F, m, 1, v, g)
  BY <1>5, <1>6
<1> HIDE DEF m
<1>8. /\ Shape(m, v, g) /\ Without(U, 1, v) /\ Grown(F, x, g) /\ ToSet(v) = ToSet(U) \ {x}
  BY <1>7, Zenon DEF Erased
<1>9. Len(v) = Len(U) - 1 /\ \A k \in 1 .. Len(U) - 1 : v[k] = U[k + 1]
  <2>1. \A k \in 1 .. Len(U) - 1 : ~(k < 1)
    OBVIOUS
  <2> QED
    BY <1>8, <2>1 DEF Without
<1>10. Len(g) = 1 /\ g[1] = x /\ g # << >>
  <2>1. Len(g) = 1 /\ g[1] = x
    BY <1>2, <1>8 DEF Grown
  <2> QED
    BY <2>1, EmptySeq
<1>11. m.freeBegin = x
  <2>1. Layout(m, v, g)
    BY <1>8, ShapeFacts
  <2>2. m.freeBegin = After(g, 1)
    BY <2>1, Zenon DEF Layout
  <2> QED
    BY <1>10, <2>2 DEF After
<1>12. PICK w, h : /\ Shape(mq', w, h) /\ Grown(v, g[1], w) /\ Without(g, 1, h)
                   /\ ToSet(w) = ToSet(v) \cup {g[1]}
  <2> HIDE DEF x
  <2>1. \E w, h : /\ Shape(LB!new_back(m), w, h) /\ Grown(v, g[1], w) /\ Without(g, 1, h)
                  /\ ToSet(w) = ToSet(v) \cup {g[1]}
                  /\ \A k \in 2 .. Len(g) : LB!new_back(m).next[g[k]] = m.next[g[k]]
    BY <1>8, <1>10, AddedBack
  <2> QED
    BY <2>1 DEF m
<1>13. U' = w /\ F' = h /\ Linked'
  BY <1>12, LinkedAt
<1>14. Rotated(U, w)
  <2>1. Len(w) = Len(v) + 1 /\ w[Len(v) + 1] = x /\ \A k \in 1 .. Len(v) : w[k] = v[k]
    BY <1>10, <1>12 DEF Grown
  <2>2. Len(v) + 1 = Len(U)
    BY <1>1, <1>9
  <2>3. 1 .. Len(v) = 1 .. Len(U) - 1
    BY <1>9
  <2> HIDE DEF x
  <2> QED
    BY <1>9, <2>1, <2>2, <2>3 DEF Rotated, x
<1>15. h = << >>
  <2>1. Len(h) = 0
    BY <1>10, <1>12 DEF Without
  <2>2. Layout(mq', w, h)
    BY <1>12, ShapeFacts
  <2>3. h \in Seq(Slots)
    BY <2>2, Zenon DEF Layout
  <2> QED
    BY <2>1, <2>3, EmptySeq
<1>16. Queued' = Queued
  <2>1. Queued' = ToSet(w)
    BY <1>13 DEF Queued, LB!Used, U, LB!Range, ToSet
  <2>2. ToSet(w) = ToSet(U)
    BY <1>3, <1>8, <1>10, <1>12
  <2> QED
    BY <2>1, <2>2, LinkedFacts
<1> QED
  BY <1>3, <1>11, <1>13, <1>14, <1>15, <1>16, LinkedFacts DEF m

\* A message goes when its last reader has marked it.
LEMMA ListErases ==
  ASSUME Linked, NEW x \in Queued, mq' = LB!erase(mq, x)
  PROVE  /\ Linked' /\ Queued' = Queued \ {x} /\ ToSet(F') = ToSet(F) \cup {x} /\ Grown(F, x, F')
         /\ \E i \in 1 .. Len(U) : x = U[i] /\ Without(U, i, U') /\ mq'.next[x] = After(U, i + 1)
<1>1. Queued = ToSet(U)
  BY LinkedFacts
<1>2. PICK i \in 1 .. Len(U) : x = U[i] /\ \E v, g : Erased(U, F, mq', i, v, g)
  BY <1>1, ErasedOne DEF Linked
<1>3. PICK v, g : Erased(U, F, mq', i, v, g)
  BY <1>2
<1>4. /\ Shape(mq', v, g) /\ Without(U, i, v) /\ Grown(F, x, g)
      /\ ToSet(v) = ToSet(U) \ {x} /\ ToSet(g) = ToSet(F) \cup {x}
      /\ mq'.next[x] = After(U, i + 1)
  BY <1>2, <1>3, Zenon DEF Erased
<1>5. U' = v /\ F' = g /\ Linked'
  BY <1>4, LinkedAt
<1>6. Queued' = ToSet(v)
  BY <1>5 DEF Queued, LB!Used, U, LB!Range, ToSet
<1> QED
  BY <1>1, <1>2, <1>4, <1>5, <1>6

\* Messages go because a receiver leaves.
LEMMA ListPrunes ==
  ASSUME Linked, NEW S \in SUBSET Queued, mq' = EraseSlots(S)
  PROVE  /\ Linked' /\ Queued' = Queued \ S /\ ToSet(F') = ToSet(F) \cup S
         /\ Pruned(U, F, S, Len(U), mq', U', F')
<1>1. Queued = ToSet(U) /\ Queued = {U[k] : k \in 1 .. Len(U)}
  BY LinkedFacts
<1>2. PICK v, g : Pruned(U, F, S, Len(U), mq', v, g)
  BY ErasedSlots DEF Linked, U
<1>3. /\ Shape(mq', v, g)
      /\ ToSet(v) = ToSet(U) \ {U[j] : j \in {i \in 1 .. Len(U) : U[i] \in S}}
      /\ ToSet(g) = ToSet(F) \cup {U[j] : j \in {i \in 1 .. Len(U) : U[i] \in S}}
  BY <1>2, Zenon DEF Pruned
<1>4. {U[j] : j \in {i \in 1 .. Len(U) : U[i] \in S}} = S
  BY <1>1
<1>5. U' = v /\ F' = g /\ Linked'
  BY <1>3, LinkedAt
<1>6. Queued' = ToSet(v)
  BY <1>5 DEF Queued, LB!Used, U, LB!Range, ToSet
<1> QED
  BY <1>1, <1>2, <1>3, <1>4, <1>5, <1>6

-------------------------------------------------------------------------------
(* Finding the next message                                                *)

LEMMA LeastOf ==
  ASSUME NEW I \in SUBSET Nat, I # {}
  PROVE  Min(I) \in I /\ \A y \in I : Min(I) <= y
<1>1. \E x \in I : \A y \in I : x <= y
  BY LBP!LeastNat, Sizes
<1> QED
  BY <1>1 DEF Min

\* A walk along the links from slot it: the free slots behind it, then
\* messages, or messages to the end.
LEMMA WalkFrom ==
  ASSUME Linked, NEW it \in Slots
  PROVE  /\ Ahead(it) \in Seq(Slots) /\ Len(Ahead(it)) \in Nat \ {0} /\ Ahead(it)[1] = it
         /\ \A k \in 1 .. Len(Ahead(it)) :
              \/ Ahead(it)[k] \in Queued
              \/ \E a, b \in 1 .. Len(F) : a <= b /\ F[a] = it /\ F[b] = Ahead(it)[k]
<1>0. Layout(mq, U, F) /\ (F # << >> => mq.next[F[Len(F)]] \notin ToSet(F))
  BY ShapeFacts DEF Linked, Shape
<1>1. /\ U \in Seq(Slots) /\ F \in Seq(Slots) /\ Len(U) \in Nat /\ Len(F) \in Nat
      /\ \A k \in 1 .. Len(U) : U[k] \in Slots
      /\ \A k \in 1 .. Len(F) : F[k] \in Slots
      /\ Len(U) + Len(F) = CAPACITY
      /\ ToSet(U) = {U[k] : k \in 1 .. Len(U)} /\ ToSet(F) = {F[k] : k \in 1 .. Len(F)}
      /\ ToSet(U) \cup ToSet(F) = Slots
      /\ \A k \in 1 .. Len(U) : mq.next[U[k]] = After(U, k + 1)
      /\ \A k \in 1 .. Len(F) - 1 : mq.next[F[k]] = F[k + 1]
  BY <1>0 DEF Layout
<1>8. Len(U) \in Nat /\ Len(F) \in Nat
  BY <1>1
<1>2. \A q, k : After(q, k) = LBP!At(q, k)
  BY SameList DEF After, LBP!At
<1>3. Queued = ToSet(U)
  BY LinkedFacts
<1>4. ASSUME NEW q \in Seq(Slots), Len(q) \in 1 .. CAPACITY, q[1] = it,
             \A k \in 1 .. Len(q) : mq.next[q[k]] = After(q, k + 1)
      PROVE  Ahead(it) = q
  <2>1. it = LBP!At(q, 1) /\ Len(q) <= CAPACITY /\ q \in Seq(LBP!Slots)
    BY <1>4, SameList DEF LBP!At
  <2>2. \A k \in 1 .. Len(q) : mq.next[q[k]] = LBP!At(q, k + 1)
    BY <1>2, <1>4
  <2>3. LBP!Chain(it, mq.next) = q
    BY <2>1, <2>2, LBP!ChainIs, Sizes
  <2> QED
    BY <2>3, SameList DEF Ahead
<1>5. ASSUME NEW L \in Nat, NEW q, q = [k \in 1 .. L |-> q[k]], \A k \in 1 .. L : q[k] \in Slots
      PROVE  q \in Seq(Slots) /\ Len(q) = L
  <2>1. q \in [1 .. L -> Slots] /\ DOMAIN q = 1 .. L
    BY <1>5
  <2> QED
    BY <2>1, SeqDef, LenProperties
<1>6. CASE it \in Queued
  <2>1. PICK i \in 1 .. Len(U) : it = U[i]
    BY <1>1, <1>3, <1>6
  <2> DEFINE L == Len(U) - i + 1
             q == [k \in 1 .. L |-> U[i + k - 1]]
  <2>2. L \in Nat \ {0} /\ L <= CAPACITY /\ \A k \in 1 .. L : i + k - 1 \in 1 .. Len(U)
    BY <1>1
  <2>3. q = [k \in 1 .. L |-> q[k]] /\ \A k \in 1 .. L : q[k] \in Slots /\ q[k] = U[i + k - 1]
    BY <1>1, <2>2
  <2>4. ASSUME NEW k \in 1 .. L
        PROVE  /\ (k + 1 \in 1 .. L <=> i + k \in 1 .. Len(U))
               /\ i + (k + 1) - 1 = i + k /\ (i + k - 1) + 1 = i + k
    BY <1>8
  <2>5. q[1] = it /\ 1 \in 1 .. L
    BY <1>1, <2>1, <2>2
  <2> HIDE DEF q, L
  <2>6. q \in Seq(Slots) /\ Len(q) = L
    BY <1>5, <2>2, <2>3
  <2>7. \A k \in 1 .. L : mq.next[q[k]] = After(q, k + 1)
    <3> SUFFICES ASSUME NEW k \in 1 .. L PROVE mq.next[q[k]] = After(q, k + 1)
      OBVIOUS
    <3>1. mq.next[q[k]] = After(U, i + k)
      <4>1. q[k] = U[i + k - 1] /\ i + k - 1 \in 1 .. Len(U) /\ (i + k - 1) + 1 = i + k
        BY <2>2, <2>3, <2>4
      <4> QED
        BY <1>1, <4>1
    <3>2. k + 1 \in 1 .. L => q[k + 1] = U[i + k]
      BY <2>3, <2>4
    <3> QED
      BY <2>4, <2>6, <3>1, <3>2 DEF After
  <2>8. Ahead(it) = q
    BY <1>4, <2>2, <2>5, <2>6, <2>7
  <2>9. \A k \in 1 .. L : q[k] \in Queued
    BY <1>1, <1>3, <2>2, <2>3
  <2> QED
    BY <2>2, <2>5, <2>6, <2>8, <2>9
<1>7. CASE it \notin Queued
  <2>1. PICK j \in 1 .. Len(F) : it = F[j]
    BY <1>1, <1>3, <1>7
  <2>2. F # << >>
    BY <1>1, <2>1, EmptySeq
  <2> DEFINE e == mq.next[F[Len(F)]]
             A == Len(F) - j + 1
  <2>3. A \in Nat \ {0} /\ \A k \in 1 .. A : j + k - 1 \in 1 .. Len(F)
    BY <1>1
  <2>4. \E i \in 1 .. Len(U) + 1 : e \in Slots => e = After(U, i)
    <3>1. CASE e \in Slots
      <4>1. PICK i \in 1 .. Len(U) : e = U[i]
        BY <1>0, <1>1, <2>2, <3>1
      <4> QED
        BY <1>1, <4>1 DEF After
    <3>2. CASE e \notin Slots
      BY <1>1, <3>2
    <3> QED
      BY <3>1, <3>2
  <2>5. e = End \/ e \in Slots
    <3>1. mq.next \in [Slots -> LBP!Index]
      BY SameList DEF Linked, Shape, LBP!Rep, LBP!Lists
    <3>2. F[Len(F)] \in Slots
      BY <1>1, <2>1
    <3> QED
      BY <3>1, <3>2, SameList DEF LBP!Index
  <2>6. PICK i \in 1 .. Len(U) + 1 : e = After(U, i)
    <3>1. CASE e \in Slots
      BY <2>4, <3>1
    <3>2. CASE e = End
      <4>1. Len(U) + 1 \in 1 .. Len(U) + 1 /\ Len(U) + 1 \notin 1 .. Len(U)
        BY <1>1
      <4> QED
        BY <3>2, <4>1 DEF After
    <3> QED
      BY <2>5, <3>1, <3>2
  <2> DEFINE L == A + (Len(U) - i + 1)
             q == [k \in 1 .. L |-> IF k <= A THEN F[j + k - 1] ELSE U[i + (k - A) - 1]]
  <2>7. L \in Nat \ {0} /\ L <= CAPACITY /\ A <= L
        /\ \A k \in 1 .. L : ~(k <= A) => i + (k - A) - 1 \in 1 .. Len(U)
    BY <1>1, <2>3
  <2>8. \A k \in 1 .. L : k <= A => k \in 1 .. A
    BY <2>3
  <2>9. /\ q = [k \in 1 .. L |-> q[k]]
        /\ \A k \in 1 .. L : q[k] = IF k <= A THEN F[j + k - 1] ELSE U[i + (k - A) - 1]
    OBVIOUS
  <2>10. q[1] = it /\ 1 \in 1 .. L
    <3>1. 1 \in 1 .. L /\ 1 <= A /\ j + 1 - 1 = j
      BY <1>1, <2>3, <2>7
    <3> HIDE DEF q, L, A
    <3> QED
      BY <2>1, <2>9, <3>1
  <2>11. ASSUME NEW k \in 1 .. L, k < A
         PROVE  /\ k + 1 \in 1 .. L /\ k <= A /\ k + 1 <= A /\ j + (k + 1) - 1 = j + k
                /\ j + k - 1 \in 1 .. Len(F) - 1 /\ (j + k - 1) + 1 = j + k
    BY <1>8, <2>11
  <2>17. ASSUME NEW k \in 1 .. L, k = A
         PROVE  /\ k <= A /\ ~(k + 1 <= A) /\ j + k - 1 = Len(F) /\ i + ((k + 1) - A) - 1 = i
                /\ (k + 1 \in 1 .. L <=> i \in 1 .. Len(U))
    BY <1>8, <2>17
  <2>18. ASSUME NEW k \in 1 .. L, ~(k < A), k # A
         PROVE  /\ ~(k <= A) /\ ~(k + 1 <= A) /\ i + (k - A) - 1 \in 1 .. Len(U)
                /\ (i + (k - A) - 1) + 1 = i + (k - A)
                /\ i + ((k + 1) - A) - 1 = i + (k - A)
                /\ (k + 1 \in 1 .. L <=> i + (k - A) \in 1 .. Len(U))
    BY <1>8, <2>18
  <2> HIDE DEF q, L
  <2>12. \A k \in 1 .. L : q[k] \in Slots
    <3> HIDE DEF A
    <3> QED
      BY <1>1, <2>3, <2>7, <2>8, <2>9
  <2>13. q \in Seq(Slots) /\ Len(q) = L
    BY <1>5, <2>7, <2>9, <2>12
  <2>14. \A k \in 1 .. L : mq.next[q[k]] = After(q, k + 1)
    <3> SUFFICES ASSUME NEW k \in 1 .. L PROVE mq.next[q[k]] = After(q, k + 1)
      OBVIOUS
    <3>1. CASE k < A
      <4>1. q[k] = F[j + k - 1] /\ q[k + 1] = F[j + k] /\ k + 1 \in 1 .. L
        <5> HIDE DEF A
        <5> QED
          BY <2>9, <2>11, <3>1
      <4>2. mq.next[F[j + k - 1]] = F[j + k]
        <5> HIDE DEF A
        <5> QED
          BY <1>1, <2>11, <3>1
      <4> QED
        BY <2>13, <4>1, <4>2 DEF After
    <3>2. CASE k = A
      <4>1. q[k] = F[Len(F)] /\ (k + 1 \in 1 .. L => q[k + 1] = U[i])
        <5> HIDE DEF A
        <5> QED
          BY <2>9, <2>17, <3>2
      <4>2. k + 1 \in 1 .. L <=> i \in 1 .. Len(U)
        BY <2>17, <3>2
      <4> QED
        BY <2>6, <2>13, <4>1, <4>2 DEF After
    <3>3. CASE ~(k < A) /\ k # A
      <4> DEFINE z == i + (k - A)
      <4>1. /\ q[k] = U[z - 1] /\ z - 1 \in 1 .. Len(U) /\ (z - 1) + 1 = z
            /\ (k + 1 \in 1 .. L <=> z \in 1 .. Len(U))
            /\ (k + 1 \in 1 .. L => q[k + 1] = U[z])
        <5> HIDE DEF A
        <5> QED
          BY <2>9, <2>18, <3>3
      <4> HIDE DEF z
      <4>2. mq.next[U[z - 1]] = After(U, z)
        BY <1>1, <4>1
      <4> QED
        BY <2>13, <4>1, <4>2 DEF After
    <3> QED
      BY <3>1, <3>2, <3>3
  <2>15. Ahead(it) = q
    <3>1. Len(q) \in 1 .. CAPACITY /\ \A k \in 1 .. Len(q) : mq.next[q[k]] = After(q, k + 1)
      BY <2>7, <2>13, <2>14, Sizes
    <3> QED
      BY <1>4, <2>10, <2>13, <3>1
  <2>16. ASSUME NEW k \in 1 .. L
         PROVE  \/ q[k] \in Queued
                \/ \E a, b \in 1 .. Len(F) : a <= b /\ F[a] = it /\ F[b] = q[k]
    <3>1. CASE k <= A
      <4>1. q[k] = F[j + k - 1] /\ j + k - 1 \in 1 .. Len(F) /\ j <= j + k - 1
        BY <2>3, <2>8, <2>9, <3>1
      <4> QED
        BY <2>1, <4>1
    <3>2. CASE ~(k <= A)
      <4>1. q[k] = U[i + (k - A) - 1] /\ i + (k - A) - 1 \in 1 .. Len(U)
        <5> HIDE DEF A
        <5> QED
          BY <2>7, <2>9, <3>2
      <4> QED
        BY <1>1, <1>3, <4>1
    <3> QED
      BY <3>1, <3>2
  <2> QED
    BY <2>7, <2>10, <2>13, <2>15, <2>16
<1> QED
  BY <1>6, <1>7

Sn(i) == entries[i].sn

\* The serial numbers grow along the list.
Ascending == \A j, k \in 1 .. Len(U) : j < k => Sn(U[j]) < Sn(U[k])

\* From a slot: nothing, or a message not read before, or a slot that has
\* become free behind the one the receiver stood at.
LEMMA FoundFrom ==
  ASSUME Linked, NEW it \in Slots, NEW n \in Nat, NEW res, res = FirstUnread(it, n)
  PROVE  /\ res # End => /\ res \in Slots /\ Sn(res) >= n
                         /\ \/ res \in Queued
                            \/ \E a, b \in 1 .. Len(F) : a <= b /\ F[a] = it /\ F[b] = res
         /\ Sn(it) >= n => res = it
<1> DEFINE q == Ahead(it)
           I == {k \in 1 .. Len(q) : entries[q[k]].sn >= n}
<1>1. /\ q \in Seq(Slots) /\ Len(q) \in Nat \ {0} /\ q[1] = it
      /\ \A k \in 1 .. Len(q) :
           q[k] \in Queued \/ \E a, b \in 1 .. Len(F) : a <= b /\ F[a] = it /\ F[b] = q[k]
  BY WalkFrom
<1>2. it # End
  BY Sizes DEF Slots, LB!Slots, End
<1>3. res = IF I = {} THEN End ELSE q[Min(I)]
  <2>1. 0 \notin I
    OBVIOUS
  <2>2. I # {} => Min(I) # 0
    <3>1. I \in SUBSET Nat
      OBVIOUS
    <3> HIDE DEF I
    <3> QED
      BY <2>1, <3>1, LeastOf
  <2>3. SelectInSeq(q, LAMBDA i : entries[i].sn >= n) = IF I # {} THEN Min(I) ELSE 0
    BY DEF SelectInSeq
  <2> HIDE DEF I, q
  <2>4. FirstUnread(it, n) = IF SelectInSeq(q, LAMBDA i : entries[i].sn >= n) = 0 THEN End
                             ELSE q[SelectInSeq(q, LAMBDA i : entries[i].sn >= n)]
    BY <1>2 DEF FirstUnread, q
  <2> QED
    BY <2>2, <2>3, <2>4
<1>4. \A k \in 1 .. Len(q) : q[k] \in Slots
  <2> HIDE DEF q
  <2> QED
    BY <1>1, Members
<1>5. ASSUME I # {}
      PROVE  /\ Min(I) \in 1 .. Len(q) /\ Sn(q[Min(I)]) >= n /\ \A k \in I : Min(I) <= k
  <2> HIDE DEF q
  <2>1. I \in SUBSET Nat
    OBVIOUS
  <2>2. Min(I) \in I /\ \A k \in I : Min(I) <= k
    <3> HIDE DEF I
    <3> QED
      BY <1>5, <2>1, LeastOf
  <2> QED
    BY <2>2 DEF Sn
<1>6. ASSUME Sn(it) >= n PROVE I # {} /\ Min(I) = 1
  <2> HIDE DEF q
  <2>1. 1 \in I
    BY <1>1, <1>6 DEF Sn
  <2>2. Min(I) \in 1 .. Len(q) /\ Min(I) <= 1
    BY <1>5, <2>1
  <2> QED
    BY <2>1, <2>2
<1> HIDE DEF q, I
<1> QED
  BY <1>1, <1>3, <1>4, <1>5, <1>6, SMTT(30)

\* From the end: the first message not read, if there is one.
LEMMA FoundFromEnd ==
  ASSUME Linked, Ascending, \A i \in Slots : Sn(i) \in Nat, NEW n \in Nat, NEW res, res = FirstUnread(End, n)
  PROVE  /\ res = End => \A i \in Queued : Sn(i) < n
         /\ res # End => /\ res \in Queued /\ Sn(res) >= n
                         /\ \A i \in Queued : Sn(i) < Sn(res) => Sn(i) < n
<1> DEFINE N == Len(U)
           q == LB!UsedReversed
           I == {k \in 1 .. Len(q) : entries[q[k]].sn < n}
<1>0. Layout(mq, U, F)
  BY ShapeFacts DEF Linked
<1>1. /\ U \in Seq(Slots) /\ N \in Nat /\ mq.activeBegin = After(U, 1)
      /\ \A k \in 1 .. N : U[k] \in Slots /\ U[k] # End
      /\ \A k \in 1 .. N : mq.next[U[k]] = After(U, k + 1)
  BY <1>0, Zenon DEF Layout
<1>2. Queued = {U[k] : k \in 1 .. N} /\ \A k \in 1 .. N : Sn(U[k]) \in Nat
  BY <1>1, LinkedFacts
<1>3. q = LBP!Reversed(U)
  <2>1. LBP!Chain(mq.activeBack, mq.prev) = LBP!Reversed(U)
    BY LBP!Represented, Sizes DEF Linked, Shape
  <2> QED
    BY <2>1, SameList DEF LB!UsedReversed
<1>4. Len(q) = N /\ \A k \in 1 .. N : q[k] = U[N - k + 1]
  <2>1. U \in Seq(LBP!Slots)
    BY <1>1, SameList
  <2> QED
    BY <1>3, <2>1, LBP!ReverseFacts, Sizes
<1>5. FirstUnread(End, n) = LB!next(mq, IF I = {} THEN End ELSE q[Min(I)])
  <2>1. 0 \notin I
    OBVIOUS
  <2>2. I # {} => Min(I) # 0
    <3>1. I \in SUBSET Nat
      OBVIOUS
    <3> HIDE DEF I
    <3> QED
      BY <2>1, <3>1, LeastOf
  <2>3. SelectInSeq(q, LAMBDA i : entries[i].sn < n) = IF I # {} THEN Min(I) ELSE 0
    BY DEF SelectInSeq
  <2> HIDE DEF I, q
  <2>4. FirstUnread(End, n) = LB!next(mq, IF SelectInSeq(q, LAMBDA i : entries[i].sn < n) = 0 THEN End
                                          ELSE q[SelectInSeq(q, LAMBDA i : entries[i].sn < n)])
    BY DEF FirstUnread, q
  <2> QED
    BY <2>2, <2>3, <2>4
<1> HIDE DEF q
<1>6. CASE I = {}
  <2>1. res = After(U, 1)
    BY <1>1, <1>5, <1>6, SameList DEF LB!next
  <2>2. \A k \in 1 .. N : Sn(U[k]) >= n
    <3> SUFFICES ASSUME NEW k \in 1 .. N PROVE Sn(U[k]) >= n
      OBVIOUS
    <3>1. N - k + 1 \in 1 .. N /\ N - (N - k + 1) + 1 = k
      BY <1>1
    <3>2. q[N - k + 1] = U[k]
      BY <1>4, <3>1
    <3>3. ~(entries[U[k]].sn < n)
      BY <1>4, <1>6, <3>1, <3>2
    <3> QED
      BY <1>2, <3>3 DEF Sn
  <2>3. CASE N = 0
    <3>1. \A k \in 1 .. N : FALSE
      BY <2>3
    <3> QED
      BY <1>2, <2>1, <2>3, <3>1 DEF After
  <2>4. CASE N # 0
    <3>1. 1 \in 1 .. N /\ \A k \in 1 .. N : k = 1 \/ 1 < k
      BY <1>1, <2>4
    <3>2. res = U[1] /\ res # End /\ res \in Queued /\ Sn(res) >= n
      BY <1>1, <1>2, <2>1, <2>2, <3>1 DEF After
    <3>3. \A k \in 1 .. N : ~(Sn(U[k]) < Sn(U[1]))
      <4> SUFFICES ASSUME NEW k \in 1 .. N PROVE ~(Sn(U[k]) < Sn(U[1]))
        OBVIOUS
      <4>1. k # 1 => Sn(U[1]) < Sn(U[k])
        BY <3>1 DEF Ascending
      <4> QED
        BY <1>2, <3>1, <4>1
    <3> QED
      BY <1>2, <3>2, <3>3
  <2> QED
    BY <2>3, <2>4
<1>7. CASE I # {}
  <2>1. Min(I) \in I /\ \A k \in I : Min(I) <= k
    <3>1. I \in SUBSET Nat
      OBVIOUS
    <3> HIDE DEF I
    <3> QED
      BY <1>7, <3>1, LeastOf
  <2> DEFINE p == N - Min(I) + 1
  <2>2. Min(I) \in 1 .. N /\ p \in 1 .. N /\ q[Min(I)] = U[p]
    <3>1. Min(I) \in 1 .. N
      BY <1>4, <2>1
    <3> HIDE DEF I
    <3>2. p \in 1 .. N
      BY <1>1, <3>1
    <3> QED
      BY <1>4, <3>1, <3>2
  <2>3. Sn(U[p]) < n
    BY <2>1, <2>2 DEF Sn
  <2>4. \A k \in 1 .. N : k > p => Sn(U[k]) >= n
    <3> SUFFICES ASSUME NEW k \in 1 .. N, k > p PROVE Sn(U[k]) >= n
      OBVIOUS
    <3>1. N - k + 1 \in 1 .. N /\ N - (N - k + 1) + 1 = k /\ ~(Min(I) <= N - k + 1)
      BY <1>1, <2>2
    <3>2. q[N - k + 1] = U[k] /\ N - k + 1 \notin I
      BY <1>4, <2>1, <3>1
    <3>3. ~(entries[U[k]].sn < n)
      BY <1>4, <3>1, <3>2
    <3> QED
      BY <1>2, <3>3 DEF Sn
  <2> HIDE DEF I
  <2>5. res = After(U, p + 1)
    <3> HIDE DEF p
    <3>1. res = LB!next(mq, U[p])
      BY <1>5, <1>7, <2>2
    <3> QED
      BY <1>1, <2>2, <3>1, SameList DEF LB!next
  <2> HIDE DEF p
  <2>6. \A k \in 1 .. N : k <= p => Sn(U[k]) < n
    <3> SUFFICES ASSUME NEW k \in 1 .. N, k <= p PROVE Sn(U[k]) < n
      OBVIOUS
    <3>1. k = p \/ Sn(U[k]) < Sn(U[p])
      BY <2>2 DEF Ascending
    <3> QED
      BY <1>2, <2>2, <2>3, <3>1
  <2>7. CASE p + 1 \notin 1 .. N
    <3>1. \A k \in 1 .. N : k <= p
      BY <1>1, <2>2, <2>7
    <3>2. res = End
      BY <2>5, <2>7 DEF After
    <3> QED
      BY <1>2, <2>6, <3>1, <3>2
  <2>8. CASE p + 1 \in 1 .. N
    <3>1. res = U[p + 1] /\ res # End /\ res \in Queued
      BY <1>1, <1>2, <2>5, <2>8 DEF After
    <3>2. Sn(res) >= n
      BY <2>2, <2>4, <2>8, <3>1
    <3>3. \A k \in 1 .. N : Sn(U[k]) < Sn(U[p + 1]) => Sn(U[k]) < n
      <4> SUFFICES ASSUME NEW k \in 1 .. N, ~(k <= p) PROVE ~(Sn(U[k]) < Sn(U[p + 1]))
        BY <2>6
      <4>1. k = p + 1 \/ p + 1 < k
        BY <2>2
      <4>2. k = p + 1 \/ Sn(U[p + 1]) < Sn(U[k])
        BY <2>8, <4>1 DEF Ascending
      <4> QED
        BY <1>2, <2>8, <4>2
    <3> QED
      BY <1>2, <3>1, <3>2, <3>3
  <2> QED
    BY <2>7, <2>8
<1> QED
  BY <1>6, <1>7

-------------------------------------------------------------------------------
(* The invariant                                                           *)

RSlots == 0 .. RECEIVER_CAPACITY - 1

Entry == [msg : Regions \cup {NoRegion}, sn : Nat, readFlags : SUBSET RSlots, numRead : Nat]

RcvState ==
    [pc : {"new", "ready", "wait", "peek", "number", "mark", "advance", "release", "leave", "gone"},
     finish : {"no", "stop", "drain"}, curit : Slots \cup {End},
     nextMessage : Nat, msg : Regions \cup {NoRegion}, since : Nat]

\* The types, without the bounds that only counting gives.
Types ==
    /\ entries \in [Slots -> Entry]
    /\ numMessages \in Nat /\ messagesRead \in Nat /\ sndrsSem = messagesRead
    /\ slotOf \in [Receivers -> RSlots \cup {End}] /\ sem \in [Receivers -> Nat]
    /\ refs \in [Regions -> Int] /\ sends \in 0 .. MaxSends
    /\ snd \in [Senders -> SenderState] /\ rcv \in [Receivers -> RcvState]
    /\ got \in [Receivers -> Seq(Regions)]
    /\ posted \in Seq(Regions) /\ Len(posted) = numMessages
    /\ lost \in SUBSET Regions /\ leaked \in SUBSET Regions

\* The list of receivers holds the slots of those that are registered.
RcvrsInv ==
    /\ rcvrs \in Pool(RSlots) /\ Sound(rcvrs)
    /\ \A r \in Receivers : slotOf[r] = End <=> rcv[r].pc \in {"new", "gone"}
    /\ ToSet(rcvrs.used) = {slotOf[r] : r \in Registered}
    /\ \A r, q \in Registered : slotOf[r] = slotOf[q] => r = q

Read(r, i) == slotOf[r] \in entries[i].readFlags

\* A message in the queue has been read by some receivers, not by all.
FlagsInv ==
    \A i \in Queued : /\ entries[i].readFlags \subseteq ToSet(rcvrs.used)
                      /\ rcvrs.used # << >> => entries[i].readFlags # ToSet(rcvrs.used)
                      /\ entries[i].numRead = Cardinality(entries[i].readFlags)

\* A slot in the queue, or with a mark left in it, holds a message sent.
SentInv ==
    \A i \in Slots : i \in Queued \/ entries[i].readFlags # {} =>
        Sn(i) < numMessages /\ posted[Sn(i) + 1] = entries[i].msg

\* A region is sent once.
PostedInv ==
    /\ \A j, k \in 1 .. Len(posted) : posted[j] = posted[k] => j = k
    /\ \A k \in 1 .. Len(posted) : posted[k] <= sends
    /\ \A m \in leaked : m <= sends

Fresh(m) == m \notin leaked /\ \A k \in 1 .. Len(posted) : posted[k] # m

SendersInv ==
    /\ \A s \in Senders : /\ snd[s].msg <= sends
                          /\ snd[s].pc = "idle" <=> snd[s].msg = NoRegion
                          /\ snd[s].pc = "waiting" => Fresh(snd[s].msg)
    /\ \A s, t \in Senders : snd[s].msg = snd[t].msg /\ snd[s].msg # NoRegion => s = t

ReceiversInv ==
    \A r \in Receivers :
        /\ rcv[r].msg # NoRegion <=> rcv[r].pc \in {"number", "mark", "advance", "release"}
        /\ rcv[r].msg # NoRegion => \E k \in 1 .. Len(posted) : posted[k] = rcv[r].msg

\* A receiver's position may have become free behind its back.  It has then
\* read what was there, and in all the slots that became free after it.
Settled(r) ==
    \A j, k \in 1 .. Len(F) : j <= k /\ F[j] = rcv[r].curit => Read(r, F[k])

PlaceInv ==
    /\ \A r \in Registered : /\ Settled(r)
                             /\ rcv[r].pc \in {"number", "mark", "advance"} => rcv[r].curit # End
    /\ \A r \in Receivers :
         rcv[r].pc = "new" => rcv[r].curit = End /\ rcv[r].nextMessage = 0 /\ got[r] = << >>

\* The number a receiver has been given everything below of.
Reached(r) == IF rcv[r].pc = "number" THEN Sn(rcv[r].curit) + 1 ELSE rcv[r].nextMessage

LastGiven(r) ==
    got[r] # << >> =>
        \E g \in 1 .. Len(posted) : posted[g] = got[r][Len(got[r])] /\ g <= Reached(r)

OrderInv == InOrder /\ \A r \in Receivers : LastGiven(r)

\* The number below which a receiver has marked everything read.
Upto(r) == IF rcv[r].pc = "number" THEN Sn(rcv[r].curit)
           ELSE IF rcv[r].pc = "mark" THEN rcv[r].nextMessage - 1 ELSE rcv[r].nextMessage

\* The message with number n is in the queue.
There(n) == \E j \in Queued : Sn(j) = n

\* The list holds the last messages sent.
Contiguous == \A i \in Queued : \A n \in Sn(i) .. numMessages - 1 : There(n)

\* Where a receiver stands between two messages: at the end or at the first
\* message it has not read.
AtNext(r) ==
    rcv[r].curit # End =>
        /\ rcv[r].curit \in Queued /\ Sn(rcv[r].curit) >= rcv[r].nextMessage
        /\ \A i \in Queued : Sn(i) < Sn(rcv[r].curit) => Sn(i) < rcv[r].nextMessage

\* Where it stands after its mark: at that message, or in its slot when that
\* is the last to have become free, or when it is in use again already.
AtMarked(r) ==
    LET c == rcv[r].curit
        n == rcv[r].nextMessage
    IN  \/ c \in Queued /\ Sn(c) = n - 1
        \/ /\ \A i \in Queued : Sn(i) >= n
           /\ \/ F # << >> /\ c = F[Len(F)] /\ mq.next[c] \in {End, mq.activeBegin}
              \/ F = << >> /\ c = U[Len(U)]

Follows(r) ==
    LET c == rcv[r].curit
        n == rcv[r].nextMessage
        pc == rcv[r].pc
    IN  /\ n <= numMessages
        /\ \A i \in Queued : Read(r, i) <=> Sn(i) < Upto(r)
        /\ pc \in {"number", "mark"} => c \in Queued /\ Sn(c) = Upto(r)
        /\ pc = "number" => Sn(c) >= n
        /\ pc \notin {"number", "mark", "advance"} => AtNext(r)
        /\ pc = "advance" => AtMarked(r)

Given(r) ==
    /\ got[r] = << >> => /\ rcv[r].nextMessage = 0
                         /\ rcv[r].pc \notin {"number", "mark", "advance", "release"}
    /\ got[r] # << >> => /\ Reached(r) >= 1 /\ posted[Reached(r)] = got[r][Len(got[r])]
                         /\ \A n \in Upto(r) .. numMessages - 1 : There(n)

Awake(r) ==
    rcv[r].pc \in {"ready", "wait"} =>
        \A i \in Queued : Sn(i) >= rcv[r].since /\ Sn(i) >= rcv[r].nextMessage => sem[r] > 0

FollowInv == Contiguous /\ \A r \in Registered : Follows(r) /\ Given(r) /\ Awake(r)

FollowI == lost = {} => FollowInv

IInv == /\ Types /\ Linked /\ RcvrsInv /\ FlagsInv /\ SentInv /\ Ascending
        /\ PostedInv /\ SendersInv /\ ReceiversInv /\ PlaceInv /\ OrderInv /\ RefsAccounted
        /\ FollowI

\* ----------------------------- the receivers ------------------------------

LEMMA ListedReceivers ==
  ASSUME RcvrsInv
  PROVE  /\ IsFiniteSet(ToSet(rcvrs.used)) /\ numReceivers = Cardinality(ToSet(rcvrs.used))
         /\ numReceivers \in Nat /\ (rcvrs.used = << >> <=> ToSet(rcvrs.used) = {})
         /\ ToSet(rcvrs.used) \subseteq RSlots
<1> DEFINE u == rcvrs.used
           S == ToSet(u)
           n == Len(u)
<1>1. u \in Seq(RSlots) /\ Injective(u)
  BY DEF RcvrsInv, Pool, Sound
<1> HIDE DEF u
<1>2. n \in Nat /\ DOMAIN u = 1 .. n /\ S = {u[k] : k \in 1 .. n} /\ S \in SUBSET RSlots
  BY <1>1, Members
<1>3. IsFiniteSet(1 .. n) /\ Cardinality(1 .. n) = n
  <2> HIDE DEF n
  <2>1. n \in Nat
    BY <1>2
  <2>2. IsFiniteSet(1 .. n) /\ Cardinality(1 .. n) = IF 1 > n THEN 0 ELSE n - 1 + 1
    BY <2>1, FS_Interval
  <2> QED
    BY <2>1, <2>2
<1>4. u \in Bijection(1 .. n, S)
  <2>1. u \in [1 .. n -> S]
    <3>1. u = [k \in 1 .. n |-> u[k]]
      BY <1>1, <1>2
    <3> QED
      BY <1>2, <3>1
  <2>2. IsInjective(u)
    BY <1>1, <1>2 DEF IsInjective, Injective
  <2>3. \A t \in S : \E s \in 1 .. n : u[s] = t
    BY <1>2
  <2> QED
    BY <2>1, <2>2, <2>3 DEF Bijection, Injection, Surjection
<1>5. IsFiniteSet(S) /\ Cardinality(S) = n
  <2>1. ExistsBijection(1 .. n, S)
    BY <1>4 DEF ExistsBijection
  <2> QED
    BY <1>3, <2>1, FS_Bijection
<1>6. u = << >> <=> S = {}
  <2>1. u = << >> <=> n = 0
    BY <1>1, EmptySeq
  <2>2. S = {} <=> n = 0
    BY <1>5, FS_EmptySet
  <2> QED
    BY <2>1, <2>2
<1> QED
  BY <1>2, <1>5, <1>6 DEF u, numReceivers

LEMMA Listed ==
  ASSUME RcvrsInv, Types, NEW r \in Receivers, rcv[r].pc \notin {"new", "gone"}
  PROVE  r \in Registered /\ slotOf[r] \in ToSet(rcvrs.used) /\ slotOf[r] \in RSlots /\ slotOf[r] # End
<1>1. r \in Registered
  BY DEF RcvrsInv, Registered
<1>2. slotOf[r] \in ToSet(rcvrs.used)
  BY <1>1 DEF RcvrsInv
<1> QED
  BY <1>1, <1>2, ListedReceivers DEF Registered

\* Nothing about the receivers' places in the list changes.
LEMMA RcvrsSame ==
  ASSUME RcvrsInv, rcvrs' = rcvrs, slotOf' = slotOf,
         \A r \in Receivers : rcv'[r].pc \in {"new", "gone"} <=> rcv[r].pc \in {"new", "gone"}
  PROVE  RcvrsInv' /\ Registered' = Registered
<1>1. Registered' = Registered
  BY DEF Registered
<1> QED
  BY <1>1 DEF RcvrsInv

\* ------------------------------ the senders -------------------------------

\* Region m is in the hands of sender s and nowhere else.
Held(s, m) ==
    /\ m \in Regions /\ Fresh(m) /\ m <= sends'
    /\ sends' \in {sends, sends + 1} /\ sends' \in 0 .. MaxSends
    /\ snd[s].msg \in {m, NoRegion}
    /\ \A t \in Senders : snd[t].msg = m => t = s
    /\ \A r \in Receivers : rcv[r].msg # m

\* After a send the sender still has it, or has forgotten it.
Keeps(s, m, P) == /\ \E p \in P, a \in BOOLEAN : snd' = [snd EXCEPT ![s] = [pc |-> p, msg |-> m, auto |-> a]]
                  /\ leaked' = leaked

Forgets(s, m, L) == /\ snd' = [snd EXCEPT ![s] = [pc |-> "idle", msg |-> NoRegion, auto |-> FALSE]]
                    /\ leaked' = leaked \cup L

\* A send that leaves the list alone.
Quiet(s, m) ==
    /\ Keeps(s, m, {"owns", "waiting"}) \/ Forgets(s, m, {m})
    /\ refs' = [refs EXCEPT ![m] = 1]
    /\ UNCHANGED <<mq, entries, numMessages, sem, posted, lost>>
    /\ \/ UNCHANGED <<messagesRead, sndrsSem>>
       \/ messagesRead' = messagesRead + 1 /\ sndrsSem' = sndrsSem + 1

\* One that puts the message in slot x.
Posted(s, m, x, held) ==
    /\ \/ Keeps(s, m, {"owns"}) /\ refs' = [held EXCEPT ![m] = 2]
       \/ Forgets(s, m, {m}) /\ refs' = [held EXCEPT ![m] = 2]
       \/ Forgets(s, m, {}) /\ refs' = [held EXCEPT ![m] = 1]
    /\ entries' = [entries EXCEPT ![x] = [msg |-> m, sn |-> numMessages, readFlags |-> {}, numRead |-> 0]]
    /\ numMessages' = numMessages + 1
    /\ posted' = Append(posted, m)
    /\ sem' = [r \in Receivers |-> IF r \in Registered THEN sem[r] + 1 ELSE sem[r]]
    /\ UNCHANGED <<messagesRead, sndrsSem>>

WithRoom(s, m) == /\ F # << >> /\ mq' = LB!new_back(mq) /\ lost' = lost
                  /\ Posted(s, m, F[1], refs)

InPlace(s, m) == /\ F = << >> /\ mq' = LB!new_back(LB!pop_front(mq)) /\ lost' = lost \cup {entries[U[1]].msg}
                 /\ Posted(s, m, U[1], [refs EXCEPT ![entries[U[1]].msg] = @ - 1])

LEMMA QueuedPosted ==
  ASSUME Types, SentInv, Linked, NEW i \in Slots, i \in Queued \/ entries[i].readFlags # {}
  PROVE  /\ Sn(i) \in Nat /\ Sn(i) < numMessages /\ Sn(i) + 1 \in 1 .. Len(posted)
         /\ posted[Sn(i) + 1] = entries[i].msg /\ entries[i].msg \in Regions
<1>1. Sn(i) \in Nat /\ Sn(i) < numMessages /\ posted[Sn(i) + 1] = entries[i].msg
  BY DEF Types, Entry, SentInv, Sn
<1>2. Sn(i) + 1 \in 1 .. Len(posted)
  BY <1>1 DEF Types
<1> QED
  BY <1>1, <1>2 DEF Types

\* A region nobody else has is referenced once by whoever has it.
LEMMA HeldOnce ==
  ASSUME Types, SentInv, Linked, ReceiversInv, SendersInv, RefsAccounted,
         NEW s \in Senders, Waiting(s)
  PROVE  /\ snd[s].msg \in Regions /\ refs[snd[s].msg] = 1 /\ Fresh(snd[s].msg)
         /\ \A t \in Senders : snd[t].msg = snd[s].msg => t = s
         /\ \A r \in Receivers : rcv[r].msg # snd[s].msg
<1> DEFINE m == snd[s].msg
<1>1. m \in Regions /\ m # NoRegion /\ Fresh(m)
  BY DEF SendersInv, Waiting, Types, SenderState
<1>2. \A t \in Senders : snd[t].msg = m => t = s
  BY <1>1 DEF SendersInv
<1>3. \A r \in Receivers : rcv[r].msg # m
  BY <1>1 DEF ReceiversInv, Fresh
<1>4. \A i \in Queued : entries[i].msg # m
  <2> SUFFICES ASSUME NEW i \in Queued PROVE entries[i].msg # m
    OBVIOUS
  <2>1. i \in Slots
    BY LinkedFacts
  <2>2. Sn(i) + 1 \in 1 .. Len(posted) /\ posted[Sn(i) + 1] = entries[i].msg
    BY <2>1, QueuedPosted
  <2> QED
    BY <1>1, <2>2 DEF Fresh
<1>5. /\ {i \in Queued : entries[i].msg = m} = {} /\ {t \in Senders : snd[t].msg = m} = {s}
      /\ {r \in Receivers : rcv[r].msg = m} = {} /\ {m} \cap leaked = {}
  BY <1>1, <1>2, <1>3, <1>4 DEF Fresh
<1>6. Cardinality({s}) = 1 /\ Cardinality({}) = 0
  BY FS_Singleton, FS_EmptySet
<1>7. refs[m] = 0 + 1 + 0 + 0
  BY <1>1, <1>5, <1>6 DEF RefsAccounted
<1> QED
  BY <1>1, <1>2, <1>3, <1>7

LEMMA SendCases ==
  ASSUME IInv, NEW s \in Senders, SendMessage(s) \/ LookAgain(s)
  PROVE  /\ UNCHANGED <<rcvrs, slotOf, rcv, got>>
         /\ \E m \in Regions : Held(s, m) /\ (Quiet(s, m) \/ WithRoom(s, m) \/ InPlace(s, m))
<1>1. Types /\ SentInv /\ Linked /\ ReceiversInv /\ SendersInv /\ RefsAccounted /\ PostedInv
  BY DEF IInv
<1>2. PICK m, held, auto, deref :
         /\ Held(s, m) /\ held = [refs EXCEPT ![m] = 1] /\ auto \in BOOLEAN /\ deref \in BOOLEAN /\ (deref => auto)
         /\ Attempt(s, held, m, auto, deref) \/ (~Full(mq) /\ Post(s, mq, {}, held, m, auto, deref))
  <2>1. CASE SendMessage(s)
    <3> DEFINE m == sends + 1
    <3>1. sends \in 0 .. MaxSends - 1 /\ m \in Regions /\ sends' = m /\ m \in 0 .. MaxSends
      BY <1>1, <2>1, Sizes DEF SendMessage, Types, Regions
    <3>2. Fresh(m)
      BY <1>1, <3>1 DEF PostedInv, Fresh, Types
    <3>3. snd[s].msg = NoRegion
      BY <1>1, <2>1 DEF SendersInv, SendMessage
    <3>4. \A t \in Senders : snd[t].msg # m
      BY <1>1, <3>1 DEF SendersInv, Types
    <3>5. \A r \in Receivers : rcv[r].msg # m
      BY <1>1, <3>1, <3>2 DEF ReceiversInv, Fresh, NoRegion
    <3>6. Held(s, m)
      BY <3>1, <3>2, <3>3, <3>4, <3>5 DEF Held
    <3> QED
      BY <2>1, <3>6 DEF SendMessage
  <2>2. CASE LookAgain(s)
    <3> DEFINE m == snd[s].msg
    <3>1. Waiting(s) /\ sends' = sends
      BY <2>2 DEF LookAgain, Waiting
    <3>2. /\ m \in Regions /\ refs[m] = 1 /\ Fresh(m) /\ \A t \in Senders : snd[t].msg = m => t = s
          /\ \A r \in Receivers : rcv[r].msg # m
      BY <1>1, <3>1, HeldOnce
    <3>3. Held(s, m)
      BY <1>1, <3>1, <3>2 DEF Held, SendersInv, Types
    <3>4. refs = [refs EXCEPT ![m] = 1]
      BY <1>1, <3>2 DEF Types
    <3>5. snd[s].auto \in BOOLEAN
      BY <1>1 DEF Types, SenderState
    <3>6. CASE overflowPolicy # "WAIT"
      BY <2>2, <3>3, <3>4, <3>5, <3>6 DEF LookAgain
    <3>7. CASE overflowPolicy = "WAIT"
      BY <2>2, <3>3, <3>4, <3>5, <3>7 DEF LookAgain
    <3> QED
      BY <3>6, <3>7
  <2> QED
    BY <2>1, <2>2
<1>3. UNCHANGED <<rcvrs, slotOf, rcv, got>>
  BY DEF SendMessage, LookAgain
<1>4. m \in Regions /\ Fresh(m)
  BY <1>2 DEF Held
<1>5. CASE /\ refs' = held /\ UNCHANGED <<mq, entries, numMessages, sem, posted, lost>>
           /\ Return(s, m, auto, FALSE)
           /\ \/ messagesRead' = messagesRead /\ sndrsSem' = sndrsSem
              \/ messagesRead' = messagesRead + 1 /\ sndrsSem' = sndrsSem + 1
  <2>1. messagesRead \in Nat /\ sndrsSem \in Nat
    BY <1>1 DEF Types
  <2>2. ASSUME auto PROVE Keeps(s, m, {"owns", "waiting"}) \/ Forgets(s, m, {m})
    <3>1. Forgets(s, m, {m})
      BY <1>5, <2>2 DEF Return, Forgets
    <3> QED
      BY <3>1
  <2>3. ASSUME ~auto PROVE Keeps(s, m, {"owns", "waiting"}) \/ Forgets(s, m, {m})
    <3>1. Keeps(s, m, {"owns", "waiting"})
      BY <1>5, <2>3 DEF Return, Keeps
    <3> QED
      BY <3>1
  <2>6. Keeps(s, m, {"owns", "waiting"}) \/ Forgets(s, m, {m})
    BY <2>2, <2>3
  <2>7. Quiet(s, m)
    BY <1>2, <1>5, <2>6, Zenon DEF Quiet
  <2> QED
    BY <1>2, <1>3, <1>4, <2>7
<1>6. CASE ~Full(mq) /\ Post(s, mq, {}, held, m, auto, deref)
  <2>1. F # << >> /\ mq.freeBegin = F[1]
    <3>1. F # << >>
      BY <1>1, <1>6, LinkedFacts
    <3>2. Layout(mq, U, F)
      BY <1>1, ShapeFacts DEF Linked
    <3>3. mq.freeBegin = After(F, 1) /\ Len(F) \in Nat /\ F \in Seq(Slots)
      BY <3>2, Zenon DEF Layout
    <3>4. Len(F) # 0
      BY <3>1, <3>3, EmptySeq
    <3> QED
      BY <3>1, <3>3, <3>4 DEF After
  <2>2. Posted(s, m, F[1], refs)
    <3>1. \/ Keeps(s, m, {"owns"}) /\ refs' = [refs EXCEPT ![m] = 2]
          \/ Forgets(s, m, {m}) /\ refs' = [refs EXCEPT ![m] = 2]
          \/ Forgets(s, m, {}) /\ refs' = [refs EXCEPT ![m] = 1]
      <4>1. refs' = IF deref THEN [refs EXCEPT ![m] = 1] ELSE [refs EXCEPT ![m] = 2]
        <5>1. held[m] = 1 /\ m \in DOMAIN refs
          BY <1>1, <1>2, <1>4 DEF Types
        <5> QED
          <6>1. refs' = [held EXCEPT ![m] = IF deref THEN @ ELSE @ + 1]
            BY <1>6 DEF Post
          <6>2. refs \in [Regions -> Int]
            BY <1>1 DEF Types
          <6>3. held = [refs EXCEPT ![m] = 1]
            BY <1>2
          <6>4. held \in [Regions -> Int] /\ held[m] = 1
            BY <1>4, <6>2, <6>3
          <6>5. CASE deref
            <7>1. refs' = held
              BY <6>1, <6>4, <6>5
            <7> QED
              BY <6>3, <6>5, <7>1
          <6>6. CASE ~deref
            <7>1. refs' = [held EXCEPT ![m] = 2]
              BY <6>1, <6>4, <6>6
            <7> QED
              BY <1>4, <6>2, <6>3, <6>6, <7>1
          <6> QED
            BY <6>5, <6>6
      <4>2. CASE deref
        BY <1>2, <1>6, <4>1, <4>2 DEF Post, Return, Forgets
      <4>3. CASE ~deref /\ auto
        BY <1>2, <1>6, <4>1, <4>3 DEF Post, Return, Forgets
      <4>4. CASE ~deref /\ ~auto
        BY <1>2, <1>6, <4>1, <4>4 DEF Post, Return, Keeps
      <4> QED
        BY <1>2, <4>2, <4>3, <4>4
    <3> QED
      BY <1>6, <2>1, <3>1 DEF Post, Posted
  <2>3. mq' = LB!new_back(mq) /\ lost' = lost
    BY <1>6 DEF Post
  <2> QED
    BY <1>2, <1>3, <1>4, <2>1, <2>2, <2>3 DEF WithRoom
<1>7. CASE Full(mq) /\ Post(s, LB!pop_front(mq), {entries[mq.activeBegin].msg}, DropOldest(held), m, auto, deref)
  <2>1. F = << >> /\ mq.activeBegin = U[1] /\ LB!pop_front(mq).freeBegin = U[1] /\ U[1] \in Queued
    <3>1. F = << >>
      BY <1>1, <1>7, LinkedFacts
    <3>2. mq' = LB!new_back(LB!pop_front(mq))
      BY <1>7 DEF Post
    <3> QED
      BY <1>1, <3>1, <3>2, ListDrops
  <2> DEFINE q == entries[U[1]].msg
             left == [refs EXCEPT ![q] = @ - 1]
  <2>2. q # m /\ q \in Regions
    <3>1. U[1] \in Slots
      BY <1>1, <2>1, LinkedFacts
    <3>2. Sn(U[1]) + 1 \in 1 .. Len(posted) /\ posted[Sn(U[1]) + 1] = q /\ q \in Regions
      BY <1>1, <2>1, <3>1, QueuedPosted
    <3> QED
      BY <1>4, <3>2 DEF Fresh
  <2>3. refs' = IF deref THEN [left EXCEPT ![m] = 1] ELSE [left EXCEPT ![m] = 2]
    <3>1. refs' = [DropOldest(held) EXCEPT ![m] = IF deref THEN @ ELSE @ + 1]
      BY <1>7 DEF Post
    <3>2. DropOldest(held) = [held EXCEPT ![q] = @ - 1]
      BY <2>1 DEF DropOldest
    <3>3. refs \in [Regions -> Int]
      BY <1>1 DEF Types
    <3> HIDE DEF q
    <3>4. DropOldest(held) = [left EXCEPT ![m] = 1]
      BY <1>2, <1>4, <2>2, <3>2, <3>3
    <3>5. left \in [Regions -> Int]
      BY <2>2, <3>3
    <3> HIDE DEF left
    <3>6. refs' = [[left EXCEPT ![m] = 1] EXCEPT ![m] = IF deref THEN @ ELSE @ + 1]
      BY <3>1, <3>4
    <3> DEFINE h == [left EXCEPT ![m] = 1]
    <3>7. h \in [Regions -> Int] /\ h[m] = 1
      BY <1>4, <3>5
    <3>8. CASE deref
      <4>1. refs' = h
        <5> HIDE DEF h
        <5>1. refs' = [h EXCEPT ![m] = IF deref THEN @ ELSE @ + 1]
          BY <3>6 DEF h
        <5> QED
          BY <3>7, <3>8, <5>1
      <4> QED
        BY <3>8, <4>1
    <3>9. CASE ~deref
      <4>1. refs' = [h EXCEPT ![m] = 2]
        <5> HIDE DEF h
        <5>1. refs' = [h EXCEPT ![m] = IF deref THEN @ ELSE @ + 1]
          BY <3>6 DEF h
        <5> QED
          BY <3>7, <3>9, <5>1
      <4> QED
        BY <1>4, <3>5, <3>9, <4>1
    <3> QED
      BY <3>8, <3>9
  <2>4. Posted(s, m, U[1], left)
    <3>1. \/ Keeps(s, m, {"owns"}) /\ refs' = [left EXCEPT ![m] = 2]
          \/ Forgets(s, m, {m}) /\ refs' = [left EXCEPT ![m] = 2]
          \/ Forgets(s, m, {}) /\ refs' = [left EXCEPT ![m] = 1]
      <4> HIDE DEF left
      <4>2. CASE deref
        BY <1>2, <1>7, <2>3, <4>2 DEF Post, Return, Forgets
      <4>3. CASE ~deref /\ auto
        BY <1>2, <1>7, <2>3, <4>3 DEF Post, Return, Forgets
      <4>4. CASE ~deref /\ ~auto
        BY <1>2, <1>7, <2>3, <4>4 DEF Post, Return, Keeps
      <4> QED
        BY <1>2, <4>2, <4>3, <4>4
    <3> HIDE DEF left
    <3> QED
      BY <1>7, <2>1, <3>1 DEF Post, Posted
  <2>5. mq' = LB!new_back(LB!pop_front(mq)) /\ lost' = lost \cup {q}
    BY <1>7, <2>1 DEF Post
  <2> QED
    BY <1>2, <1>3, <1>4, <2>1, <2>4, <2>5 DEF InPlace
<1>8. CASE /\ snd' = [snd EXCEPT ![s] = [pc |-> "waiting", msg |-> m, auto |-> auto]]
           /\ refs' = held
           /\ UNCHANGED <<mq, entries, numMessages, messagesRead, sem, sndrsSem, posted, lost, leaked>>
  <2>1. messagesRead \in Nat /\ sndrsSem \in Nat
    BY <1>1 DEF Types
  <2>2. Keeps(s, m, {"owns", "waiting"})
    BY <1>2, <1>8 DEF Keeps
  <2> QED
    BY <1>2, <1>3, <1>4, <1>8, <2>2 DEF Quiet
<1> QED
  BY <1>2, <1>5, <1>6, <1>7, <1>8 DEF Attempt, Drop

\* ---------------------------- the kinds of step ---------------------------

Sends == /\ UNCHANGED <<rcvrs, slotOf, rcv, got>>
         /\ \E s \in Senders, m \in Regions : Held(s, m) /\ (Quiet(s, m) \/ WithRoom(s, m) \/ InPlace(s, m))

\* The policy, closing, or nothing at all.
Elsewhere == UNCHANGED <<mq, entries, numMessages, messagesRead, rcvrs, slotOf, sem, sndrsSem, refs,
                         sends, snd, rcv, got, posted, lost, leaked>>

LEMMA StepCases ==
  ASSUME IInv, [Next]_vars
  PROVE  \/ Sends
         \/ \E s \in Senders : ReleaseOwn(s)
         \/ \E r \in Receivers : Reading(r)
         \/ \E r \in Receivers : Membership(r)
         \/ Elsewhere
<1>1. ASSUME NEW s \in Senders, SendMessage(s) \/ LookAgain(s) PROVE Sends
  BY <1>1, SendCases, Zenon DEF Sends
<1>2. CASE \E op \in Policies : setOverflowPolicy(op)
  BY <1>2 DEF setOverflowPolicy, Elsewhere
<1>3. CASE close
  BY <1>3 DEF close, Elsewhere
<1>4. CASE UNCHANGED vars
  BY <1>4 DEF vars, Elsewhere
<1> QED
  BY <1>1, <1>2, <1>3, <1>4, Zenon DEF Next, Sending

\* The last reader of a message is the one whose mark alone is missing.
LEMMA LastOne ==
  ASSUME RcvrsInv, FlagsInv, NEW i \in Queued, NEW id \in ToSet(rcvrs.used), id \notin entries[i].readFlags
  PROVE  /\ entries[i].numRead \in Nat
         /\ entries[i].numRead + 1 = numReceivers <=> entries[i].readFlags \cup {id} = ToSet(rcvrs.used)
         /\ IsFiniteSet(entries[i].readFlags)
         /\ Cardinality(entries[i].readFlags \cup {id}) = entries[i].numRead + 1
<1> DEFINE fl == entries[i].readFlags
           us == ToSet(rcvrs.used)
           al == fl \cup {id}
<1>1. fl \subseteq us /\ entries[i].numRead = Cardinality(fl) /\ al \in SUBSET us
  BY DEF FlagsInv
<1>2. IsFiniteSet(us) /\ numReceivers = Cardinality(us)
  BY ListedReceivers
<1> HIDE DEF us
<1>3. IsFiniteSet(fl) /\ Cardinality(fl) \in Nat
  <2> HIDE DEF fl
  <2> QED
    BY <1>1, <1>2, FS_Subset, FS_CardinalityType
<1>4. Cardinality(al) = Cardinality(fl) + 1
  <2> HIDE DEF fl
  <2>1. id \notin fl
    BY DEF fl
  <2> QED
    BY <1>3, <2>1, FS_AddElement DEF al
<1>5. Cardinality(us) = Cardinality(al) => us = al
  <2> HIDE DEF al
  <2> QED
    BY <1>1, <1>2, FS_Subset
<1>6. Cardinality(fl) + 1 = numReceivers <=> al = us
  <2> HIDE DEF al, fl
  <2> QED
    BY <1>2, <1>4, <1>5
<1> QED
  BY <1>1, <1>3, <1>4, <1>6 DEF us

\* markRead: a receiver whose mark is missing stands at a queued message.
LEMMA Marks ==
  ASSUME IInv, NEW r \in Receivers, markRead(r), NEW c, c = rcv[r].curit
  PROVE  /\ c \in Slots /\ r \in Registered /\ slotOf[r] \in ToSet(rcvrs.used)
         /\ \/ Read(r, c) /\ UNCHANGED <<mq, entries, messagesRead, sndrsSem, refs>>
            \/ /\ c \in Queued /\ ~Read(r, c)
               /\ entries' = [entries EXCEPT ![c].readFlags = @ \cup {slotOf[r]}, ![c].numRead = @ + 1]
               /\ \/ /\ entries[c].readFlags \cup {slotOf[r]} = ToSet(rcvrs.used)
                     /\ refs' = [refs EXCEPT ![entries[c].msg] = @ - 1]
                     /\ mq' = LB!erase(mq, c)
                     /\ messagesRead' = messagesRead + 1 /\ sndrsSem' = sndrsSem + 1
                  \/ /\ entries[c].readFlags \cup {slotOf[r]} # ToSet(rcvrs.used)
                     /\ UNCHANGED <<mq, messagesRead, sndrsSem, refs>>
<1>1. Types /\ RcvrsInv /\ FlagsInv /\ PlaceInv /\ Linked
  BY DEF IInv
<1>2. rcv[r].pc = "mark"
  BY DEF markRead, ReceiverAt
<1>3. r \in Registered /\ slotOf[r] \in ToSet(rcvrs.used)
  BY <1>1, <1>2, Listed
<1>4. c \in Slots
  <2>1. c # End
    BY <1>1, <1>2, <1>3 DEF PlaceInv
  <2> QED
    BY <1>1, <2>1 DEF Types, RcvState
<1>5. CASE Read(r, c)
  BY <1>3, <1>4, <1>5 DEF markRead, Read
<1>6. CASE ~Read(r, c)
  <2>1. c \in Queued
    <3> SUFFICES ASSUME c \notin Queued PROVE FALSE
      OBVIOUS
    <3>1. PICK j \in 1 .. Len(F) : F[j] = c
      BY <1>1, <1>4, LinkedFacts
    <3>2. j <= j
      BY <1>1, <3>1, LinkedFacts
    <3>3. Settled(r)
      BY <1>1, <1>3 DEF PlaceInv
    <3> QED
      BY <1>6, <3>1, <3>2, <3>3 DEF Settled
  <2>2. slotOf[r] \notin entries[c].readFlags
    BY <1>6 DEF Read
  <2>3. LastReader(entries[c]) <=> entries[c].readFlags \cup {slotOf[r]} = ToSet(rcvrs.used)
    BY <1>1, <1>3, <2>1, <2>2, LastOne DEF LastReader
  <2>4. /\ entries' = [entries EXCEPT ![c].readFlags = @ \cup {slotOf[r]}, ![c].numRead = @ + 1]
        /\ IF LastReader(entries[c])
           THEN /\ refs' = [refs EXCEPT ![entries[c].msg] = @ - 1]
                /\ mq' = LB!erase(mq, c)
                /\ messagesRead' = messagesRead + 1
                /\ sndrsSem' = sndrsSem + 1
           ELSE UNCHANGED <<mq, messagesRead, sndrsSem, refs>>
    BY <2>2 DEF markRead
  <2> QED
    BY <1>3, <1>4, <1>6, <2>1, <2>3, <2>4
<1> QED
  BY <1>5, <1>6

Done(r) == {i \in Queued : ~Read(r, i) /\ entries[i].readFlags \cup {slotOf[r]} = ToSet(rcvrs.used)}

\* removeReceiver: what goes has been read by all the others.
LEMMA Leaves ==
  ASSUME IInv, NEW r \in Receivers, removeReceiver(r)
  PROVE  /\ rcv[r].pc = "leave" /\ r \in Registered /\ slotOf[r] \in ToSet(rcvrs.used)
         /\ rcvrs' = Erase(rcvrs, slotOf[r])
         /\ entries' = [i \in Slots |-> IF i \in Queued THEN Forget(entries[i], slotOf[r]) ELSE entries[i]]
         /\ mq' = EraseSlots(Done(r)) /\ refs' = Unshare(Done(r))
         /\ messagesRead' = messagesRead + Cardinality(Done(r))
         /\ sndrsSem' = sndrsSem + Cardinality(Done(r))
         /\ slotOf' = [slotOf EXCEPT ![r] = End] /\ rcv' = [rcv EXCEPT ![r].pc = "gone"]
<1>1. Types /\ RcvrsInv /\ FlagsInv
  BY DEF IInv
<1>2. rcv[r].pc = "leave"
  BY DEF removeReceiver, ReceiverAt
<1>3. r \in Registered /\ slotOf[r] \in ToSet(rcvrs.used)
  BY <1>1, <1>2, Listed
<1> DEFINE done == {i \in Queued : slotOf[r] \notin entries[i].readFlags /\ entries[i].numRead = numReceivers - 1}
<1>4. done = Done(r)
  <2> SUFFICES ASSUME NEW i \in Queued, slotOf[r] \notin entries[i].readFlags
               PROVE  entries[i].numRead = numReceivers - 1
                      <=> entries[i].readFlags \cup {slotOf[r]} = ToSet(rcvrs.used)
    BY DEF Done, Read
  <2>1. /\ entries[i].numRead \in Nat
        /\ entries[i].numRead + 1 = numReceivers <=> entries[i].readFlags \cup {slotOf[r]} = ToSet(rcvrs.used)
    BY <1>1, <1>3, LastOne
  <2>2. numReceivers \in Nat
    BY <1>1, ListedReceivers
  <2> QED
    BY <2>1, <2>2
<1>5. /\ rcvrs' = Erase(rcvrs, slotOf[r])
      /\ entries' = [i \in Slots |-> IF i \in Queued THEN Forget(entries[i], slotOf[r]) ELSE entries[i]]
      /\ mq' = EraseSlots(done) /\ refs' = Unshare(done)
      /\ messagesRead' = messagesRead + Cardinality(done)
      /\ sndrsSem' = sndrsSem + Cardinality(done)
      /\ slotOf' = [slotOf EXCEPT ![r] = End] /\ rcv' = [rcv EXCEPT ![r].pc = "gone"]
  BY DEF removeReceiver
<1> HIDE DEF done
<1> QED
  BY <1>2, <1>3, <1>4, <1>5

\* What a receiver finds: it has not been given it, and it is queued or was
\* read by it before its slot became free.
LEMMA Peeks ==
  ASSUME IInv, NEW r \in Receivers, peekNextMessage(r), NEW it, it = findCurrentMessage(r), it # End
  PROVE  /\ it \in Slots /\ (it \in Queued \/ Read(r, it)) /\ Sn(it) >= rcv[r].nextMessage
         /\ \/ it \in Queued
            \/ \E a, b \in 1 .. Len(F) : a <= b /\ F[a] = rcv[r].curit /\ F[b] = it
<1>0. Types /\ RcvrsInv /\ PlaceInv /\ Linked /\ Ascending
  BY DEF IInv
<1>1. r \in Registered
  <2>1. rcv[r].pc \notin {"new", "gone"}
    BY DEF peekNextMessage, ReceiverAt
  <2> QED
    BY <1>0, <2>1, Listed
<1>2. rcv[r].nextMessage \in Nat /\ rcv[r].curit \in Slots \cup {End}
  BY <1>0 DEF Types, RcvState
<1>3. \A i \in Slots : Sn(i) \in Nat
  BY <1>0 DEF Types, Entry, Sn
<1>4. it = FirstUnread(rcv[r].curit, rcv[r].nextMessage)
  BY DEF findCurrentMessage
<1>5. CASE rcv[r].curit = End
  <2>1. it \in Queued /\ Sn(it) >= rcv[r].nextMessage
    <3>1. it = FirstUnread(End, rcv[r].nextMessage)
      BY <1>4, <1>5
    <3> QED
      BY <1>0, <1>2, <1>3, <3>1, FoundFromEnd
  <2> QED
    BY <1>0, <2>1, LinkedFacts
<1>6. CASE rcv[r].curit # End
  <2>1. rcv[r].curit \in Slots
    BY <1>2, <1>6
  <2>2. /\ it \in Slots /\ Sn(it) >= rcv[r].nextMessage
        /\ \/ it \in Queued
           \/ \E a, b \in 1 .. Len(F) : a <= b /\ F[a] = rcv[r].curit /\ F[b] = it
    BY <1>0, <1>2, <1>4, <2>1, FoundFrom
  <2>3. Settled(r)
    BY <1>0, <1>1 DEF PlaceInv
  <2>4. it \in Queued \/ Read(r, it)
    BY <2>2, <2>3 DEF Settled
  <2> QED
    BY <2>2, <2>4
<1> QED
  BY <1>5, <1>6

\* -------------------------- one conjunct at a time ------------------------

LEMMA LinkedKept ==
  ASSUME IInv, [Next]_vars
  PROVE  Linked'
<1>0. Linked
  BY DEF IInv
<1>1. CASE mq' = mq
  BY <1>0, <1>1, LinkedSame
<1>2. CASE Sends
  <2>1. PICK s \in Senders, m \in Regions : Quiet(s, m) \/ WithRoom(s, m) \/ InPlace(s, m)
    BY <1>2 DEF Sends
  <2>2. CASE Quiet(s, m)
    BY <1>1, <2>2 DEF Quiet
  <2>3. CASE WithRoom(s, m)
    BY <1>0, <2>3, ListPosts DEF WithRoom
  <2>4. CASE InPlace(s, m)
    BY <1>0, <2>4, ListDrops DEF InPlace
  <2> QED
    BY <2>1, <2>2, <2>3, <2>4
<1>3. ASSUME NEW s \in Senders, ReleaseOwn(s) PROVE Linked'
  BY <1>1, <1>3 DEF ReleaseOwn
<1>4. ASSUME NEW r \in Receivers, Reading(r) PROVE Linked'
  <2>1. CASE markRead(r)
    <3>1. CASE mq' = LB!erase(mq, rcv[r].curit) /\ rcv[r].curit \in Queued
      BY <1>0, <3>1, ListErases
    <3> QED
      BY <1>1, <2>1, <3>1, Marks
  <2>2. CASE ~markRead(r)
    BY <1>1, <1>4, <2>2 DEF Reading, waitNextMessage, peekNextMessage, readNumber, advance, release, queueVars
  <2> QED
    BY <2>1, <2>2
<1>5. ASSUME NEW r \in Receivers, Membership(r) PROVE Linked'
  <2>1. CASE removeReceiver(r)
    <3>1. mq' = EraseSlots(Done(r))
      BY <2>1, Leaves
    <3>2. Done(r) \in SUBSET Queued
      BY DEF Done
    <3> QED
      BY <1>0, <3>1, <3>2, ListPrunes
  <2>2. CASE ~removeReceiver(r)
    BY <1>1, <1>5, <2>2 DEF Membership, addReceiver, start, finish, joined, queueVars
  <2> QED
    BY <2>1, <2>2
<1> QED
  BY <1>1, <1>2, <1>3, <1>4, <1>5, StepCases DEF Elsewhere

\* What only senders change.
LEMMA SendersAlone ==
  ASSUME NEW r \in Receivers, Reading(r) \/ Membership(r)
  PROVE  UNCHANGED <<sends, snd, posted, lost, leaked, numMessages, overflowPolicy, isClosed>>
BY DEF Reading, Membership, waitNextMessage, peekNextMessage, readNumber, markRead, advance, release,
       addReceiver, start, finish, joined, removeReceiver, queueVars, senderVars

\* What concerns another receiver stays.
LEMMA OneReceiver ==
  ASSUME Types, NEW r \in Receivers, Reading(r) \/ Membership(r), NEW q \in Receivers, q # r
  PROVE  rcv'[q] = rcv[q] /\ slotOf'[q] = slotOf[q] /\ got'[q] = got[q] /\ sem'[q] = sem[q]
<1>0. /\ rcv \in [Receivers -> RcvState] /\ slotOf \in [Receivers -> RSlots \cup {End}]
      /\ got \in [Receivers -> Seq(Regions)] /\ sem \in [Receivers -> Nat]
  BY DEF Types
<1>1. rcv'[q] = rcv[q]
  <2>1. CASE Reading(r)
    BY <1>0, <2>1 DEF Reading, waitNextMessage, peekNextMessage, readNumber, markRead, advance, release
  <2>2. CASE Membership(r)
    BY <1>0, <2>2 DEF Membership, addReceiver, start, finish, joined, removeReceiver
  <2> QED
    BY <2>1, <2>2
<1>2. slotOf'[q] = slotOf[q] /\ got'[q] = got[q]
  BY <1>0 DEF Reading, Membership, waitNextMessage, peekNextMessage, readNumber, markRead, advance, release,
              addReceiver, start, finish, joined, removeReceiver
<1>3. sem'[q] = sem[q]
  <2>1. CASE Reading(r)
    BY <1>0, <2>1 DEF Reading, waitNextMessage, peekNextMessage, readNumber, markRead, advance, release
  <2>2. CASE Membership(r)
    BY <1>0, <2>2 DEF Membership, addReceiver, start, finish, joined, removeReceiver
  <2> QED
    BY <2>1, <2>2
<1> QED
  BY <1>1, <1>2, <1>3

LEMMA PostedKept ==
  ASSUME IInv, [Next]_vars
  PROVE  PostedInv'
<1>0. PostedInv /\ Types
  BY DEF IInv
<1>1. CASE posted' = posted /\ sends' = sends /\ leaked' = leaked
  BY <1>0, <1>1 DEF PostedInv
<1>2. CASE Sends
  <2>1. PICK s \in Senders, m \in Regions : Held(s, m) /\ (Quiet(s, m) \/ WithRoom(s, m) \/ InPlace(s, m))
    BY <1>2 DEF Sends
  <2>2. sends \in Nat /\ sends' \in Nat /\ sends <= sends' /\ m <= sends' /\ m \in Nat
    BY <1>0, <2>1 DEF Held, Types, Regions
  <2>3. \A k \in leaked' : k \in leaked \/ k = m
    BY <2>1 DEF Quiet, WithRoom, InPlace, Posted, Keeps, Forgets
  <2>4. \A k \in leaked' : k <= sends'
    <3>1. \A k \in leaked : k \in Nat
      BY <1>0 DEF Types, Regions
    <3> QED
      BY <1>0, <2>2, <2>3, <3>1 DEF PostedInv
  <2>5. posted \in Seq(Regions) /\ Len(posted) \in Nat /\ \A k \in 1 .. Len(posted) : posted[k] \in Nat /\ posted[k] # m
    <3>1. posted \in Seq(Regions) /\ Regions \subseteq Nat
      BY <1>0 DEF Types, Regions
    <3>2. Len(posted) \in Nat /\ \A k \in 1 .. Len(posted) : posted[k] \in Nat
      BY <3>1, Members
    <3> QED
      BY <2>1, <3>1, <3>2 DEF Held, Fresh
  <2>6. CASE posted' = posted
    BY <1>0, <2>2, <2>4, <2>5, <2>6 DEF PostedInv
  <2>7. CASE posted' = Append(posted, m)
    <3>1. /\ Len(posted') = Len(posted) + 1 /\ posted'[Len(posted) + 1] = m
          /\ \A k \in 1 .. Len(posted) : posted'[k] = posted[k]
      BY <2>5, <2>7
    <3>2. \A k \in 1 .. Len(posted') : k = Len(posted) + 1 \/ k \in 1 .. Len(posted)
      BY <2>5, <3>1
    <3>3. \A k \in 1 .. Len(posted') : posted'[k] <= sends'
      BY <1>0, <2>2, <2>5, <3>1, <3>2 DEF PostedInv
    <3>4. \A j, k \in 1 .. Len(posted') : posted'[j] = posted'[k] => j = k
      BY <1>0, <2>5, <3>1, <3>2 DEF PostedInv
    <3> QED
      BY <2>4, <3>3, <3>4 DEF PostedInv
  <2> QED
    BY <2>1, <2>6, <2>7 DEF Quiet, WithRoom, InPlace, Posted
<1>3. ASSUME NEW s \in Senders, ReleaseOwn(s) PROVE PostedInv'
  BY <1>1, <1>3 DEF ReleaseOwn
<1> QED
  BY <1>1, <1>2, <1>3, SendersAlone, StepCases DEF Elsewhere

LEMMA SendersKept ==
  ASSUME IInv, [Next]_vars
  PROVE  SendersInv'
<1>0. SendersInv /\ Types
  BY DEF IInv
<1>1. CASE snd' = snd /\ posted' = posted /\ sends' = sends /\ leaked' = leaked
  BY <1>0, <1>1 DEF SendersInv, Fresh
<1>2. CASE Sends
  <2>1. PICK s \in Senders, m \in Regions : Held(s, m) /\ (Quiet(s, m) \/ WithRoom(s, m) \/ InPlace(s, m))
    BY <1>2 DEF Sends
  <2>2. /\ sends \in Nat /\ sends' \in Nat /\ sends <= sends' /\ m <= sends' /\ m \in Nat /\ m # NoRegion
        /\ 0 <= sends'
    BY <1>0, <2>1 DEF Held, Types, Regions, NoRegion
  <2>3. \A t \in Senders : snd[t].msg \in Nat /\ snd[t].msg <= sends /\ (t # s => snd[t].msg # m)
    BY <1>0, <2>1 DEF SendersInv, Held, Types, SenderState, Regions, NoRegion
  <2>4. \A t \in Senders : t # s => snd'[t] = snd[t]
    BY <1>0, <2>1 DEF Quiet, WithRoom, InPlace, Posted, Keeps, Forgets, Types
  <2>5. \/ snd'[s].pc = "idle" /\ snd'[s].msg = NoRegion
        \/ /\ snd'[s].pc \in {"owns", "waiting"} /\ snd'[s].msg = m
           /\ snd'[s].pc = "waiting" => posted' = posted /\ leaked' = leaked
    BY <1>0, <2>1 DEF Quiet, WithRoom, InPlace, Posted, Keeps, Forgets, Types
  <2> DEFINE G(n) == n \notin leaked' /\ \A k \in 1 .. Len(posted') : posted'[k] # n
  <2>6. \A n : Fresh(n) /\ n # m => G(n)
    <3>1. \A n : n \in leaked' => n \in leaked \/ n = m
      BY <2>1 DEF Quiet, WithRoom, InPlace, Posted, Keeps, Forgets
    <3>2. posted' = posted \/ posted' = Append(posted, m)
      BY <2>1 DEF Quiet, WithRoom, InPlace, Posted
    <3>3. posted \in Seq(Regions)
      BY <1>0 DEF Types
    <3>4. \A k \in 1 .. Len(posted') : posted'[k] = m \/ (k \in 1 .. Len(posted) /\ posted'[k] = posted[k])
      BY <3>2, <3>3
    <3> QED
      BY <3>1, <3>4 DEF Fresh
  <2>7. Fresh(m)
    BY <2>1 DEF Held
  <2>8. \A t \in Senders : /\ snd'[t].msg <= sends'
                           /\ snd'[t].pc = "idle" <=> snd'[t].msg = NoRegion
                           /\ snd'[t].pc = "waiting" => G(snd'[t].msg)
    <3> SUFFICES ASSUME NEW t \in Senders
                 PROVE /\ snd'[t].msg <= sends'
                       /\ snd'[t].pc = "idle" <=> snd'[t].msg = NoRegion
                       /\ snd'[t].pc = "waiting" => G(snd'[t].msg)
      OBVIOUS
    <3> HIDE DEF G
    <3>1. CASE t # s
      BY <1>0, <2>2, <2>3, <2>4, <2>6, <3>1 DEF SendersInv
    <3>2. CASE t = s
      <4>1. snd'[s].pc = "waiting" => G(m)
        BY <2>5, <2>7 DEF Fresh, G
      <4> QED
        BY <2>2, <2>5, <3>2, <4>1 DEF NoRegion
    <3> QED
      BY <3>1, <3>2
  <2>9. \A t, q \in Senders : snd'[t].msg = snd'[q].msg /\ snd'[t].msg # NoRegion => t = q
    BY <1>0, <2>3, <2>4, <2>5 DEF SendersInv
  <2> QED
    BY <2>8, <2>9 DEF SendersInv, Fresh
<1>3. ASSUME NEW s \in Senders, ReleaseOwn(s) PROVE SendersInv'
  <2>1. \A t \in Senders : t # s => snd'[t] = snd[t]
    BY <1>0, <1>3 DEF ReleaseOwn, Types
  <2>2. snd'[s].pc = "idle" /\ snd'[s].msg = NoRegion /\ 0 <= sends /\ posted' = posted /\ leaked' = leaked /\ sends' = sends
    BY <1>0, <1>3 DEF ReleaseOwn, Types, SenderState
  <2> QED
    BY <1>0, <2>1, <2>2 DEF SendersInv, Fresh, NoRegion
<1> QED
  BY <1>1, <1>2, <1>3, SendersAlone, StepCases DEF Elsewhere

LEMMA ReceiversKept ==
  ASSUME IInv, [Next]_vars
  PROVE  ReceiversInv'
<1>0. ReceiversInv /\ Types /\ RcvrsInv
  BY DEF IInv
<1>1. posted \in Seq(Regions) /\ Len(posted) \in Nat
  BY <1>0 DEF Types
<1> DEFINE G(n) == \E k \in 1 .. Len(posted) : posted[k] = n
           H(n) == \E k \in 1 .. Len(posted') : posted'[k] = n
<1>2. \A n : G(n) => H(n)
  <2>1. posted' = posted \/ \E m : posted' = Append(posted, m)
    BY StepCases, SendersAlone DEF Sends, Quiet, WithRoom, InPlace, Posted, ReleaseOwn, Elsewhere
  <2>2. ASSUME NEW m, posted' = Append(posted, m) PROVE \A k \in 1 .. Len(posted) : k \in 1 .. Len(posted') /\ posted'[k] = posted[k]
    BY <1>1, <2>2
  <2> QED
    BY <2>1, <2>2
<1> HIDE DEF G, H
<1>3. CASE rcv' = rcv
  BY <1>0, <1>2, <1>3 DEF ReceiversInv, G, H
<1>4. ASSUME NEW r \in Receivers, Reading(r) \/ Membership(r) PROVE ReceiversInv'
  <2>1. \A q \in Receivers : q # r => rcv'[q] = rcv[q]
    BY <1>0, <1>4, OneReceiver
  <2>2. /\ rcv'[r].msg # NoRegion <=> rcv'[r].pc \in {"number", "mark", "advance", "release"}
        /\ rcv'[r].msg # NoRegion => G(rcv'[r].msg)
    <3>0. /\ rcv[r].msg # NoRegion <=> rcv[r].pc \in {"number", "mark", "advance", "release"}
          /\ rcv[r].msg # NoRegion => G(rcv[r].msg)
          /\ rcv[r] \in RcvState /\ r \in DOMAIN rcv
      BY <1>0 DEF ReceiversInv, G, Types
    <3>2. CASE peekNextMessage(r) /\ findCurrentMessage(r) # End
      <4> DEFINE it == findCurrentMessage(r)
      <4>1. rcv'[r].msg = entries[it].msg /\ rcv'[r].pc = "number"
        <5>1. rcv' = [rcv EXCEPT ![r].curit = it, ![r].msg = entries[it].msg, ![r].pc = "number"]
          BY <3>2 DEF peekNextMessage
        <5> HIDE DEF it
        <5> QED
          BY <3>0, <5>1 DEF RcvState
      <4>2. it \in Slots /\ (it \in Queued \/ Read(r, it))
        BY <3>2, Peeks
      <4> HIDE DEF it
      <4>3. Sn(it) + 1 \in 1 .. Len(posted) /\ posted[Sn(it) + 1] = entries[it].msg /\ entries[it].msg \in Regions
        BY <4>2, QueuedPosted DEF IInv, Read
      <4> QED
        BY <4>1, <4>3 DEF G, Regions, NoRegion
    <3>3. CASE release(r)
      BY <3>0, <3>3 DEF release, RcvState, Onward, NoRegion
    <3>4. CASE ~release(r) /\ ~(peekNextMessage(r) /\ findCurrentMessage(r) # End)
      <4>1. rcv'[r].msg = rcv[r].msg
        BY <1>4, <3>0, <3>4 DEF Reading, Membership, waitNextMessage, peekNextMessage, readNumber, markRead, advance,
                                addReceiver, start, finish, joined, removeReceiver, RcvState
      <4>2. rcv'[r].pc \in {"number", "mark", "advance", "release"} <=> rcv[r].pc \in {"number", "mark", "advance", "release"}
        BY <1>4, <3>0, <3>4 DEF Reading, Membership, waitNextMessage, peekNextMessage, readNumber, markRead, advance,
                                addReceiver, start, finish, joined, removeReceiver, RcvState, ReceiverAt
      <4> QED
        BY <3>0, <4>1, <4>2
    <3> QED
      BY <3>2, <3>3, <3>4
  <2>3. \A q \in Receivers : /\ rcv'[q].msg # NoRegion <=> rcv'[q].pc \in {"number", "mark", "advance", "release"}
                             /\ rcv'[q].msg # NoRegion => H(rcv'[q].msg)
    <3> SUFFICES ASSUME NEW q \in Receivers
                 PROVE  /\ rcv'[q].msg # NoRegion <=> rcv'[q].pc \in {"number", "mark", "advance", "release"}
                        /\ rcv'[q].msg # NoRegion => H(rcv'[q].msg)
      OBVIOUS
    <3>1. CASE q = r
      BY <1>2, <2>2, <3>1
    <3>2. CASE q # r
      <4>1. /\ rcv[q].msg # NoRegion <=> rcv[q].pc \in {"number", "mark", "advance", "release"}
            /\ rcv[q].msg # NoRegion => G(rcv[q].msg)
        BY <1>0 DEF ReceiversInv, G
      <4> QED
        BY <1>2, <2>1, <3>2, <4>1
    <3> QED
      BY <3>1, <3>2
  <2> QED
    BY <2>3 DEF ReceiversInv, H
<1> QED
  BY <1>3, <1>4, StepCases DEF Sends, ReleaseOwn, Elsewhere

LEMMA RcvrsKept ==
  ASSUME IInv, [Next]_vars
  PROVE  RcvrsInv'
<1>0. RcvrsInv /\ Types
  BY DEF IInv
<1>1. CASE rcvrs' = rcvrs /\ slotOf' = slotOf /\ rcv' = rcv
  BY <1>0, <1>1, RcvrsSame
<1>2. ASSUME NEW r \in Receivers, Reading(r) \/ start(r) \/ finish(r) \/ joined(r) PROVE RcvrsInv'
  <2>1. rcvrs' = rcvrs /\ slotOf' = slotOf
    BY <1>2 DEF Reading, waitNextMessage, peekNextMessage, readNumber, markRead, advance, release,
                start, finish, joined
  <2>2. \A q \in Receivers : q # r => rcv'[q] = rcv[q]
    BY <1>0, <1>2, OneReceiver DEF Membership
  <2>3. rcv'[r].pc \in {"new", "gone"} <=> rcv[r].pc \in {"new", "gone"}
    <3>1. rcv[r] \in RcvState /\ r \in DOMAIN rcv
      BY <1>0 DEF Types
    <3>2. CASE Reading(r)
      BY <3>1, <3>2 DEF Reading, waitNextMessage, peekNextMessage, readNumber, markRead, advance, release,
                        ReceiverAt, RcvState, Onward
    <3>3. CASE start(r) \/ finish(r) \/ joined(r)
      BY <3>1, <3>3 DEF start, finish, joined, ReceiverAt, RcvState
    <3> QED
      BY <1>2, <3>2, <3>3
  <2> QED
    BY <1>0, <2>1, <2>2, <2>3, RcvrsSame
<1>3. ASSUME NEW r \in Receivers, addReceiver(r) PROVE RcvrsInv'
  <2> DEFINE x == NextSlot(rcvrs)
  <2>1. /\ ~IsFull(rcvrs) /\ rcvrs' = PushBack(rcvrs) /\ slotOf' = [slotOf EXCEPT ![r] = x]
        /\ rcv[r].pc = "new" /\ rcv'[r].pc = "ready" /\ \A q \in Receivers : q # r => rcv'[q].pc = rcv[q].pc
    BY <1>0, <1>3 DEF addReceiver, ReceiverAt, Types, RcvState
  <2>2. /\ rcvrs' \in Pool(RSlots) /\ Sound(rcvrs') /\ x \in RSlots /\ x \notin ToSet(rcvrs.used)
        /\ ToSet(rcvrs'.used) = ToSet(rcvrs.used) \cup {x}
    <3>1. rcvrs \in Pool(RSlots) /\ Sound(rcvrs)
      BY <1>0 DEF RcvrsInv
    <3>2. rcvrs.used \in Seq(RSlots) /\ Len(rcvrs.used) + 1 \in 1 .. Len(rcvrs.used) + 1
      BY <3>1 DEF Pool
    <3>3. /\ PushBack(rcvrs) \in Pool(RSlots) /\ Sound(PushBack(rcvrs))
          /\ x \in RSlots /\ x \notin UsedSlots(rcvrs)
          /\ UsedSlots(PushBack(rcvrs)) = UsedSlots(rcvrs) \cup {x}
      BY <2>1, <3>1, <3>2, InsertFacts DEF PushBack
    <3> QED
      BY <2>1, <3>3 DEF UsedSlots, Range, ToSet
  <2>3. x # End
    BY <2>2 DEF RSlots, End
  <2>4. slotOf'[r] = x /\ \A q \in Receivers : q # r => slotOf'[q] = slotOf[q]
    BY <1>0, <2>1 DEF Types
  <2> HIDE DEF x
  <2>5. Registered' = Registered \cup {r} /\ r \notin Registered
    BY <1>0, <2>1, <2>3, <2>4 DEF Registered, RcvrsInv
  <2>6. \A q \in Receivers : slotOf'[q] = End <=> rcv'[q].pc \in {"new", "gone"}
    BY <1>0, <2>1, <2>3, <2>4 DEF RcvrsInv
  <2>7. ToSet(rcvrs'.used) = {slotOf'[q] : q \in Registered'}
    BY <1>0, <2>2, <2>4, <2>5 DEF RcvrsInv, Registered
  <2>8. \A p, q \in Registered' : slotOf'[p] = slotOf'[q] => p = q
    <3>1. \A q \in Registered : slotOf[q] # x
      BY <1>0, <2>2 DEF RcvrsInv
    <3> QED
      BY <1>0, <2>4, <2>5, <3>1 DEF RcvrsInv, Registered
  <2> QED
    BY <2>2, <2>6, <2>7, <2>8 DEF RcvrsInv
<1>4. ASSUME NEW r \in Receivers, removeReceiver(r) PROVE RcvrsInv'
  <2> DEFINE id == slotOf[r]
  <2>1. /\ r \in Registered /\ id \in ToSet(rcvrs.used) /\ rcvrs' = Erase(rcvrs, id)
        /\ slotOf' = [slotOf EXCEPT ![r] = End] /\ rcv' = [rcv EXCEPT ![r].pc = "gone"]
    BY <1>4, Leaves
  <2>2. rcvrs' \in Pool(RSlots) /\ Sound(rcvrs') /\ ToSet(rcvrs'.used) = ToSet(rcvrs.used) \ {id}
    <3>1. rcvrs \in Pool(RSlots) /\ Sound(rcvrs) /\ id \in UsedSlots(rcvrs)
      BY <1>0, <2>1 DEF RcvrsInv, UsedSlots, Range, ToSet
    <3>2. /\ Erase(rcvrs, id) \in Pool(RSlots) /\ Sound(Erase(rcvrs, id))
          /\ UsedSlots(Erase(rcvrs, id)) = UsedSlots(rcvrs) \ {id}
      BY <3>1, EraseFacts
    <3> QED
      BY <2>1, <3>2 DEF UsedSlots, Range, ToSet
  <2>3. slotOf'[r] = End /\ \A q \in Receivers : q # r => slotOf'[q] = slotOf[q]
    BY <1>0, <2>1 DEF Types
  <2>4. rcv'[r].pc = "gone" /\ \A q \in Receivers : q # r => rcv'[q].pc = rcv[q].pc
    BY <1>0, <2>1 DEF Types, RcvState
  <2>5. Registered' = Registered \ {r}
    BY <2>3 DEF Registered
  <2>6. \A q \in Receivers : slotOf'[q] = End <=> rcv'[q].pc \in {"new", "gone"}
    BY <1>0, <2>3, <2>4 DEF RcvrsInv
  <2>7. ToSet(rcvrs'.used) = {slotOf'[q] : q \in Registered'}
    <3>1. \A q \in Registered : q # r => slotOf[q] # id /\ slotOf'[q] = slotOf[q]
      BY <1>0, <2>1, <2>3 DEF RcvrsInv, Registered
    <3> HIDE DEF id
    <3>2. {slotOf[q] : q \in Registered} \ {id} = {slotOf[q] : q \in Registered \ {r}}
      BY <3>1 DEF id
    <3> QED
      BY <1>0, <2>2, <2>5, <3>1, <3>2 DEF RcvrsInv
  <2>8. \A p, q \in Registered' : slotOf'[p] = slotOf'[q] => p = q
    BY <1>0, <2>3, <2>5 DEF RcvrsInv, Registered
  <2> QED
    BY <2>2, <2>6, <2>7, <2>8 DEF RcvrsInv
<1> QED
  BY <1>1, <1>2, <1>3, <1>4, StepCases DEF Sends, ReleaseOwn, Elsewhere, Membership

LEMMA InOrderTrans ==
  ASSUME NEW u, NEW v, NEW i \in 1 .. Len(u), Len(u) \in Nat, Without(u, i, v)
  PROVE  InOrderOf(u, v)
<1> SUFFICES ASSUME NEW a \in 1 .. Len(v), NEW b \in 1 .. Len(v), a < b
             PROVE  \E j, k \in 1 .. Len(u) : j < k /\ v[a] = u[j] /\ v[b] = u[k]
  BY DEF InOrderOf
<1> DEFINE j == IF a < i THEN a ELSE a + 1
           k == IF b < i THEN b ELSE b + 1
<1>1. Len(v) = Len(u) - 1 /\ \A t \in 1 .. Len(u) - 1 : v[t] = IF t < i THEN u[t] ELSE u[t + 1]
  BY DEF Without
<1>2. j \in 1 .. Len(u) /\ k \in 1 .. Len(u) /\ j < k
  BY <1>1
<1>3. v[a] = u[j] /\ v[b] = u[k]
  BY <1>1
<1> HIDE DEF j, k
<1> QED
  BY <1>2, <1>3

\* Receivers take messages out and change flags; the rest they leave.
LEMMA Trims ==
  ASSUME IInv, NEW r \in Receivers, Reading(r) \/ Membership(r)
  PROVE  /\ Queued' \subseteq Queued /\ InOrderOf(U, U')
         /\ \A i \in Slots : entries'[i].sn = entries[i].sn /\ entries'[i].msg = entries[i].msg
         /\ \A i \in Slots : i \notin Queued => entries'[i] = entries[i]
<1>0. Types /\ Linked /\ entries \in [Slots -> Entry] /\ Len(U) \in Nat
  BY LinkedFacts DEF IInv, Types
<1>1. ASSUME mq' = mq PROVE Queued' \subseteq Queued /\ InOrderOf(U, U')
  <2>1. U' = U /\ Queued' = Queued
    BY <1>1, LinkedSame
  <2> QED
    BY <2>1 DEF InOrderOf
<1>2. ASSUME entries' = entries
      PROVE  /\ \A i \in Slots : entries'[i].sn = entries[i].sn /\ entries'[i].msg = entries[i].msg
             /\ \A i \in Slots : i \notin Queued => entries'[i] = entries[i]
  BY <1>2
<1>3. CASE markRead(r)
  <2> DEFINE c == rcv[r].curit
  <2>1. \/ UNCHANGED <<mq, entries>>
        \/ /\ c \in Queued /\ c \in Slots
           /\ entries' = [entries EXCEPT ![c].readFlags = @ \cup {slotOf[r]}, ![c].numRead = @ + 1]
           /\ mq' = mq \/ mq' = LB!erase(mq, c)
    BY <1>3, Marks
  <2> HIDE DEF c
  <2>2. CASE UNCHANGED <<mq, entries>>
    BY <1>1, <1>2, <2>2
  <2>3. CASE /\ c \in Queued /\ c \in Slots
             /\ entries' = [entries EXCEPT ![c].readFlags = @ \cup {slotOf[r]}, ![c].numRead = @ + 1]
             /\ mq' = mq \/ mq' = LB!erase(mq, c)
    <3>1. /\ \A i \in Slots : entries'[i].sn = entries[i].sn /\ entries'[i].msg = entries[i].msg
          /\ \A i \in Slots : i \notin Queued => entries'[i] = entries[i]
      BY <1>0, <2>3 DEF Entry
    <3>2. ASSUME mq' = LB!erase(mq, c) PROVE Queued' \subseteq Queued /\ InOrderOf(U, U')
      <4>1. Queued' = Queued \ {c} /\ \E i \in 1 .. Len(U) : Without(U, i, U')
        BY <1>0, <2>3, <3>2, ListErases
      <4> QED
        BY <1>0, <4>1, InOrderTrans
    <3> QED
      BY <1>1, <2>3, <3>1, <3>2
  <2> QED
    BY <2>1, <2>2, <2>3
<1>4. CASE removeReceiver(r)
  <2>1. /\ entries' = [i \in Slots |-> IF i \in Queued THEN Forget(entries[i], slotOf[r]) ELSE entries[i]]
        /\ mq' = EraseSlots(Done(r))
    BY <1>4, Leaves
  <2>2. Done(r) \in SUBSET Queued
    BY DEF Done
  <2>3. Queued' = Queued \ Done(r) /\ Pruned(U, F, Done(r), Len(U), mq', U', F')
    BY <1>0, <2>1, <2>2, ListPrunes
  <2>4. InOrderOf(U, U')
    BY <2>3, Zenon DEF Pruned
  <2>5. \A i \in Slots : entries'[i].sn = entries[i].sn /\ entries'[i].msg = entries[i].msg
    BY <1>0, <2>1 DEF Forget, Entry
  <2> QED
    BY <2>1, <2>3, <2>4, <2>5
<1>5. CASE ~markRead(r) /\ ~removeReceiver(r)
  <2>1. mq' = mq /\ entries' = entries
    BY <1>5 DEF Reading, Membership, waitNextMessage, peekNextMessage, readNumber, advance, release,
                addReceiver, start, finish, joined, queueVars
  <2> QED
    BY <1>1, <1>2, <2>1
<1> QED
  BY <1>3, <1>4, <1>5

\* A message is put in a slot that was not in the queue, or the oldest one's.
LEMMA Puts ==
  ASSUME IInv, NEW s \in Senders, NEW m \in Regions, WithRoom(s, m) \/ InPlace(s, m)
  PROVE  \E x \in Slots :
           /\ \A i \in Slots : i # x => entries'[i] = entries[i]
           /\ entries'[x] = [msg |-> m, sn |-> numMessages, readFlags |-> {}, numRead |-> 0]
           /\ numMessages' = numMessages + 1 /\ posted' = Append(posted, m) /\ Queued' = Queued \cup {x}
           /\ Len(U') \in Nat \ {0} /\ U'[Len(U')] = x
           /\ \A a, b \in 1 .. Len(U') - 1 :
                a < b => \E j, k \in 1 .. Len(U) : j < k /\ U'[a] = U[j] /\ U'[b] = U[k]
           /\ \A a \in 1 .. Len(U') - 1 : U'[a] \in Queued /\ U'[a] # x
<1>0. Linked /\ entries \in [Slots -> Entry] /\ Linked'
  <2>1. Linked'
    BY ListPosts, ListDrops DEF IInv, WithRoom, InPlace
  <2> QED
    BY <2>1 DEF IInv, Types
<1>1. /\ U \in Seq(Slots) /\ Len(U) \in Nat /\ Queued = {U[k] : k \in 1 .. Len(U)} /\ Injective(U)
      /\ \A k \in 1 .. Len(U) : U[k] \in Slots /\ U[k] \in Queued
  BY <1>0, LinkedFacts
<1>2. CASE WithRoom(s, m)
  <2> DEFINE x == F[1]
  <2>1. x \in Slots /\ x \notin Queued /\ Grown(U, x, U') /\ Queued' = Queued \cup {x}
    BY <1>0, <1>2, ListPosts DEF WithRoom
  <2>2. /\ entries' = [entries EXCEPT ![x] = [msg |-> m, sn |-> numMessages, readFlags |-> {}, numRead |-> 0]]
        /\ numMessages' = numMessages + 1 /\ posted' = Append(posted, m)
    BY <1>2 DEF WithRoom, Posted
  <2> HIDE DEF x
  <2>3. /\ Len(U') = Len(U) + 1 /\ U'[Len(U')] = x /\ Len(U') - 1 = Len(U)
        /\ \A k \in 1 .. Len(U) : U'[k] = U[k]
    BY <1>1, <2>1 DEF Grown
  <2>4. \A a, b \in 1 .. Len(U') - 1 :
           a < b => \E j, k \in 1 .. Len(U) : j < k /\ U'[a] = U[j] /\ U'[b] = U[k]
    BY <2>3
  <2>5. \A a \in 1 .. Len(U') - 1 : U'[a] \in Queued /\ U'[a] # x
    BY <1>1, <2>1, <2>3
  <2>6. Len(U') \in Nat \ {0}
    BY <1>1, <2>3
  <2>7. \A i \in Slots : i # x => entries'[i] = entries[i]
    BY <1>0, <2>2
  <2>8. entries'[x] = [msg |-> m, sn |-> numMessages, readFlags |-> {}, numRead |-> 0]
    BY <1>0, <2>1, <2>2
  <2> QED
    BY <2>1, <2>2, <2>3, <2>4, <2>5, <2>6, <2>7, <2>8
<1>3. CASE InPlace(s, m)
  <2> DEFINE x == U[1]
  <2>1. x \in Queued /\ Rotated(U, U') /\ Queued' = Queued
    BY <1>0, <1>3, ListDrops DEF InPlace
  <2>2. /\ entries' = [entries EXCEPT ![x] = [msg |-> m, sn |-> numMessages, readFlags |-> {}, numRead |-> 0]]
        /\ numMessages' = numMessages + 1 /\ posted' = Append(posted, m)
    BY <1>3 DEF InPlace, Posted
  <2>0. x \in Slots /\ Len(U) \in Nat \ {0} /\ 1 \in 1 .. Len(U)
    BY <1>0, <1>1, <2>1, LinkedFacts
  <2>3. /\ Len(U') = Len(U) /\ U'[Len(U')] = x
        /\ \A k \in 1 .. Len(U) - 1 : U'[k] = U[k + 1]
    BY <2>1 DEF Rotated
  <2>4. \A a, b \in 1 .. Len(U') - 1 :
           a < b => \E j, k \in 1 .. Len(U) : j < k /\ U'[a] = U[j] /\ U'[b] = U[k]
    <3> SUFFICES ASSUME NEW a \in 1 .. Len(U) - 1, NEW b \in 1 .. Len(U) - 1, a < b
                 PROVE  \E j, k \in 1 .. Len(U) : j < k /\ U'[a] = U[j] /\ U'[b] = U[k]
      BY <2>3
    <3>1. a + 1 \in 1 .. Len(U) /\ b + 1 \in 1 .. Len(U) /\ a + 1 < b + 1
      BY <2>0
    <3> QED
      BY <2>3, <3>1
  <2>5. \A a \in 1 .. Len(U') - 1 : U'[a] \in Queued /\ U'[a] # x
    <3> SUFFICES ASSUME NEW a \in 1 .. Len(U) - 1 PROVE U[a + 1] \in Queued /\ U[a + 1] # x
      BY <2>3
    <3>1. a + 1 \in 1 .. Len(U) /\ a + 1 # 1
      BY <2>0
    <3> QED
      BY <1>1, <2>0, <3>1 DEF Injective
  <2>7. \A i \in Slots : i # x => entries'[i] = entries[i]
    BY <1>0, <2>2
  <2>8. entries'[x] = [msg |-> m, sn |-> numMessages, readFlags |-> {}, numRead |-> 0]
    BY <1>0, <2>0, <2>2
  <2>9. Queued' = Queued \cup {x} /\ Len(U') \in Nat \ {0}
    BY <2>0, <2>1, <2>3
  <2> HIDE DEF x
  <2> QED
    BY <2>0, <2>2, <2>3, <2>4, <2>5, <2>7, <2>8, <2>9
<1> QED
  BY <1>2, <1>3

LEMMA NoMembers ==
  ASSUME NEW S, NEW w \in Seq(S)
  PROVE  w = << >> <=> ToSet(w) = {}
<1>1. Len(w) \in Nat /\ ToSet(w) = {w[k] : k \in 1 .. Len(w)} /\ (w = << >> <=> Len(w) = 0)
  BY Members, EmptySeq
<1>2. Len(w) # 0 => 1 \in 1 .. Len(w)
  BY <1>1
<1>3. Len(w) = 0 => 1 .. Len(w) = {}
  BY <1>1
<1> QED
  BY <1>1, <1>2, <1>3

LEMMA SentKept ==
  ASSUME IInv, [Next]_vars
  PROVE  SentInv'
<1>0. SentInv /\ Types /\ Linked /\ FlagsInv
  BY DEF IInv
<1>1. CASE mq' = mq /\ entries' = entries /\ numMessages' = numMessages /\ posted' = posted
  <2>1. Queued' = Queued
    BY <1>1, LinkedSame
  <2> QED
    BY <1>0, <1>1, <2>1 DEF SentInv, Sn
<1>2. CASE Sends
  <2>1. PICK s \in Senders, m \in Regions : Quiet(s, m) \/ WithRoom(s, m) \/ InPlace(s, m)
    BY <1>2 DEF Sends
  <2>2. CASE Quiet(s, m)
    BY <1>1, <2>2 DEF Quiet
  <2>3. CASE WithRoom(s, m) \/ InPlace(s, m)
    <3>1. PICK x \in Slots :
            /\ \A i \in Slots : i # x => entries'[i] = entries[i]
            /\ entries'[x] = [msg |-> m, sn |-> numMessages, readFlags |-> {}, numRead |-> 0]
            /\ numMessages' = numMessages + 1 /\ posted' = Append(posted, m) /\ Queued' = Queued \cup {x}
      BY <2>3, Puts
    <3>2. numMessages \in Nat /\ posted \in Seq(Regions) /\ Len(posted) = numMessages
      BY <1>0 DEF Types
    <3>3. posted'[numMessages + 1] = m /\ \A k \in 1 .. Len(posted) : posted'[k] = posted[k]
      BY <3>1, <3>2
    <3> SUFFICES ASSUME NEW i \in Slots, i \in Queued' \/ entries'[i].readFlags # {}
                 PROVE  entries'[i].sn < numMessages' /\ posted'[entries'[i].sn + 1] = entries'[i].msg
      BY DEF SentInv, Sn
    <3>4. CASE i = x
      BY <3>1, <3>2, <3>3, <3>4
    <3>5. CASE i # x
      <4>1. i \in Queued \/ entries[i].readFlags # {}
        BY <3>1, <3>5
      <4>2. /\ Sn(i) \in Nat /\ Sn(i) < numMessages /\ Sn(i) + 1 \in 1 .. Len(posted)
            /\ posted[Sn(i) + 1] = entries[i].msg
        BY <1>0, <4>1, QueuedPosted
      <4> QED
        BY <3>1, <3>2, <3>3, <3>5, <4>2 DEF Sn
    <3> QED
      BY <3>4, <3>5
  <2> QED
    BY <2>1, <2>2, <2>3
<1>3. ASSUME NEW s \in Senders, ReleaseOwn(s) PROVE SentInv'
  BY <1>1, <1>3 DEF ReleaseOwn
<1>4. ASSUME NEW r \in Receivers, Reading(r) \/ Membership(r) PROVE SentInv'
  <2>1. /\ Queued' \subseteq Queued
        /\ \A i \in Slots : entries'[i].sn = entries[i].sn /\ entries'[i].msg = entries[i].msg
        /\ \A i \in Slots : i \notin Queued => entries'[i] = entries[i]
    BY <1>4, Trims
  <2>2. numMessages' = numMessages /\ posted' = posted
    BY <1>4, SendersAlone
  <2> QED
    BY <1>0, <2>1, <2>2 DEF SentInv, Sn
<1> QED
  BY <1>1, <1>2, <1>3, <1>4, StepCases DEF Elsewhere

LEMMA AscendingKept ==
  ASSUME IInv, [Next]_vars
  PROVE  Ascending'
<1>0. SentInv /\ Types /\ Linked /\ Ascending
  BY DEF IInv
<1>9. Linked'
  BY LinkedKept
<1>8. \A k \in 1 .. Len(U) : U[k] \in Slots /\ U[k] \in Queued /\ Sn(U[k]) \in Nat /\ Sn(U[k]) < numMessages
  <2>1. \A k \in 1 .. Len(U) : U[k] \in Slots /\ U[k] \in Queued
    BY <1>0, LinkedFacts
  <2> QED
    BY <1>0, <2>1, QueuedPosted
<1>1. CASE mq' = mq /\ entries' = entries
  <2>1. U' = U
    BY <1>1, LinkedSame
  <2> QED
    BY <1>0, <1>1, <2>1 DEF Ascending, Sn
<1>2. CASE Sends
  <2>1. PICK s \in Senders, m \in Regions : Quiet(s, m) \/ WithRoom(s, m) \/ InPlace(s, m)
    BY <1>2 DEF Sends
  <2>2. CASE Quiet(s, m)
    BY <1>1, <2>2 DEF Quiet
  <2>3. CASE WithRoom(s, m) \/ InPlace(s, m)
    <3>1. PICK x \in Slots :
            /\ \A i \in Slots : i # x => entries'[i] = entries[i]
            /\ entries'[x] = [msg |-> m, sn |-> numMessages, readFlags |-> {}, numRead |-> 0]
            /\ Len(U') \in Nat \ {0} /\ U'[Len(U')] = x
            /\ \A a, b \in 1 .. Len(U') - 1 :
                 a < b => \E j, k \in 1 .. Len(U) : j < k /\ U'[a] = U[j] /\ U'[b] = U[k]
            /\ \A a \in 1 .. Len(U') - 1 : U'[a] \in Queued /\ U'[a] # x
      BY <2>3, Puts
    <3> SUFFICES ASSUME NEW a \in 1 .. Len(U'), NEW b \in 1 .. Len(U'), a < b
                 PROVE  entries'[U'[a]].sn < entries'[U'[b]].sn
      BY DEF Ascending, Sn
    <3>2. a \in 1 .. Len(U') - 1 /\ (b = Len(U') \/ b \in 1 .. Len(U') - 1)
      BY <3>1
    <3>3. U'[a] \in Queued /\ U'[a] # x /\ U'[a] \in Slots
      BY <1>0, <3>1, <3>2, LinkedFacts
    <3>4. entries'[U'[a]] = entries[U'[a]]
      BY <3>1, <3>3
    <3>5. CASE b = Len(U')
      <4>1. entries'[U'[b]].sn = numMessages
        BY <3>1, <3>5
      <4>2. Sn(U'[a]) < numMessages
        BY <1>0, <3>3, QueuedPosted
      <4> QED
        BY <3>4, <4>1, <4>2 DEF Sn
    <3>6. CASE b \in 1 .. Len(U') - 1
      <4>1. U'[b] \in Queued /\ U'[b] # x /\ U'[b] \in Slots
        BY <1>0, <3>1, <3>6, LinkedFacts
      <4>2. entries'[U'[b]] = entries[U'[b]]
        BY <3>1, <4>1
      <4>3. PICK j \in 1 .. Len(U), k \in 1 .. Len(U) : j < k /\ U'[a] = U[j] /\ U'[b] = U[k]
        BY <3>1, <3>2, <3>6
      <4>4. Sn(U[j]) < Sn(U[k])
        BY <1>0, <4>3 DEF Ascending
      <4> QED
        BY <3>4, <4>2, <4>3, <4>4 DEF Sn
    <3> QED
      BY <3>2, <3>5, <3>6
  <2> QED
    BY <2>1, <2>2, <2>3
<1>3. ASSUME NEW s \in Senders, ReleaseOwn(s) PROVE Ascending'
  BY <1>1, <1>3 DEF ReleaseOwn
<1>4. ASSUME NEW r \in Receivers, Reading(r) \/ Membership(r) PROVE Ascending'
  <2>1. InOrderOf(U, U') /\ \A i \in Slots : entries'[i].sn = entries[i].sn
    BY <1>4, Trims
  <2> SUFFICES ASSUME NEW a \in 1 .. Len(U'), NEW b \in 1 .. Len(U'), a < b
               PROVE  entries'[U'[a]].sn < entries'[U'[b]].sn
    BY DEF Ascending, Sn
  <2>2. PICK j \in 1 .. Len(U), k \in 1 .. Len(U) : j < k /\ U'[a] = U[j] /\ U'[b] = U[k]
    BY <2>1 DEF InOrderOf
  <2>3. Sn(U[j]) < Sn(U[k])
    BY <1>0, <2>2 DEF Ascending
  <2> QED
    BY <1>8, <2>1, <2>2, <2>3 DEF Sn
<1> QED
  BY <1>1, <1>2, <1>3, <1>4, StepCases DEF Elsewhere

LEMMA FlagsKept ==
  ASSUME IInv, [Next]_vars
  PROVE  FlagsInv'
<1>0. FlagsInv /\ RcvrsInv /\ Types /\ Linked /\ entries \in [Slots -> Entry]
  BY DEF IInv, Types
<1> DEFINE us == ToSet(rcvrs.used)
           fl(i) == entries[i].readFlags
           Good(e) == /\ e.readFlags \subseteq us
                      /\ rcvrs.used # << >> => e.readFlags # us
                      /\ e.numRead = Cardinality(e.readFlags)
           Fine(e) == /\ e.readFlags \subseteq us'
                      /\ us' # {} => e.readFlags # us'
                      /\ e.numRead = Cardinality(e.readFlags)
<1>9. ASSUME \A i \in Queued' : Fine(entries'[i]) PROVE FlagsInv'
  <2>1. rcvrs'.used = << >> <=> us' = {}
    <3> DEFINE u == rcvrs.used
    <3>1. u' \in Seq(RSlots)
      BY RcvrsKept DEF RcvrsInv, Pool
    <3> HIDE DEF u
    <3>4. u' = << >> <=> ToSet(u') = {}
      BY <3>1, NoMembers
    <3>5. ToSet(u)' = ToSet(u')
      BY DEF ToSet
    <3> QED
      BY <3>4, <3>5 DEF u
  <2> QED
    BY <1>9, <2>1 DEF FlagsInv
<1>8. \A i \in Queued : Good(entries[i])
  BY <1>0 DEF FlagsInv
<1>7. rcvrs.used = << >> <=> us = {}
  BY <1>0, ListedReceivers
<1>1. CASE mq' = mq /\ entries' = entries /\ rcvrs' = rcvrs
  <2>1. Queued' = Queued
    BY <1>1, LinkedSame
  <2> QED
    BY <1>0, <1>1, <2>1 DEF FlagsInv
<1>2. CASE Sends
  <2>1. PICK s \in Senders, m \in Regions : Quiet(s, m) \/ WithRoom(s, m) \/ InPlace(s, m)
    BY <1>2 DEF Sends
  <2>0. rcvrs' = rcvrs
    BY <1>2 DEF Sends
  <2>2. CASE Quiet(s, m)
    BY <1>1, <2>0, <2>2 DEF Quiet
  <2>3. CASE WithRoom(s, m) \/ InPlace(s, m)
    <3>1. PICK x \in Slots :
            /\ \A i \in Slots : i # x => entries'[i] = entries[i]
            /\ entries'[x] = [msg |-> m, sn |-> numMessages, readFlags |-> {}, numRead |-> 0]
            /\ Queued' = Queued \cup {x}
      BY <2>3, Puts
    <3>2. Fine(entries'[x])
      BY <2>0, <3>1, FS_EmptySet
    <3>3. \A i \in Queued : i # x => Fine(entries'[i])
      <4>1. Queued \subseteq Slots
        BY <1>0, LinkedFacts
      <4> QED
        BY <1>7, <1>8, <2>0, <3>1, <4>1
    <3> HIDE DEF Fine
    <3> QED
      BY <1>9, <3>1, <3>2, <3>3
  <2> QED
    BY <2>1, <2>2, <2>3
<1>3. ASSUME NEW s \in Senders, ReleaseOwn(s) PROVE FlagsInv'
  BY <1>1, <1>3 DEF ReleaseOwn
<1>4. ASSUME NEW r \in Receivers, markRead(r) PROVE FlagsInv'
  <2> DEFINE c == rcv[r].curit
             id == slotOf[r]
  <2>0. rcvrs' = rcvrs
    BY <1>4 DEF markRead
  <2>1. /\ c \in Slots /\ id \in us
        /\ \/ UNCHANGED <<mq, entries>>
           \/ /\ c \in Queued /\ id \notin fl(c)
              /\ entries' = [entries EXCEPT ![c].readFlags = @ \cup {id}, ![c].numRead = @ + 1]
              /\ \/ mq' = LB!erase(mq, c)
                 \/ mq' = mq /\ fl(c) \cup {id} # us
    BY <1>4, Marks DEF Read
  <2> HIDE DEF c, id
  <2>2. CASE UNCHANGED <<mq, entries>>
    BY <1>1, <2>0, <2>2
  <2>3. CASE /\ c \in Queued /\ id \notin fl(c)
             /\ entries' = [entries EXCEPT ![c].readFlags = @ \cup {id}, ![c].numRead = @ + 1]
             /\ \/ mq' = LB!erase(mq, c)
                \/ mq' = mq /\ fl(c) \cup {id} # us
    <3>1. \A i \in Slots : i # c => entries'[i] = entries[i]
      BY <1>0, <2>1, <2>3
    <3>2. entries'[c].readFlags = fl(c) \cup {id} /\ entries'[c].numRead = entries[c].numRead + 1
      BY <1>0, <2>1, <2>3 DEF Entry
    <3>3. Cardinality(fl(c) \cup {id}) = entries[c].numRead + 1
      BY <1>0, <2>1, <2>3, LastOne
    <3>4. Queued' \subseteq Queued /\ (c \in Queued' => fl(c) \cup {id} # us)
      <4>1. CASE mq' = LB!erase(mq, c)
        BY <1>0, <2>3, <4>1, ListErases
      <4>2. CASE mq' = mq /\ fl(c) \cup {id} # us
        BY <4>2, LinkedSame
      <4> QED
        BY <2>3, <4>1, <4>2
    <3>5. \A i \in Queued' : i # c => Fine(entries'[i])
      <4>1. Queued \subseteq Slots
        BY <1>0, LinkedFacts
      <4> QED
        BY <1>7, <1>8, <2>0, <3>1, <3>4, <4>1
    <3>6. c \in Queued' => Fine(entries'[c])
      <4>1. entries'[c].readFlags \subseteq us
        BY <1>8, <2>1, <2>3, <3>2
      <4> HIDE DEF us
      <4>2. us' = us
        BY <2>0 DEF us
      <4> QED
        BY <3>2, <3>3, <3>4, <4>1, <4>2
    <3> HIDE DEF Fine
    <3> QED
      BY <1>9, <3>5, <3>6
  <2> QED
    BY <2>1, <2>2, <2>3
<1>5. ASSUME NEW r \in Receivers, Reading(r), ~markRead(r) PROVE FlagsInv'
  BY <1>1, <1>5 DEF Reading, waitNextMessage, peekNextMessage, readNumber, advance, release, queueVars
<1>6. ASSUME NEW r \in Receivers, Membership(r) PROVE FlagsInv'
  <2>1. CASE start(r) \/ finish(r) \/ joined(r)
    BY <1>1, <2>1 DEF start, finish, joined, queueVars
  <2>2. CASE addReceiver(r)
    <3>1. mq' = mq /\ entries' = entries
      BY <2>2 DEF addReceiver, queueVars
    <3>2. Queued' = Queued
      BY <3>1, LinkedSame
    <3>3. \E x : x \notin us /\ us' = us \cup {x}
      <4>1. rcvrs \in Pool(RSlots) /\ Sound(rcvrs) /\ ~IsFull(rcvrs) /\ rcvrs' = PushBack(rcvrs)
        BY <1>0, <2>2 DEF RcvrsInv, addReceiver
      <4>2. rcvrs.used \in Seq(RSlots) /\ Len(rcvrs.used) + 1 \in 1 .. Len(rcvrs.used) + 1
        BY <4>1 DEF Pool
      <4>3. /\ NextSlot(rcvrs) \notin UsedSlots(rcvrs)
            /\ UsedSlots(PushBack(rcvrs)) = UsedSlots(rcvrs) \cup {NextSlot(rcvrs)}
        BY <4>1, <4>2, InsertFacts DEF PushBack
      <4> QED
        BY <4>1, <4>3 DEF UsedSlots, Range, ToSet
    <3>4. \A i \in Queued' : Fine(entries'[i])
      BY <1>8, <3>1, <3>2, <3>3
    <3> HIDE DEF Fine
    <3> QED
      BY <1>9, <3>4
  <2>3. CASE removeReceiver(r)
    <3> DEFINE id == slotOf[r]
    <3>1. /\ id \in us /\ rcvrs' = Erase(rcvrs, id) /\ mq' = EraseSlots(Done(r))
          /\ entries' = [i \in Slots |-> IF i \in Queued THEN Forget(entries[i], id) ELSE entries[i]]
      BY <2>3, Leaves
    <3>2. us' = us \ {id}
      <4>1. rcvrs \in Pool(RSlots) /\ Sound(rcvrs) /\ id \in UsedSlots(rcvrs)
        BY <1>0, <3>1 DEF RcvrsInv, UsedSlots, Range, ToSet
      <4>2. UsedSlots(Erase(rcvrs, id)) = UsedSlots(rcvrs) \ {id}
        BY <4>1, EraseFacts
      <4> QED
        BY <3>1, <4>2 DEF UsedSlots, Range, ToSet
    <3>3. Queued' = Queued \ Done(r)
      <4>1. Done(r) \in SUBSET Queued
        BY DEF Done
      <4> QED
        BY <1>0, <3>1, <4>1, ListPrunes
    <3> SUFFICES ASSUME NEW i \in Queued' PROVE Fine(entries'[i])
      <4> HIDE DEF Fine
      <4> QED
        BY <1>9
    <3>4. i \in Queued /\ i \in Slots /\ entries[i] \in Entry /\ Good(entries[i])
      BY <1>0, <1>8, <3>3, LinkedFacts
    <3>5. entries'[i] = Forget(entries[i], id)
      BY <3>1, <3>4
    <3>6. IsFiniteSet(fl(i))
      <4>1. fl(i) \in SUBSET us
        BY <3>4
      <4> HIDE DEF us, fl
      <4>2. IsFiniteSet(us)
        BY <1>0, ListedReceivers DEF us
      <4> QED
        BY <4>1, <4>2, FS_Subset
    <3> HIDE DEF id
    <3>7. CASE id \in fl(i)
      <4>1. entries'[i].readFlags = fl(i) \ {id} /\ entries'[i].numRead = entries[i].numRead - 1
        BY <3>4, <3>5, <3>7 DEF Forget, Entry
      <4>2. Cardinality(fl(i) \ {id}) = Cardinality(fl(i)) - 1
        <5> DEFINE A == fl(i)
        <5>1. IsFiniteSet(A) /\ id \in A
          BY <3>6, <3>7
        <5> HIDE DEF A
        <5>2. Cardinality(A \ {id}) = Cardinality(A) - 1
          BY <5>1, FS_RemoveElement
        <5> QED
          BY <5>2 DEF A
      <4>3. fl(i) # us
        BY <1>7, <3>1, <3>4
      <4>4. fl(i) \ {id} \subseteq us' /\ fl(i) \ {id} # us'
        BY <3>1, <3>2, <3>4, <3>7, <4>3
      <4> QED
        BY <3>4, <4>1, <4>2, <4>4
    <3>8. CASE id \notin fl(i)
      <4>1. entries'[i] = entries[i]
        BY <3>5, <3>8 DEF Forget
      <4>2. fl(i) \cup {id} # us
        BY <3>3, <3>4, <3>8 DEF Done, Read, id
      <4>3. fl(i) \subseteq us' /\ fl(i) # us'
        BY <3>1, <3>2, <3>4, <3>8, <4>2
      <4> QED
        BY <3>4, <4>1, <4>3
    <3> QED
      BY <3>7, <3>8
  <2> QED
    BY <1>6, <2>1, <2>2, <2>3 DEF Membership
<1> QED
  BY <1>1, <1>2, <1>3, <1>4, <1>5, <1>6, StepCases DEF Elsewhere, Sends

\* The list of free slots changes at one end only.
LEMMA FreeFacts ==
  ASSUME Linked
  PROVE  /\ Len(F) \in Nat /\ Injective(F) /\ \A k \in 1 .. Len(F) : F[k] \in Slots /\ F[k] # End /\ F[k] \notin Queued
         /\ \A x \in Slots : x \notin Queued => \E k \in 1 .. Len(F) : x = F[k]
<1>1. Layout(mq, U, F)
  BY ShapeFacts DEF Linked
<1>2. /\ Len(F) \in Nat /\ Injective(F) /\ \A k \in 1 .. Len(F) : F[k] \in Slots /\ F[k] # End
  BY <1>1, Zenon DEF Layout
<1>3. /\ \A k \in 1 .. Len(F) : F[k] \notin Queued
      /\ \A x \in Slots : x \notin Queued => \E k \in 1 .. Len(F) : x = F[k]
  BY LinkedFacts
<1> QED
  BY <1>2, <1>3

\* The slot after position c: a free one behind it, or none of the free ones.
LEMMA NextSlotOf ==
  ASSUME Linked, NEW c \in Slots
  PROVE  LET d == LB!next(mq, c)
         IN  \/ \A k \in 1 .. Len(F) : F[k] # d
             \/ \E k \in 1 .. Len(F) - 1 : c = F[k] /\ d = F[k + 1]
<1> DEFINE d == LB!next(mq, c)
<1>1. d = mq.next[c]
  BY Sizes, SameList DEF LB!next, LB!Slots, Slots, End, LB!End
<1>2. /\ Len(F) \in Nat /\ \A k \in 1 .. Len(F) : F[k] \in Slots /\ F[k] # End /\ F[k] \notin Queued
      /\ \A x \in Slots : x \notin Queued => \E k \in 1 .. Len(F) : x = F[k]
  BY FreeFacts
<1>3. Layout(mq, U, F) /\ (F # << >> => mq.next[F[Len(F)]] \notin ToSet(F))
  BY ShapeFacts DEF Linked, Shape
<1>4. /\ \A k \in 1 .. Len(U) : mq.next[U[k]] = After(U, k + 1)
      /\ \A k \in 1 .. Len(F) - 1 : mq.next[F[k]] = F[k + 1]
      /\ ToSet(F) = {F[k] : k \in 1 .. Len(F)}
  BY <1>3, Zenon DEF Layout
<1> HIDE DEF d
<1>5. CASE c \in Queued
  <2>1. PICK k \in 1 .. Len(U) : c = U[k]
    BY <1>5, LinkedFacts
  <2>2. d = End \/ d \in Queued
    <3>1. d = After(U, k + 1)
      BY <1>1, <1>4, <2>1
    <3> QED
      BY <3>1, LinkedFacts DEF After
  <2> QED
    BY <1>2, <2>2 DEF d
<1>6. CASE c \notin Queued
  <2>1. PICK k \in 1 .. Len(F) : c = F[k]
    BY <1>2, <1>6
  <2>2. CASE k = Len(F)
    <3>1. F # << >>
      <4>1. Len(F) # 0
        BY <1>2, <2>1
      <4> QED
        BY <4>1, EmptySeq
    <3> QED
      BY <1>1, <1>3, <1>4, <2>1, <2>2, <3>1 DEF d
  <2>3. CASE k # Len(F)
    <3>1. k \in 1 .. Len(F) - 1
      BY <1>2, <2>3
    <3> QED
      BY <1>1, <1>4, <2>1, <3>1 DEF d
  <2> QED
    BY <2>2, <2>3
<1> QED
  BY <1>5, <1>6 DEF d

LEMMA SettledKept ==
  ASSUME IInv, [Next]_vars, NEW q \in Registered'
  PROVE  Settled(q)'
<1>0. Types /\ RcvrsInv /\ PlaceInv /\ Linked /\ FlagsInv /\ entries \in [Slots -> Entry]
  BY DEF IInv, Types
<1>00. /\ Len(F) \in Nat /\ Injective(F) /\ \A k \in 1 .. Len(F) : F[k] \in Slots /\ F[k] # End /\ F[k] \notin Queued
  BY <1>0, FreeFacts
<1> DEFINE c == rcv'[q].curit
           Mark(i) == slotOf'[q] \in entries'[i].readFlags
<1>01. ASSUME \A j, k \in 1 .. Len(F') : j <= k /\ F'[j] = c => Mark(F'[k]) PROVE Settled(q)'
  BY <1>01 DEF Settled, Read
<1>02. ASSUME q \in Registered
       PROVE  \A j, k \in 1 .. Len(F) : j <= k /\ F[j] = rcv[q].curit => slotOf[q] \in entries[F[k]].readFlags
  BY <1>0, <1>02 DEF PlaceInv, Settled, Read
<1>03. q \in Receivers
  BY DEF Registered
<1> HIDE DEF c
<1>1. ASSUME F' = F, slotOf'[q] = slotOf[q], \A i \in Slots : entries[i].readFlags \subseteq entries'[i].readFlags,
             c = rcv[q].curit
      PROVE  Settled(q)'
  <2>1. q \in Registered
    BY <1>1, <1>03 DEF Registered
  <2> QED
    BY <1>00, <1>01, <1>02, <1>1, <2>1
<1>2. ASSUME mq' = mq, slotOf' = slotOf, entries' = entries, c = rcv[q].curit
      PROVE  Settled(q)'
  <2>1. F' = F
    BY <1>2, LinkedSame
  <2> QED
    BY <1>1, <1>2, <2>1
<1>3. CASE Sends
  <2>1. PICK s \in Senders, m \in Regions : Quiet(s, m) \/ WithRoom(s, m) \/ InPlace(s, m)
    BY <1>3 DEF Sends
  <2>0. slotOf' = slotOf /\ c = rcv[q].curit
    BY <1>3 DEF Sends, c
  <2>2. CASE Quiet(s, m)
    BY <1>2, <2>0, <2>2 DEF Quiet
  <2>3. CASE WithRoom(s, m)
    <3>1. Without(F, 1, F')
      BY <1>0, <2>3, ListPosts DEF WithRoom
    <3>2. Len(F') = Len(F) - 1 /\ \A k \in 1 .. Len(F') : F'[k] = F[k + 1]
      <4>1. \A k \in 1 .. Len(F) - 1 : ~(k < 1)
        OBVIOUS
      <4> QED
        BY <3>1, <4>1 DEF Without
    <3>3. entries' = [entries EXCEPT ![F[1]] = [msg |-> m, sn |-> numMessages, readFlags |-> {}, numRead |-> 0]]
      BY <2>3 DEF WithRoom, Posted
    <3>4. \A k \in 1 .. Len(F') : k + 1 \in 1 .. Len(F) /\ k + 1 # 1 /\ 1 \in 1 .. Len(F)
      BY <1>00, <3>2
    <3>5. \A k \in 1 .. Len(F') : F'[k] \in Slots /\ F'[k] # F[1]
      BY <1>00, <3>2, <3>4 DEF Injective
    <3>6. \A k \in 1 .. Len(F') : entries'[F'[k]] = entries[F'[k]]
      BY <1>0, <3>3, <3>5
    <3>7. q \in Registered
      BY <1>03, <2>0 DEF Registered
    <3>8. ASSUME NEW j \in 1 .. Len(F'), NEW k \in 1 .. Len(F'), j <= k, F'[j] = c PROVE Mark(F'[k])
      <4>1. F[j + 1] = rcv[q].curit /\ j + 1 \in 1 .. Len(F) /\ k + 1 \in 1 .. Len(F) /\ j + 1 <= k + 1
        BY <1>00, <2>0, <3>2, <3>8
      <4>2. slotOf[q] \in entries[F[k + 1]].readFlags
        BY <1>02, <3>7, <4>1
      <4> QED
        BY <2>0, <3>2, <3>6, <4>2
    <3> QED
      BY <1>01, <3>8
  <2>4. CASE InPlace(s, m)
    <3>1. F' = << >>
      BY <1>0, <2>4, ListDrops DEF InPlace
    <3>2. 1 .. Len(F') = {}
      BY <3>1
    <3> QED
      BY <1>01, <3>2
  <2> QED
    BY <2>1, <2>2, <2>3, <2>4
<1>4. ASSUME NEW s \in Senders, ReleaseOwn(s) PROVE Settled(q)'
  BY <1>2, <1>4 DEF ReleaseOwn, c
<1>5. ASSUME NEW r \in Receivers, Reading(r) PROVE Settled(q)'
  <2>0. slotOf' = slotOf
    BY <1>5 DEF Reading, waitNextMessage, peekNextMessage, readNumber, markRead, advance, release
  <2>1. q \in Registered /\ r \in DOMAIN rcv
    BY <1>0, <1>03, <2>0 DEF Registered, Types
  <2>2. q # r => c = rcv[q].curit
    BY <1>0, <1>03, <1>5, OneReceiver DEF c
  <2>3. CASE peekNextMessage(r)
    <3> DEFINE it == findCurrentMessage(r)
    <3>1. mq' = mq /\ entries' = entries /\ rcv'[r].curit = it
      <4>1. /\ mq' = mq /\ entries' = entries
            /\ \/ rcv' = [rcv EXCEPT ![r].curit = it,
                                    ![r].pc = IF rcv[r].finish = "drain" THEN "leave" ELSE "wait"]
               \/ rcv' = [rcv EXCEPT ![r].curit = it, ![r].msg = entries[it].msg, ![r].pc = "number"]
        BY <2>3 DEF peekNextMessage, queueVars
      <4> HIDE DEF it
      <4>2. rcv[r] \in RcvState
        BY <1>0 DEF Types
      <4> QED
        BY <2>1, <4>1, <4>2 DEF RcvState
    <3>2. CASE q # r
      BY <1>2, <2>0, <2>2, <3>1, <3>2
    <3>3. CASE q = r
      <4>1. F' = F
        BY <3>1, LinkedSame
      <4>2. it = End \/ it \in Queued \/ \E a, b \in 1 .. Len(F) : a <= b /\ F[a] = rcv[r].curit /\ F[b] = it
        BY <2>3, Peeks
      <4> HIDE DEF it
      <4>3. ASSUME NEW j \in 1 .. Len(F), NEW k \in 1 .. Len(F), j <= k, F[j] = it PROVE Mark(F[k])
        <5>1. PICK a \in 1 .. Len(F), b \in 1 .. Len(F) : a <= b /\ F[a] = rcv[r].curit /\ F[b] = it
          BY <1>00, <4>2, <4>3
        <5>2. a <= k
          BY <1>00, <4>3, <5>1 DEF Injective
        <5> QED
          BY <1>02, <2>0, <2>1, <3>1, <3>3, <5>1, <5>2
      <4> QED
        BY <1>01, <3>1, <3>3, <4>1, <4>3 DEF c
    <3> QED
      BY <3>2, <3>3
  <2>4. CASE advance(r)
    <3> DEFINE d == LB!next(mq, rcv[r].curit)
    <3>1. mq' = mq /\ entries' = entries /\ rcv'[r].curit = d /\ rcv[r].pc = "advance"
      <4>1. /\ mq' = mq /\ entries' = entries /\ rcv[r].pc = "advance"
            /\ rcv' = [rcv EXCEPT ![r].curit = d, ![r].pc = "release"]
        BY <2>1, <2>4 DEF advance, queueVars, ReceiverAt
      <4> HIDE DEF d
      <4>2. rcv[r] \in RcvState
        BY <1>0 DEF Types
      <4> QED
        BY <2>1, <4>1, <4>2 DEF RcvState
    <3>2. CASE q # r
      BY <1>2, <2>0, <2>2, <3>1, <3>2
    <3>3. CASE q = r
      <4>1. F' = F
        BY <3>1, LinkedSame
      <4>2. rcv[r].curit \in Slots
        BY <1>0, <2>1, <3>1, <3>3 DEF PlaceInv, Types, RcvState
      <4>3. \/ \A k \in 1 .. Len(F) : F[k] # d
            \/ \E k \in 1 .. Len(F) - 1 : rcv[r].curit = F[k] /\ d = F[k + 1]
        BY <1>0, <4>2, NextSlotOf
      <4> HIDE DEF d
      <4>4. ASSUME NEW j \in 1 .. Len(F), NEW k \in 1 .. Len(F), j <= k, F[j] = d PROVE Mark(F[k])
        <5>1. PICK a \in 1 .. Len(F) - 1 : rcv[r].curit = F[a] /\ d = F[a + 1]
          BY <4>3, <4>4
        <5>2. a \in 1 .. Len(F) /\ a + 1 \in 1 .. Len(F)
          BY <1>00, <5>1
        <5>3. a + 1 = j
          BY <1>00, <4>4, <5>1, <5>2 DEF Injective
        <5>4. a <= k
          BY <1>00, <4>4, <5>2, <5>3
        <5> QED
          BY <1>02, <2>0, <2>1, <3>1, <3>3, <5>1, <5>2, <5>4
      <4> QED
        BY <1>01, <3>1, <3>3, <4>1, <4>4 DEF c
    <3> QED
      BY <3>2, <3>3
  <2>5. CASE markRead(r)
    <3> DEFINE x == rcv[r].curit
               id == slotOf[r]
    <3>1. c = rcv[q].curit
      BY <1>0, <1>03, <2>1, <2>2, <2>5 DEF markRead, c, Types, RcvState
    <3>2. /\ x \in Slots
          /\ \/ UNCHANGED <<mq, entries>>
             \/ /\ x \in Queued
                /\ entries' = [entries EXCEPT ![x].readFlags = @ \cup {id}, ![x].numRead = @ + 1]
                /\ \/ mq' = mq
                   \/ mq' = LB!erase(mq, x) /\ entries[x].readFlags \cup {id} = ToSet(rcvrs.used)
      BY <2>5, Marks
    <3> HIDE DEF x, id
    <3>3. CASE UNCHANGED <<mq, entries>>
      BY <1>2, <2>0, <3>1, <3>3
    <3>4. CASE /\ x \in Queued
               /\ entries' = [entries EXCEPT ![x].readFlags = @ \cup {id}, ![x].numRead = @ + 1]
      <4>1. /\ entries'[x].readFlags = entries[x].readFlags \cup {id}
            /\ \A i \in Slots : i # x => entries'[i] = entries[i]
        BY <1>0, <3>2, <3>4 DEF Entry
      <4>2. CASE mq' = mq
        <5>1. F' = F
          BY <4>2, LinkedSame
        <5>2. \A i \in Slots : entries[i].readFlags \subseteq entries'[i].readFlags
          BY <4>1
        <5> QED
          BY <1>1, <2>0, <3>1, <5>1, <5>2
      <4>3. CASE mq' = LB!erase(mq, x) /\ entries[x].readFlags \cup {id} = ToSet(rcvrs.used)
        <5>1. Grown(F, x, F')
          BY <1>0, <3>4, <4>3, ListErases
        <5>2. Mark(x)
          <6>1. slotOf[q] \in ToSet(rcvrs.used)
            BY <1>0, <2>1 DEF RcvrsInv
          <6> QED
            BY <2>0, <4>1, <4>3, <6>1
        <5>3. /\ Len(F') = Len(F) + 1 /\ F'[Len(F) + 1] = x
              /\ \A k \in 1 .. Len(F) : F'[k] = F[k] /\ F[k] # x /\ entries'[F[k]] = entries[F[k]]
          BY <1>00, <3>4, <4>1, <5>1 DEF Grown
        <5>4. ASSUME NEW j \in 1 .. Len(F'), NEW k \in 1 .. Len(F'), j <= k, F'[j] = c PROVE Mark(F'[k])
          <6>1. CASE k = Len(F) + 1
            BY <5>2, <5>3, <6>1
          <6>2. CASE k # Len(F) + 1
            <7>1. k \in 1 .. Len(F) /\ j \in 1 .. Len(F)
              BY <1>00, <5>3, <5>4, <6>2
            <7>2. slotOf[q] \in entries[F[k]].readFlags
              BY <1>02, <2>1, <3>1, <5>3, <5>4, <7>1
            <7> QED
              BY <2>0, <5>3, <7>1, <7>2
          <6> QED
            BY <6>1, <6>2
        <5> QED
          BY <1>01, <5>4
      <4> QED
        BY <3>2, <4>2, <4>3, <1>2, <2>0, <3>1
    <3> QED
      BY <3>2, <3>3, <3>4
  <2>6. CASE waitNextMessage(r) \/ readNumber(r) \/ release(r)
    <3>1. mq' = mq /\ entries' = entries
      BY <2>6 DEF waitNextMessage, readNumber, release, queueVars
    <3>2. rcv'[r].curit = rcv[r].curit
      BY <1>0, <2>1, <2>6 DEF waitNextMessage, readNumber, release, Types, RcvState
    <3> QED
      BY <1>2, <2>0, <2>2, <3>1, <3>2 DEF c
  <2> QED
    BY <1>5, <2>3, <2>4, <2>5, <2>6 DEF Reading
<1>6. ASSUME NEW r \in Receivers, Membership(r) PROVE Settled(q)'
  <2>1. r \in DOMAIN rcv /\ rcv[r] \in RcvState
    BY <1>0 DEF Types
  <2>2. q # r => c = rcv[q].curit /\ slotOf'[q] = slotOf[q]
    BY <1>0, <1>03, <1>6, OneReceiver DEF c
  <2>3. CASE start(r) \/ finish(r) \/ joined(r)
    <3>1. mq' = mq /\ entries' = entries /\ slotOf' = slotOf
      BY <2>3 DEF start, finish, joined, queueVars
    <3>2. rcv'[r].curit = rcv[r].curit
      BY <2>1, <2>3 DEF start, finish, joined, RcvState
    <3> QED
      BY <1>2, <2>2, <3>1, <3>2 DEF c
  <2>4. CASE addReceiver(r)
    <3>1. mq' = mq /\ entries' = entries
      BY <2>4 DEF addReceiver, queueVars
    <3>2. rcv'[r].curit = rcv[r].curit /\ rcv[r].pc = "new"
      BY <2>1, <2>4 DEF addReceiver, ReceiverAt, RcvState
    <3>3. F' = F
      BY <3>1, LinkedSame
    <3>4. CASE q # r
      BY <1>1, <2>2, <3>1, <3>3, <3>4
    <3>5. CASE q = r
      <4>1. c = End
        BY <1>0, <3>2, <3>5 DEF PlaceInv, c
      <4> QED
        BY <1>00, <1>01, <3>3, <4>1
    <3> QED
      BY <3>4, <3>5
  <2>5. CASE removeReceiver(r)
    <3> DEFINE id == slotOf[r]
    <3>1. /\ mq' = EraseSlots(Done(r)) /\ slotOf' = [slotOf EXCEPT ![r] = End] /\ r \in Registered
          /\ entries' = [i \in Slots |-> IF i \in Queued THEN Forget(entries[i], id) ELSE entries[i]]
      BY <2>5, Leaves
    <3>2. slotOf'[r] = End
      BY <1>0, <3>1 DEF Types
    <3>3. q # r /\ q \in Registered /\ slotOf[q] # id /\ slotOf'[q] = slotOf[q] /\ slotOf[q] \in ToSet(rcvrs.used)
      <4>1. q # r
        BY <3>2 DEF Registered
      <4>2. q \in Registered
        BY <1>03, <2>2, <4>1 DEF Registered
      <4> QED
        BY <1>0, <2>2, <3>1, <4>1, <4>2 DEF RcvrsInv
    <3>4. Pruned(U, F, Done(r), Len(U), mq', U', F')
      <4>1. Done(r) \in SUBSET Queued
        BY DEF Done
      <4> QED
        BY <1>0, <3>1, <4>1, ListPrunes
    <3>5. /\ Len(F') >= Len(F) /\ \A i \in 1 .. Len(F) : F'[i] = F[i]
          /\ \A i \in Len(F) + 1 .. Len(F') : F'[i] \in Done(r)
      BY <3>4, Zenon DEF Pruned
    <3>6. \A k \in 1 .. Len(F) : entries'[F[k]] = entries[F[k]]
      BY <1>00, <3>1
    <3>7. \A i \in Done(r) : Mark(i)
      <4> SUFFICES ASSUME NEW i \in Done(r) PROVE Mark(i)
        OBVIOUS
      <4>1. i \in Queued /\ i \in Slots /\ id \notin entries[i].readFlags /\ entries[i].readFlags \cup {id} = ToSet(rcvrs.used)
        BY <1>0, LinkedFacts DEF Done, Read
      <4> HIDE DEF id
      <4>2. entries'[i] = entries[i]
        BY <3>1, <4>1 DEF Forget
      <4> QED
        BY <3>3, <4>1, <4>2
    <3>8. ASSUME NEW j \in 1 .. Len(F'), NEW k \in 1 .. Len(F'), j <= k, F'[j] = c PROVE Mark(F'[k])
      <4>0. k \in 1 .. Len(F) \/ k \in Len(F) + 1 .. Len(F')
        BY <1>00
      <4>1. CASE k \in Len(F) + 1 .. Len(F')
        BY <3>5, <3>7, <4>1
      <4>2. CASE k \in 1 .. Len(F)
        <5>1. j \in 1 .. Len(F)
          BY <1>00, <3>8, <4>2
        <5>2. F[j] = rcv[q].curit
          BY <2>2, <3>3, <3>5, <3>8, <5>1
        <5>3. slotOf[q] \in entries[F[k]].readFlags
          BY <1>02, <3>3, <3>8, <4>2, <5>1, <5>2
        <5> QED
          BY <3>3, <3>5, <3>6, <4>2, <5>3
      <4> QED
        BY <4>0, <4>1, <4>2
    <3> QED
      BY <1>01, <3>8
  <2> QED
    BY <1>6, <2>3, <2>4, <2>5 DEF Membership
<1>7. CASE Elsewhere
  BY <1>2, <1>7 DEF Elsewhere, c
<1> QED
  BY <1>3, <1>4, <1>5, <1>6, <1>7, StepCases

LEMMA PeekStep ==
  ASSUME Types, NEW r \in Receivers, peekNextMessage(r), NEW it, it = findCurrentMessage(r)
  PROVE  /\ rcv[r].pc = "peek" /\ rcv'[r].curit = it /\ rcv'[r].nextMessage = rcv[r].nextMessage
         /\ rcv'[r].finish = rcv[r].finish /\ rcv'[r].since = rcv[r].since
         /\ it = End => /\ rcv'[r].pc \in {"leave", "wait"} /\ rcv'[r].msg = rcv[r].msg
                        /\ got' = got /\ refs' = refs
         /\ it # End => /\ rcv'[r].pc = "number" /\ rcv'[r].msg = entries[it].msg
                        /\ got' = [got EXCEPT ![r] = Append(@, entries[it].msg)]
                        /\ refs' = [refs EXCEPT ![entries[it].msg] = @ + 1]
         /\ UNCHANGED <<queueVars, senderVars, rcvrs, slotOf, sem>>
<1>1. /\ UNCHANGED <<queueVars, senderVars, rcvrs, slotOf, sem>> /\ rcv[r].pc = "peek"
      /\ \/ /\ it = End /\ UNCHANGED <<refs, got>>
            /\ rcv' = [rcv EXCEPT ![r].curit = it,
                                  ![r].pc = IF rcv[r].finish = "drain" THEN "leave" ELSE "wait"]
         \/ /\ it # End
            /\ rcv' = [rcv EXCEPT ![r].curit = it, ![r].msg = entries[it].msg, ![r].pc = "number"]
            /\ refs' = [refs EXCEPT ![entries[it].msg] = @ + 1]
            /\ got' = [got EXCEPT ![r] = Append(@, entries[it].msg)]
  BY DEF peekNextMessage, ReceiverAt
<1>2. rcv[r] \in RcvState /\ r \in DOMAIN rcv
  BY DEF Types
<1>3. CASE it = End
  <2>1. /\ rcv' = [rcv EXCEPT ![r].curit = it,
                              ![r].pc = IF rcv[r].finish = "drain" THEN "leave" ELSE "wait"]
        /\ UNCHANGED <<refs, got>>
    BY <1>1, <1>3
  <2>2. /\ rcv'[r].curit = it /\ rcv'[r].nextMessage = rcv[r].nextMessage
        /\ rcv'[r].finish = rcv[r].finish /\ rcv'[r].since = rcv[r].since
        /\ rcv'[r].pc \in {"leave", "wait"} /\ rcv'[r].msg = rcv[r].msg
    BY <1>2, <2>1 DEF RcvState
  <2> QED
    BY <1>1, <1>3, <2>1, <2>2
<1>4. CASE it # End
  <2>1. /\ rcv' = [rcv EXCEPT ![r].curit = it, ![r].msg = entries[it].msg, ![r].pc = "number"]
        /\ refs' = [refs EXCEPT ![entries[it].msg] = @ + 1]
        /\ got' = [got EXCEPT ![r] = Append(@, entries[it].msg)]
    BY <1>1, <1>4
  <2>2. /\ rcv'[r].curit = it /\ rcv'[r].nextMessage = rcv[r].nextMessage
        /\ rcv'[r].finish = rcv[r].finish /\ rcv'[r].since = rcv[r].since
        /\ rcv'[r].pc = "number" /\ rcv'[r].msg = entries[it].msg
    BY <1>2, <2>1 DEF RcvState
  <2> QED
    BY <1>1, <1>4, <2>1, <2>2
<1> QED
  BY <1>3, <1>4

\* The other steps of a receiver: where it is afterwards, and the rest.
LEMMA StepFields ==
  ASSUME Types, NEW r \in Receivers, Reading(r) \/ Membership(r), ~peekNextMessage(r)
  PROVE  /\ got' = got /\ rcv'[r].nextMessage = IF rcv[r].pc = "number" /\ rcv'[r].pc = "mark" THEN Sn(rcv[r].curit) + 1
                                                     ELSE rcv[r].nextMessage
         /\ rcv'[r].curit = IF rcv[r].pc = "advance" /\ rcv'[r].pc = "release" THEN LB!next(mq, rcv[r].curit)
                               ELSE rcv[r].curit
         /\ rcv'[r].msg = IF rcv[r].pc = "release" /\ rcv'[r].pc = "peek" THEN NoRegion ELSE rcv[r].msg
         /\ rcv'[r].since = IF rcv[r].pc = "new" THEN numMessages ELSE rcv[r].since
         /\ \/ waitNextMessage(r) /\ rcv[r].pc = "wait" /\ rcv'[r].pc = "peek"
            \/ readNumber(r) /\ rcv[r].pc = "number" /\ rcv'[r].pc = "mark"
            \/ markRead(r) /\ rcv[r].pc = "mark" /\ rcv'[r].pc = "advance"
            \/ advance(r) /\ rcv[r].pc = "advance" /\ rcv'[r].pc = "release"
            \/ release(r) /\ rcv[r].pc = "release" /\ rcv'[r].pc = "peek"
            \/ addReceiver(r) /\ rcv[r].pc = "new" /\ rcv'[r].pc = "ready"
            \/ start(r) /\ rcv[r].pc = "ready" /\ rcv'[r].pc = "wait"
            \/ finish(r) /\ rcv[r].pc = "ready" /\ rcv'[r].pc = "peek"
            \/ finish(r) /\ rcv[r].pc \notin {"new", "ready"} /\ rcv'[r].pc = rcv[r].pc
            \/ joined(r) /\ rcv[r].pc = "wait" /\ rcv'[r].pc = "peek"
            \/ removeReceiver(r) /\ rcv[r].pc = "leave" /\ rcv'[r].pc = "gone"
<1>1. rcv[r] \in RcvState /\ r \in DOMAIN rcv
  BY DEF Types
<1>2. CASE waitNextMessage(r)
  BY <1>1, <1>2 DEF waitNextMessage, readNumber, advance, release, addReceiver, ReceiverAt, RcvState
<1>3. CASE readNumber(r)
  BY <1>1, <1>3 DEF readNumber, advance, release, addReceiver, ReceiverAt, RcvState, NumberAfter, Sn
<1>4. CASE markRead(r)
  BY <1>1, <1>4 DEF markRead, readNumber, advance, release, addReceiver, ReceiverAt, RcvState
<1>5. CASE advance(r)
  BY <1>1, <1>5 DEF readNumber, advance, release, addReceiver, ReceiverAt, RcvState
<1>6. CASE release(r)
  BY <1>1, <1>6 DEF readNumber, advance, release, addReceiver, ReceiverAt, RcvState, Onward
<1>7. CASE addReceiver(r)
  BY <1>1, <1>7 DEF readNumber, advance, release, addReceiver, ReceiverAt, RcvState
<1>8. CASE start(r)
  BY <1>1, <1>8 DEF readNumber, advance, release, addReceiver, start, ReceiverAt, RcvState
<1>9. CASE finish(r)
  <2>2. got' = got /\ rcv'[r].curit = rcv[r].curit /\ rcv'[r].nextMessage = rcv[r].nextMessage
        /\ rcv'[r].msg = rcv[r].msg /\ rcv'[r].since = rcv[r].since /\ rcv'[r].finish # rcv[r].finish
    BY <1>1, <1>9 DEF finish, RcvState
  <2>3. \/ rcv[r].pc = "ready" /\ rcv'[r].pc = "peek"
        \/ rcv[r].pc \notin {"new", "ready"} /\ rcv'[r].pc = rcv[r].pc
    BY <1>1, <1>9 DEF finish, ReceiverAt, RcvState
  <2> QED
    BY <1>9, <2>2, <2>3
<1>10. CASE joined(r)
  BY <1>1, <1>10 DEF readNumber, advance, release, addReceiver, joined, ReceiverAt, RcvState
<1>11. CASE removeReceiver(r)
  BY <1>1, <1>11 DEF readNumber, advance, release, addReceiver, removeReceiver, ReceiverAt, RcvState
<1> QED
  BY <1>2, <1>3, <1>4, <1>5, <1>6, <1>7, <1>8, <1>9, <1>10, <1>11 DEF Reading, Membership

LEMMA PlaceKept ==
  ASSUME IInv, [Next]_vars
  PROVE  PlaceInv'
<1>0. Types /\ RcvrsInv /\ PlaceInv
  BY DEF IInv
<1>1. \A q \in Registered' : Settled(q)'
  BY SettledKept
<1> DEFINE A(q) == rcv[q].pc \in {"number", "mark", "advance"} => rcv[q].curit # End
           B(q) == rcv[q].pc = "new" => rcv[q].curit = End /\ rcv[q].nextMessage = 0 /\ got[q] = << >>
<1>2. \A q \in Receivers : A(q) /\ B(q)
  BY <1>0, Listed DEF PlaceInv
<1>3. \A q \in Receivers : A(q)' /\ B(q)'
  <2>1. CASE rcv' = rcv /\ got' = got
    BY <1>2, <2>1
  <2>2. ASSUME NEW r \in Receivers, Reading(r) \/ Membership(r), NEW q \in Receivers
        PROVE  A(q)' /\ B(q)'
    <3>1. CASE q # r
      BY <1>0, <1>2, <2>2, <3>1, OneReceiver
    <3>2. CASE q = r /\ peekNextMessage(r)
      BY <1>0, <1>2, <3>2, PeekStep
    <3>3. CASE q = r /\ ~peekNextMessage(r)
      <4>1. A(r) /\ B(r)
        BY <1>2
      <4>2. rcv'[r].pc # "new"
        BY <1>0, <2>2, <3>3, StepFields
      <4>3. rcv'[r].pc \in {"number", "mark", "advance"} => rcv[r].pc \in {"number", "mark", "advance"} /\ rcv'[r].curit = rcv[r].curit
        BY <1>0, <2>2, <3>3, StepFields
      <4> QED
        BY <3>3, <4>1, <4>2, <4>3
    <3> QED
      BY <3>1, <3>2, <3>3
  <2> QED
    BY <2>1, <2>2, StepCases DEF Sends, ReleaseOwn, Elsewhere
<1>4. Registered' \subseteq Receivers
  BY DEF Registered
<1> QED
  BY <1>1, <1>3, <1>4 DEF PlaceInv

LEMMA PostedRegion ==
  ASSUME IInv, NEW i \in Queued
  PROVE  i \in Slots /\ entries[i].msg \in Regions
BY LinkedFacts, QueuedPosted DEF IInv

LEMMA DoneFinite ==
  ASSUME IInv, NEW r \in Receivers
  PROVE  IsFiniteSet(Done(r)) /\ Cardinality(Done(r)) \in Nat
<1>1. Done(r) \in SUBSET (0 .. CAPACITY - 1)
  BY LinkedFacts DEF IInv, Done, Slots, LB!Slots
<1>2. IsFiniteSet(0 .. CAPACITY - 1)
  BY Sizes, FS_Interval
<1> HIDE DEF Done
<1> QED
  BY <1>1, <1>2, FS_Subset, FS_CardinalityType

LEMMA TypesKept ==
  ASSUME IInv, [Next]_vars
  PROVE  Types'
<1>0. Types
  BY DEF IInv
<1>1. /\ entries \in [Slots -> Entry] /\ numMessages \in Nat /\ messagesRead \in Nat /\ sndrsSem = messagesRead
      /\ slotOf \in [Receivers -> RSlots \cup {End}] /\ sem \in [Receivers -> Nat]
      /\ refs \in [Regions -> Int] /\ sends \in 0 .. MaxSends
      /\ snd \in [Senders -> SenderState] /\ rcv \in [Receivers -> RcvState]
      /\ got \in [Receivers -> Seq(Regions)]
      /\ posted \in Seq(Regions) /\ Len(posted) = numMessages
      /\ lost \in SUBSET Regions /\ leaked \in SUBSET Regions
  BY <1>0 DEF Types
<1>2. CASE Elsewhere
  BY <1>0, <1>2 DEF Elsewhere, Types
<1>3. CASE Sends
  <2>1. PICK s \in Senders, m \in Regions : Held(s, m) /\ (Quiet(s, m) \/ WithRoom(s, m) \/ InPlace(s, m))
    BY <1>3 DEF Sends
  <2>2. sends' \in 0 .. MaxSends
    BY <2>1 DEF Held
  <2>3. snd' \in [Senders -> SenderState]
    <3>1. /\ \A a \in BOOLEAN : [pc |-> "owns", msg |-> m, auto |-> a] \in SenderState
          /\ \A a \in BOOLEAN : [pc |-> "waiting", msg |-> m, auto |-> a] \in SenderState
          /\ [pc |-> "idle", msg |-> NoRegion, auto |-> FALSE] \in SenderState
      BY DEF SenderState
    <3>2. Keeps(s, m, {"owns", "waiting"}) \/ Keeps(s, m, {"owns"}) \/ \E L : Forgets(s, m, L)
      BY <2>1 DEF Quiet, WithRoom, InPlace, Posted
    <3> QED
      BY <1>1, <3>1, <3>2 DEF Keeps, Forgets
  <2>4. leaked' \in SUBSET Regions
    BY <1>1, <2>1 DEF Quiet, WithRoom, InPlace, Posted, Keeps, Forgets
  <2>5. UNCHANGED <<rcvrs, slotOf, rcv, got>>
    BY <1>3 DEF Sends
  <2>6. CASE Quiet(s, m)
    <3>1. refs' \in [Regions -> Int]
      BY <1>1, <2>6 DEF Quiet
    <3>2. messagesRead' \in Nat /\ sndrsSem' = messagesRead'
      BY <1>1, <2>6 DEF Quiet
    <3> QED
      BY <1>1, <2>2, <2>3, <2>4, <2>5, <2>6, <3>1, <3>2 DEF Quiet, Types
  <2>7. CASE WithRoom(s, m) \/ InPlace(s, m)
    <3>1. PICK x \in Slots :
            /\ \A i \in Slots : i # x => entries'[i] = entries[i]
            /\ entries'[x] = [msg |-> m, sn |-> numMessages, readFlags |-> {}, numRead |-> 0]
            /\ numMessages' = numMessages + 1 /\ posted' = Append(posted, m)
      BY <2>7, Puts
    <3>2. \E x2, e : entries' = [entries EXCEPT ![x2] = e]
      BY <2>7 DEF WithRoom, InPlace, Posted
    <3>3. [msg |-> m, sn |-> numMessages, readFlags |-> {}, numRead |-> 0] \in Entry
      BY <1>1 DEF Entry
    <3>4. entries' \in [Slots -> Entry]
      BY <1>1, <3>1, <3>2, <3>3
    <3>5. numMessages' \in Nat /\ posted' \in Seq(Regions) /\ Len(posted') = numMessages'
      BY <1>1, <3>1
    <3>6. /\ messagesRead' = messagesRead /\ sndrsSem' = sndrsSem
          /\ sem' = [r \in Receivers |-> IF r \in Registered THEN sem[r] + 1 ELSE sem[r]]
      BY <2>7 DEF WithRoom, InPlace, Posted
    <3>7. sem' \in [Receivers -> Nat]
      BY <1>1, <3>6
    <3>8. refs' \in [Regions -> Int] /\ lost' \in SUBSET Regions
      <4>1. CASE WithRoom(s, m)
        BY <1>1, <4>1 DEF WithRoom, Posted
      <4>2. CASE InPlace(s, m)
        <5> DEFINE y == entries[U[1]].msg
        <5>1. y \in Regions
          BY <4>2, ListDrops, PostedRegion DEF InPlace, IInv
        <5>2. [refs EXCEPT ![y] = @ - 1] \in [Regions -> Int]
          BY <1>1, <5>1
        <5> DEFINE h == [refs EXCEPT ![y] = @ - 1]
        <5>3. refs' = [h EXCEPT ![m] = 2] \/ refs' = [h EXCEPT ![m] = 1]
          BY <4>2 DEF InPlace, Posted
        <5>4. lost' = lost \cup {y}
          BY <4>2 DEF InPlace
        <5> HIDE DEF h
        <5>5. refs' \in [Regions -> Int]
          BY <5>2, <5>3 DEF h
        <5> QED
          BY <1>1, <5>1, <5>4, <5>5
      <4> QED
        BY <2>7, <4>1, <4>2
    <3> QED
      BY <1>1, <2>2, <2>3, <2>4, <2>5, <3>4, <3>5, <3>6, <3>7, <3>8 DEF Types
  <2> QED
    BY <2>1, <2>6, <2>7
<1>4. ASSUME NEW s \in Senders, ReleaseOwn(s) PROVE Types'
  <2>1. snd[s].pc = "owns" /\ snd[s] \in SenderState /\ snd[s].msg \in Regions
    <3>1. snd[s].pc = "owns" /\ snd[s] \in SenderState
      BY <1>1, <1>4 DEF ReleaseOwn
    <3>2. snd[s].msg # NoRegion
      BY <3>1 DEF IInv, SendersInv
    <3> QED
      BY <3>1, <3>2 DEF SenderState
  <2>2. refs' \in [Regions -> Int]
    BY <1>1, <1>4, <2>1 DEF ReleaseOwn
  <2>3. snd' \in [Senders -> SenderState]
    BY <1>1, <1>4, <2>1 DEF ReleaseOwn, SenderState
  <2> QED
    BY <1>1, <1>4, <2>2, <2>3 DEF ReleaseOwn, Types
<1>5. ASSUME NEW r \in Receivers, Reading(r) \/ Membership(r) PROVE Types'
  <2>0. r \in DOMAIN rcv /\ rcv[r] \in RcvState
    BY <1>1
  <2>1. sends' = sends /\ snd' = snd /\ posted' = posted /\ lost' = lost /\ leaked' = leaked /\ numMessages' = numMessages
    BY <1>5, SendersAlone
  <2>2. rcv' \in [Receivers -> RcvState] /\ got' \in [Receivers -> Seq(Regions)] /\ refs' \in [Regions -> Int]
    <3>0. rcv[r].pc \in {"number", "mark", "advance", "release"} => rcv[r].msg \in Regions
      BY <1>1, <2>0 DEF IInv, ReceiversInv
    <3>00. rcv[r].pc \in {"number", "mark", "advance"} => rcv[r].curit \in Slots
      <4>1. rcv[r].pc \in {"number", "mark", "advance"} => r \in Registered
        BY Listed DEF IInv
      <4> QED
        BY <2>0, <4>1 DEF IInv, PlaceInv, RcvState
    <3>1. CASE peekNextMessage(r)
      <4> DEFINE it == findCurrentMessage(r)
      <4>1. \/ /\ it = End /\ UNCHANGED <<refs, got>>
               /\ rcv' = [rcv EXCEPT ![r].curit = it,
                                     ![r].pc = IF rcv[r].finish = "drain" THEN "leave" ELSE "wait"]
            \/ /\ it # End
               /\ rcv' = [rcv EXCEPT ![r].curit = it, ![r].msg = entries[it].msg, ![r].pc = "number"]
               /\ refs' = [refs EXCEPT ![entries[it].msg] = @ + 1]
               /\ got' = [got EXCEPT ![r] = Append(@, entries[it].msg)]
        BY <3>1 DEF peekNextMessage
      <4>2. it # End => it \in Slots /\ entries[it].msg \in Regions
        <5>1. it # End => it \in Slots /\ (it \in Queued \/ Read(r, it))
          BY <3>1, Peeks
        <5> HIDE DEF it
        <5> QED
          BY <5>1, QueuedPosted DEF IInv, Read
      <4> HIDE DEF it
      <4>3. CASE it = End
        <5> DEFINE p == IF rcv[r].finish = "drain" THEN "leave" ELSE "wait"
        <5>1. rcv' = [rcv EXCEPT ![r].curit = it, ![r].pc = p] /\ UNCHANGED <<refs, got>>
          BY <4>1, <4>3
        <5>2. p \in {"leave", "wait"}
          OBVIOUS
        <5> HIDE DEF p
        <5>3. rcv' \in [Receivers -> RcvState]
          BY <1>1, <2>0, <4>3, <5>1, <5>2 DEF RcvState
        <5> QED
          BY <1>1, <5>1, <5>3
      <4>4. CASE it # End
        <5>1. /\ rcv' = [rcv EXCEPT ![r].curit = it, ![r].msg = entries[it].msg, ![r].pc = "number"]
              /\ refs' = [refs EXCEPT ![entries[it].msg] = @ + 1]
              /\ got' = [got EXCEPT ![r] = Append(@, entries[it].msg)]
          BY <4>1, <4>4
        <5> DEFINE e == entries[it].msg
        <5>2. it \in Slots /\ e \in Regions
          BY <4>2, <4>4
        <5> HIDE DEF e
        <5>3. rcv' \in [Receivers -> RcvState]
          BY <1>1, <2>0, <5>1, <5>2 DEF RcvState, e
        <5>4. refs' \in [Regions -> Int] /\ got' \in [Receivers -> Seq(Regions)]
          BY <1>1, <5>1, <5>2 DEF e
        <5> QED
          BY <5>3, <5>4
      <4> QED
        BY <4>3, <4>4
    <3>2. CASE waitNextMessage(r)
      BY <1>1, <2>0, <3>2 DEF waitNextMessage, RcvState
    <3>3. CASE readNumber(r)
      <4>1. Sn(rcv[r].curit) + 1 \in Nat
        BY <1>1, <3>00, <3>3 DEF readNumber, ReceiverAt, Sn, Entry
      <4>2. rcv' = [rcv EXCEPT ![r].nextMessage = Sn(rcv[r].curit) + 1, ![r].pc = "mark"]
        BY <3>3 DEF readNumber, NumberAfter, Sn
      <4>3. rcv' \in [Receivers -> RcvState]
        BY <1>1, <2>0, <4>1, <4>2 DEF RcvState
      <4> QED
        BY <1>1, <3>3, <4>3 DEF readNumber
    <3>4. CASE markRead(r)
      <4> DEFINE c == rcv[r].curit
      <4>1. refs' = refs \/ (c \in Queued /\ refs' = [refs EXCEPT ![entries[c].msg] = @ - 1])
        BY <3>4, Marks
      <4>2. rcv' = [rcv EXCEPT ![r].pc = "advance"] /\ got' = got
        BY <3>4 DEF markRead
      <4>3. refs' \in [Regions -> Int]
        BY <1>1, <4>1, PostedRegion
      <4> QED
        BY <1>1, <2>0, <4>2, <4>3 DEF RcvState
    <3>5. CASE advance(r)
      <4>1. LB!next(mq, rcv[r].curit) \in Slots \cup {End}
        <5>1. rcv[r].curit \in Slots
          BY <3>00, <3>5 DEF advance, ReceiverAt
        <5>2. mq \in LBP!Lists
          BY DEF IInv, Linked, Shape, LBP!Rep
        <5>3. mq.next \in [Slots -> Slots \cup {End}]
          <6>1. mq.next \in [LBP!Slots -> LBP!Slots \cup {LBP!End}]
            BY <5>2 DEF LBP!Lists, LBP!Index
          <6> QED
            BY <6>1, SameList
        <5>4. rcv[r].curit # End
          BY <5>1, Sizes DEF Slots, LB!Slots, End
        <5> QED
          BY <5>1, <5>3, <5>4, SameList DEF LB!next
      <4>2. rcv' = [rcv EXCEPT ![r].curit = LB!next(mq, rcv[r].curit), ![r].pc = "release"]
        BY <2>0, <3>5 DEF advance
      <4> DEFINE d == LB!next(mq, rcv[r].curit)
      <4> HIDE DEF d
      <4>3. rcv' \in [Receivers -> RcvState]
        BY <1>1, <2>0, <4>1, <4>2 DEF RcvState, d
      <4> QED
        BY <1>1, <3>5, <4>3 DEF advance
    <3>6. CASE release(r)
      <4>1. rcv[r].msg \in Regions
        BY <3>0, <3>6 DEF release, ReceiverAt
      <4>2. rcv' = [rcv EXCEPT ![r].msg = NoRegion, ![r].pc = "peek"]
        BY <3>6 DEF release, Onward
      <4>3. rcv' \in [Receivers -> RcvState]
        BY <1>1, <2>0, <4>2 DEF RcvState
      <4>4. refs' \in [Regions -> Int]
        BY <1>1, <3>6, <4>1 DEF release
      <4> QED
        BY <1>1, <3>6, <4>3, <4>4 DEF release
    <3>7. CASE addReceiver(r)
      BY <1>1, <2>0, <3>7 DEF addReceiver, RcvState
    <3>8. CASE start(r)
      BY <1>1, <2>0, <3>8 DEF start, RcvState
    <3>9. CASE joined(r) \/ finish(r)
      <4>1. \/ rcv' = [rcv EXCEPT ![r].finish = "drain", ![r].pc = "peek"]
            \/ rcv' = [rcv EXCEPT ![r].finish = "stop"]
        BY <3>9 DEF finish, joined
      <4>2. CASE rcv' = [rcv EXCEPT ![r].finish = "drain", ![r].pc = "peek"]
        <5>1. rcv' \in [Receivers -> RcvState]
          BY <1>1, <2>0, <4>2 DEF RcvState
        <5> QED
          BY <1>1, <3>9, <5>1 DEF finish, joined
      <4>3. CASE rcv' = [rcv EXCEPT ![r].finish = "stop"]
        <5>1. rcv' \in [Receivers -> RcvState]
          BY <1>1, <2>0, <4>3 DEF RcvState
        <5> QED
          BY <1>1, <3>9, <5>1 DEF finish, joined
      <4> QED
        BY <4>1, <4>2, <4>3
    <3>10. CASE removeReceiver(r)
      <4>1. refs' = Unshare(Done(r)) /\ rcv' = [rcv EXCEPT ![r].pc = "gone"] /\ got' = got
        BY <3>10, Leaves DEF removeReceiver
      <4> HIDE DEF Done
      <4>2. refs' \in [Regions -> Int]
        BY <1>1, <4>1 DEF Unshare
      <4> QED
        BY <1>1, <2>0, <4>1, <4>2 DEF RcvState
    <3> QED
      BY <1>5, <3>1, <3>2, <3>3, <3>4, <3>5, <3>6, <3>7, <3>8, <3>9, <3>10 DEF Reading, Membership
  <2>3. entries' \in [Slots -> Entry] /\ messagesRead' \in Nat /\ sndrsSem' = messagesRead'
    <3>1. CASE markRead(r)
      <4> DEFINE c == rcv[r].curit
      <4>1. /\ c \in Slots /\ slotOf[r] \in ToSet(rcvrs.used)
            /\ \/ UNCHANGED <<entries, messagesRead, sndrsSem>>
               \/ /\ entries' = [entries EXCEPT ![c].readFlags = @ \cup {slotOf[r]}, ![c].numRead = @ + 1]
                  /\ \/ UNCHANGED <<messagesRead, sndrsSem>>
                     \/ messagesRead' = messagesRead + 1 /\ sndrsSem' = sndrsSem + 1
        BY <3>1, Marks
      <4>2. slotOf[r] \in RSlots
        BY <4>1, ListedReceivers DEF IInv
      <4> DEFINE g == [entries EXCEPT ![c].readFlags = @ \cup {slotOf[r]}, ![c].numRead = @ + 1]
                 h == [entries EXCEPT ![c].readFlags = @ \cup {slotOf[r]}]
      <4> HIDE DEF c
      <4>3. h \in [Slots -> Entry]
        <5> DEFINE e == [entries[c] EXCEPT !.readFlags = @ \cup {slotOf[r]}]
        <5>1. entries \in [Slots -> Entry] /\ c \in Slots
          BY <1>1, <4>1
        <5>2. e \in Entry
          BY <4>2, <5>1 DEF Entry
        <5>3. h = [entries EXCEPT ![c] = e]
          BY <5>1
        <5> HIDE DEF e, h
        <5> QED
          BY <5>1, <5>2, <5>3
      <4>4. g = [h EXCEPT ![c].numRead = @ + 1]
        BY <1>1, <4>1 DEF Entry
      <4>5. g \in [Slots -> Entry]
        <5> HIDE DEF h, g
        <5> QED
          BY <4>1, <4>3, <4>4 DEF Entry
      <4>6. entries' = entries \/ entries' = g
        BY <4>1
      <4>7. UNCHANGED <<messagesRead, sndrsSem>> \/ (messagesRead' = messagesRead + 1 /\ sndrsSem' = sndrsSem + 1)
        BY <4>1
      <4> HIDE DEF g
      <4>8. messagesRead' \in Nat /\ sndrsSem' = messagesRead'
        BY <1>1, <4>7
      <4> QED
        BY <1>1, <4>5, <4>6, <4>8
    <3>2. CASE removeReceiver(r)
      <4>1. /\ messagesRead' = messagesRead + Cardinality(Done(r)) /\ sndrsSem' = sndrsSem + Cardinality(Done(r))
            /\ entries' = [i \in Slots |-> IF i \in Queued THEN Forget(entries[i], slotOf[r]) ELSE entries[i]]
        BY <3>2, Leaves
      <4>2. Cardinality(Done(r)) \in Nat
        BY DoneFinite
      <4>3. \A i \in Queued : Forget(entries[i], slotOf[r]) \in Entry
        <5> SUFFICES ASSUME NEW i \in Queued PROVE Forget(entries[i], slotOf[r]) \in Entry
          OBVIOUS
        <5> DEFINE fl == entries[i].readFlags
        <5>1. entries[i] \in Entry /\ entries[i].numRead = Cardinality(fl) /\ fl \in SUBSET ToSet(rcvrs.used)
          BY <1>1, PostedRegion DEF IInv, FlagsInv
        <5>2. IsFiniteSet(ToSet(rcvrs.used))
          BY ListedReceivers DEF IInv
        <5>3. fl # {} => Cardinality(fl) # 0
          <6> HIDE DEF fl
          <6> QED
            BY <5>1, <5>2, FS_Subset, FS_EmptySet
        <5>4. Cardinality(fl) \in Nat
          BY <5>1 DEF Entry
        <5>5. CASE slotOf[r] \in fl
          <6>1. Forget(entries[i], slotOf[r]) = [entries[i] EXCEPT !.readFlags = @ \ {slotOf[r]}, !.numRead = @ - 1]
            BY <5>5 DEF Forget
          <6>2. entries[i].numRead - 1 \in Nat /\ fl \ {slotOf[r]} \in SUBSET RSlots
            BY <5>1, <5>3, <5>4, <5>5 DEF Entry
          <6> QED
            BY <5>1, <6>1, <6>2 DEF Entry
        <5>6. CASE slotOf[r] \notin fl
          BY <5>1, <5>6 DEF Forget
        <5> QED
          BY <5>5, <5>6
      <4>4. entries' \in [Slots -> Entry]
        BY <1>1, <4>1, <4>3
      <4> QED
        BY <1>1, <4>1, <4>2, <4>4
    <3>3. CASE ~markRead(r) /\ ~removeReceiver(r)
      BY <1>1, <1>5, <3>3 DEF Reading, Membership, waitNextMessage, peekNextMessage, readNumber, advance, release,
                  addReceiver, start, finish, joined, queueVars
    <3> QED
      BY <3>1, <3>2, <3>3
  <2>4. slotOf' \in [Receivers -> RSlots \cup {End}]
    <3>1. CASE addReceiver(r)
      <4>1. rcvrs \in Pool(RSlots) /\ Sound(rcvrs) /\ ~IsFull(rcvrs) /\ slotOf' = [slotOf EXCEPT ![r] = NextSlot(rcvrs)]
        BY <3>1 DEF IInv, RcvrsInv, addReceiver
      <4>2. rcvrs.used \in Seq(RSlots) /\ Len(rcvrs.used) + 1 \in 1 .. Len(rcvrs.used) + 1
        BY <4>1 DEF Pool
      <4>3. NextSlot(rcvrs) \in RSlots
        BY <4>1, <4>2, InsertFacts
      <4> QED
        BY <1>1, <4>1, <4>3
    <3>2. CASE removeReceiver(r)
      BY <1>1, <3>2 DEF removeReceiver
    <3>3. CASE ~addReceiver(r) /\ ~removeReceiver(r)
      BY <1>1, <1>5, <3>3 DEF Reading, Membership, waitNextMessage, peekNextMessage, readNumber, markRead, advance, release,
                  start, finish, joined
    <3> QED
      BY <3>1, <3>2, <3>3
  <2>5. sem' \in [Receivers -> Nat]
    <3>1. sem[r] \in Nat
      BY <1>1
    <3>2. sem' \in {sem, [sem EXCEPT ![r] = @ + 1]} \/ (sem[r] > 0 /\ sem' = [sem EXCEPT ![r] = @ - 1])
      <4>1. CASE Reading(r)
        BY <4>1 DEF Reading, waitNextMessage, peekNextMessage, readNumber, markRead, advance, release
      <4>2. CASE Membership(r)
        BY <4>2 DEF Membership, addReceiver, start, finish, joined, removeReceiver
      <4> QED
        BY <1>5, <4>1, <4>2
    <3>3. CASE sem' \in {sem, [sem EXCEPT ![r] = @ + 1]}
      <4>1. sem[r] + 1 \in Nat
        BY <3>1
      <4>2. [sem EXCEPT ![r] = @ + 1] \in [Receivers -> Nat]
        BY <1>1, <4>1
      <4> QED
        BY <1>1, <3>3, <4>2
    <3>4. CASE sem[r] > 0 /\ sem' = [sem EXCEPT ![r] = @ - 1]
      <4>1. sem[r] - 1 \in Nat
        BY <3>1, <3>4
      <4> QED
        BY <1>1, <3>4, <4>1
    <3> QED
      BY <3>2, <3>3, <3>4
  <2> QED
    BY <1>1, <2>1, <2>2, <2>3, <2>4, <2>5 DEF Types
<1> QED
  BY <1>2, <1>3, <1>4, <1>5, StepCases

\* A receiver that is about to read a number stands at a message sent.
LEMMA AtSent ==
  ASSUME IInv, NEW r \in Receivers, rcv[r].pc \in {"number", "mark"}, NEW c, c = rcv[r].curit
  PROVE  /\ c \in Slots /\ Sn(c) \in Nat /\ Sn(c) < numMessages /\ Sn(c) + 1 \in 1 .. Len(posted)
         /\ posted[Sn(c) + 1] = entries[c].msg
<1>1. Types /\ RcvrsInv /\ PlaceInv /\ Linked /\ SentInv
  BY DEF IInv
<1>2. r \in Registered
  BY <1>1, Listed
<1>3. c \in Slots
  BY <1>1, <1>2 DEF PlaceInv, Types, RcvState
<1>4. c \in Queued \/ entries[c].readFlags # {}
  <2> SUFFICES ASSUME c \notin Queued PROVE entries[c].readFlags # {}
    OBVIOUS
  <2>1. PICK k \in 1 .. Len(F) : F[k] = c
    BY <1>1, <1>3, LinkedFacts
  <2>2. k <= k
    BY <1>1, <2>1, LinkedFacts
  <2>3. Read(r, c)
    BY <1>1, <1>2, <2>1, <2>2 DEF PlaceInv, Settled
  <2> QED
    BY <2>3 DEF Read
<1> QED
  BY <1>1, <1>3, <1>4, QueuedPosted

LEMMA OrderKept ==
  ASSUME IInv, [Next]_vars
  PROVE  OrderInv'
<1>0. OrderInv /\ Types /\ RcvrsInv
  BY DEF IInv
<1>1. /\ posted \in Seq(Regions) /\ got \in [Receivers -> Seq(Regions)]
      /\ \A q \in Receivers : rcv[q].nextMessage \in Nat
  BY <1>0 DEF Types, RcvState
<1> DEFINE Pos(m, n) == \E g \in 1 .. Len(posted) : posted[g] = m /\ g <= n
           Pos1(m, n) == \E g \in 1 .. Len(posted') : posted'[g] = m /\ g <= n
           Bef(m, n) == \E j, k \in 1 .. Len(posted) : j < k /\ posted[j] = m /\ posted[k] = n
           Bef1(m, n) == \E j, k \in 1 .. Len(posted') : j < k /\ posted'[j] = m /\ posted'[k] = n
           Good(s, n) == /\ \A k \in 1 .. Len(s) - 1 : Bef(s[k], s[k + 1])
                         /\ s # << >> => Pos(s[Len(s)], n)
           Good1(s, n) == /\ \A k \in 1 .. Len(s) - 1 : Bef1(s[k], s[k + 1])
                          /\ s # << >> => Pos1(s[Len(s)], n)
<1>2. \A q \in Receivers : Good(got[q], Reached(q))
  <2>1. DOMAIN posted = 1 .. Len(posted)
    BY <1>1, Members
  <2> QED
    BY <1>0, <2>1 DEF OrderInv, InOrder, SentBefore, LastGiven
<1>3. ASSUME \A q \in Receivers : Good1(got'[q], Reached(q)') PROVE OrderInv'
  <2>1. posted' \in Seq(Regions)
    BY TypesKept DEF Types
  <2>2. DOMAIN posted' = 1 .. Len(posted')
    BY <2>1, Members
  <2>3. \A q \in Receivers : /\ \A k \in 1 .. Len(got'[q]) - 1 : Bef1(got'[q][k], got'[q][k + 1])
                             /\ got'[q] # << >> => Pos1(got'[q][Len(got'[q])], Reached(q)')
    BY <1>3
  <2>4. InOrder'
    <3>1. \A q \in Receivers : \A k \in 1 .. Len(got'[q]) - 1 : SentBefore(got[q][k], got[q][k + 1])'
      <4> SUFFICES ASSUME NEW q \in Receivers, NEW k \in 1 .. Len(got'[q]) - 1
                   PROVE  SentBefore(got[q][k], got[q][k + 1])'
        OBVIOUS
      <4>1. PICK a \in 1 .. Len(posted'), b \in 1 .. Len(posted') :
               a < b /\ posted'[a] = got'[q][k] /\ posted'[b] = got'[q][k + 1]
        BY <2>3
      <4>2. a \in DOMAIN posted' /\ b \in DOMAIN posted'
        BY <2>2
      <4> QED
        BY <4>1, <4>2, Zenon DEF SentBefore
    <3> QED
      BY <3>1 DEF InOrder
  <2>5. \A q \in Receivers : LastGiven(q)'
    BY <2>3 DEF LastGiven
  <2> QED
    BY <2>4, <2>5 DEF OrderInv
<1>4. posted' = posted \/ \E m : posted' = Append(posted, m)
  BY StepCases, SendersAlone DEF Sends, Quiet, WithRoom, InPlace, Posted, ReleaseOwn, Elsewhere
<1>5. \A k \in 1 .. Len(posted) : k \in 1 .. Len(posted') /\ posted'[k] = posted[k]
  BY <1>1, <1>4
<1>6. /\ \A m, n : Bef(m, n) => Bef1(m, n)
      /\ \A m : \A n, p \in Nat : Pos(m, n) /\ n <= p => Pos1(m, p)
  BY <1>5
<1>7. \A q \in Receivers : Reached(q) \in Nat
  <2> SUFFICES ASSUME NEW q \in Receivers PROVE Reached(q) \in Nat
    OBVIOUS
  <2>1. rcv[q].pc = "number" => Sn(rcv[q].curit) \in Nat
    BY AtSent
  <2> QED
    BY <1>1, <2>1 DEF Reached
<1> HIDE DEF Pos, Pos1, Bef, Bef1
<1>8. ASSUME NEW q \in Receivers, got'[q] = got[q], Reached(q)' \in Nat, Reached(q) <= Reached(q)'
      PROVE  Good1(got'[q], Reached(q)')
  BY <1>2, <1>6, <1>7, <1>8
<1>9. CASE Sends
  <2>1. PICK s \in Senders, m \in Regions : Quiet(s, m) \/ WithRoom(s, m) \/ InPlace(s, m)
    BY <1>9 DEF Sends
  <2>2. rcv' = rcv /\ got' = got
    BY <1>9 DEF Sends
  <2>3. \A q \in Receivers : Reached(q)' \in Nat /\ Reached(q) <= Reached(q)'
    <3> SUFFICES ASSUME NEW q \in Receivers PROVE Reached(q)' \in Nat /\ Reached(q) <= Reached(q)'
      OBVIOUS
    <3> DEFINE c == rcv[q].curit
    <3>1. CASE rcv[q].pc # "number"
      BY <1>1, <2>2, <3>1 DEF Reached
    <3>2. CASE rcv[q].pc = "number"
      <4>1. c \in Slots /\ Sn(c) \in Nat /\ Sn(c) < numMessages /\ numMessages \in Nat
        BY <1>0, <3>2, AtSent DEF Types
      <4> HIDE DEF c
      <4>2. entries'[c].sn = entries[c].sn \/ entries'[c].sn = numMessages
        <5>1. CASE Quiet(s, m)
          BY <5>1 DEF Quiet
        <5>2. CASE WithRoom(s, m) \/ InPlace(s, m)
          <6>1. PICK x \in Slots :
                  /\ \A i \in Slots : i # x => entries'[i] = entries[i]
                  /\ entries'[x] = [msg |-> m, sn |-> numMessages, readFlags |-> {}, numRead |-> 0]
            BY <5>2, Puts
          <6> QED
            BY <4>1, <6>1
        <5> QED
          BY <2>1, <5>1, <5>2
      <4>3. Reached(q) = Sn(c) + 1 /\ Reached(q)' = entries'[c].sn + 1
        BY <2>2, <3>2 DEF Reached, c, Sn
      <4> QED
        BY <4>1, <4>2, <4>3 DEF Sn
    <3> QED
      BY <3>1, <3>2
  <2> QED
    BY <1>3, <1>8, <2>2, <2>3
<1>10. ASSUME NEW r \in Receivers, Reading(r) \/ Membership(r) PROVE OrderInv'
  <2>1. \A i \in Slots : entries'[i].sn = entries[i].sn
    BY <1>10, Trims
  <2>2. ASSUME NEW q \in Receivers, rcv[q].pc = "number" PROVE rcv[q].curit \in Slots
    BY <2>2, AtSent
  <2>3. \A q \in Receivers : q # r => Good1(got'[q], Reached(q)')
    <3> SUFFICES ASSUME NEW q \in Receivers, q # r PROVE Good1(got'[q], Reached(q)')
      OBVIOUS
    <3>1. rcv'[q] = rcv[q] /\ got'[q] = got[q]
      BY <1>0, <1>10, OneReceiver
    <3>2. Reached(q)' = Reached(q)
      BY <2>1, <2>2, <3>1 DEF Reached, Sn
    <3>3. Reached(q)' \in Nat /\ Reached(q) <= Reached(q)'
      BY <1>7, <3>2
    <3> QED
      BY <1>8, <3>1, <3>3
  <2>4. Good1(got'[r], Reached(r)')
    <3>1. CASE ~peekNextMessage(r)
      <4>1. got' = got
        BY <1>0, <1>10, <3>1, StepFields
      <4>2. Reached(r)' = Reached(r)
        <5>1. CASE rcv[r].pc = "number"
          <6>1. \/ rcv'[r].pc = "mark" /\ rcv'[r].nextMessage = Sn(rcv[r].curit) + 1
                \/ rcv'[r].pc = "number" /\ rcv'[r].curit = rcv[r].curit
            BY <1>0, <1>10, <3>1, <5>1, StepFields
          <6> QED
            BY <2>1, <2>2, <5>1, <6>1 DEF Reached, Sn
        <5>2. CASE rcv[r].pc # "number"
          <6>1. rcv'[r].pc # "number" /\ rcv'[r].nextMessage = rcv[r].nextMessage
            BY <1>0, <1>10, <3>1, <5>2, StepFields
          <6> QED
            BY <5>2, <6>1 DEF Reached
        <5> QED
          BY <5>1, <5>2
      <4>3. Reached(r)' \in Nat /\ Reached(r) <= Reached(r)'
        BY <1>7, <4>2
      <4> QED
        BY <1>8, <4>1, <4>3
    <3>2. CASE peekNextMessage(r)
      <4> DEFINE it == findCurrentMessage(r)
                 n == rcv[r].nextMessage
      <4>1. /\ rcv[r].pc = "peek" /\ rcv'[r].curit = it /\ rcv'[r].nextMessage = n
            /\ it = End => rcv'[r].pc \in {"leave", "wait"} /\ got' = got
            /\ it # End => /\ rcv'[r].pc = "number"
                           /\ got' = [got EXCEPT ![r] = Append(@, entries[it].msg)]
        BY <1>0, <3>2, PeekStep
      <4>2. it # End => it \in Slots /\ (it \in Queued \/ Read(r, it)) /\ Sn(it) >= n
        BY <3>2, Peeks
      <4> HIDE DEF it
      <4>3. Reached(r) = n /\ n \in Nat
        BY <1>1, <4>1 DEF Reached
      <4>4. CASE it = End
        <5>1. Reached(r)' = n
          BY <4>1, <4>4 DEF Reached
        <5> QED
          BY <1>8, <4>1, <4>3, <4>4, <5>1
      <4>5. CASE it # End
        <5> DEFINE e == entries[it].msg
                   s == got[r]
        <5>1. /\ Sn(it) \in Nat /\ Sn(it) + 1 \in 1 .. Len(posted) /\ posted[Sn(it) + 1] = e /\ e \in Regions
          BY <4>2, <4>5, QueuedPosted DEF IInv, Read
        <5>2. Reached(r)' = Sn(it) + 1
          BY <2>1, <4>1, <4>2, <4>5 DEF Reached, Sn
        <5>3. got'[r] = Append(s, e) /\ s \in Seq(Regions)
          BY <1>1, <4>1, <4>5
        <5>4. Pos1(e, Sn(it) + 1)
          <6>1. Pos(e, Sn(it) + 1)
            BY <5>1 DEF Pos
          <6> QED
            BY <1>6, <5>1, <6>1
        <5>5. s # << >> => Bef(s[Len(s)], e)
          <6> SUFFICES ASSUME s # << >> PROVE Bef(s[Len(s)], e)
            OBVIOUS
          <6>1. PICK g \in 1 .. Len(posted) : posted[g] = s[Len(s)] /\ g <= n
            BY <1>2, <4>3 DEF Pos
          <6>2. g < Sn(it) + 1
            BY <4>2, <4>3, <4>5, <5>1, <6>1
          <6> QED
            BY <5>1, <6>1, <6>2 DEF Bef
        <5>6. \A k \in 1 .. Len(s) - 1 : Bef1(s[k], s[k + 1])
          BY <1>2, <1>6
        <5> HIDE DEF e, s
        <5>7. /\ Len(got'[r]) = Len(s) + 1 /\ got'[r][Len(s) + 1] = e /\ Len(s) \in Nat
              /\ \A k \in 1 .. Len(s) : got'[r][k] = s[k]
          BY <5>1, <5>3 DEF e
        <5>8. \A k \in 1 .. Len(got'[r]) - 1 : Bef1(got'[r][k], got'[r][k + 1])
          <6> SUFFICES ASSUME NEW k \in 1 .. Len(s) PROVE Bef1(got'[r][k], got'[r][k + 1])
            BY <5>7
          <6>1. CASE k = Len(s)
            <7>1. s # << >>
              <8>1. Len(s) # 0
                BY <5>7, <6>1
              <8> QED
                BY <5>3, <8>1, EmptySeq
            <7> QED
              BY <1>6, <5>5, <5>7, <6>1, <7>1
          <6>2. CASE k # Len(s)
            <7>1. k \in 1 .. Len(s) - 1 /\ k + 1 \in 1 .. Len(s)
              BY <5>7, <6>2
            <7> QED
              BY <5>6, <5>7, <7>1
          <6> QED
            BY <6>1, <6>2
        <5> QED
          BY <5>2, <5>4, <5>7, <5>8 DEF e
      <4> QED
        BY <4>4, <4>5
    <3> QED
      BY <3>1, <3>2
  <2> QED
    BY <1>3, <2>3, <2>4
<1>11. CASE rcv' = rcv /\ got' = got /\ entries' = entries
  <2>1. \A q \in Receivers : Reached(q)' = Reached(q)
    BY <1>11 DEF Reached, Sn
  <2>2. \A q \in Receivers : Reached(q)' \in Nat /\ Reached(q) <= Reached(q)'
    BY <1>7, <2>1
  <2> QED
    BY <1>3, <1>8, <1>11, <2>2
<1> QED
  BY <1>9, <1>10, <1>11, StepCases DEF ReleaseOwn, Elsewhere

\* ----------------------------- the references -----------------------------

QueuedAs(k) == {i \in Queued : entries[i].msg = k}
SendersOf(k) == {s \in Senders : snd[s].msg = k}
ReadersOf(k) == {r \in Receivers : rcv[r].msg = k}
LeakedAs(k) == {k} \cap leaked

\* Counting once more after one element came or went.
LEMMA OneMore ==
  ASSUME NEW A, NEW B, IsFiniteSet(A), NEW t, A \ {t} = B \ {t}
  PROVE  /\ IsFiniteSet(B) /\ Cardinality(A) \in Nat
         /\ (t \in A <=> t \in B) => Cardinality(B) = Cardinality(A)
         /\ t \notin A /\ t \in B => Cardinality(B) = Cardinality(A) + 1
         /\ t \in A /\ t \notin B => Cardinality(B) = Cardinality(A) - 1
<1>1. (t \in A <=> t \in B) => B = A
  OBVIOUS
<1>2. t \notin A /\ t \in B => B = A \cup {t}
  OBVIOUS
<1>3. t \in A /\ t \notin B => B = A \ {t}
  OBVIOUS
<1>4. Cardinality(A) \in Nat
  BY FS_CardinalityType
<1>5. /\ IsFiniteSet(A \cup {t}) /\ IsFiniteSet(A \ {t})
      /\ t \notin A => Cardinality(A \cup {t}) = Cardinality(A) + 1
      /\ t \in A => Cardinality(A \ {t}) = Cardinality(A) - 1
  BY FS_AddElement, FS_RemoveElement
<1>6. CASE t \in A <=> t \in B
  BY <1>1, <1>4, <1>6
<1>7. CASE t \notin A /\ t \in B
  BY <1>2, <1>4, <1>5, <1>7
<1>8. CASE t \in A /\ t \notin B
  BY <1>3, <1>4, <1>5, <1>8
<1> QED
  BY <1>6, <1>7, <1>8

LEMMA CountsFinite ==
  ASSUME IInv, NEW k
  PROVE  /\ IsFiniteSet(QueuedAs(k)) /\ IsFiniteSet(SendersOf(k)) /\ IsFiniteSet(ReadersOf(k)) /\ IsFiniteSet(LeakedAs(k))
         /\ Cardinality(QueuedAs(k)) \in Nat /\ Cardinality(SendersOf(k)) \in Nat
         /\ Cardinality(ReadersOf(k)) \in Nat /\ Cardinality(LeakedAs(k)) \in Nat
         /\ k \in Regions => refs[k] = Cardinality(QueuedAs(k)) + Cardinality(SendersOf(k))
                                       + Cardinality(ReadersOf(k)) + Cardinality(LeakedAs(k))
<1>1. IsFiniteSet(0 .. CAPACITY - 1) /\ QueuedAs(k) \in SUBSET (0 .. CAPACITY - 1)
  <2>1. IsFiniteSet(0 .. CAPACITY - 1)
    BY Sizes, FS_Interval
  <2> QED
    BY <2>1, LinkedFacts DEF IInv, QueuedAs, Slots, LB!Slots
<1>2. IsFiniteSet(Senders) /\ SendersOf(k) \in SUBSET Senders
  BY Parties DEF SendersOf
<1>3. IsFiniteSet(Receivers) /\ ReadersOf(k) \in SUBSET Receivers
  BY Parties DEF ReadersOf
<1>4. IsFiniteSet({k}) /\ LeakedAs(k) \in SUBSET {k}
  BY FS_Singleton DEF LeakedAs
<1>5. k \in Regions => refs[k] = Cardinality(QueuedAs(k)) + Cardinality(SendersOf(k))
                                 + Cardinality(ReadersOf(k)) + Cardinality(LeakedAs(k))
  BY DEF IInv, RefsAccounted, QueuedAs, SendersOf, ReadersOf, LeakedAs
<1> HIDE DEF QueuedAs, SendersOf, ReadersOf, LeakedAs
<1>6. IsFiniteSet(QueuedAs(k)) /\ IsFiniteSet(SendersOf(k)) /\ IsFiniteSet(ReadersOf(k)) /\ IsFiniteSet(LeakedAs(k))
  BY <1>1, <1>2, <1>3, <1>4, FS_Subset
<1> QED
  BY <1>5, <1>6, FS_CardinalityType

\* The messages in the queue are different regions.
LEMMA QueueDistinct ==
  ASSUME IInv, NEW i \in Queued, NEW j \in Queued, entries[i].msg = entries[j].msg
  PROVE  i = j
<1>1. Types /\ SentInv /\ Linked /\ Ascending /\ PostedInv
  BY DEF IInv
<1>2. i \in Slots /\ j \in Slots
  BY <1>1, LinkedFacts
<1>3. /\ Sn(i) \in Nat /\ Sn(i) + 1 \in 1 .. Len(posted) /\ posted[Sn(i) + 1] = entries[i].msg
      /\ Sn(j) \in Nat /\ Sn(j) + 1 \in 1 .. Len(posted) /\ posted[Sn(j) + 1] = entries[j].msg
  BY <1>1, <1>2, QueuedPosted
<1>4. Sn(i) = Sn(j)
  <2>1. Sn(i) + 1 = Sn(j) + 1
    BY <1>1, <1>3 DEF PostedInv
  <2> QED
    BY <1>3, <2>1
<1>5. PICK a \in 1 .. Len(U), b \in 1 .. Len(U) : i = U[a] /\ j = U[b]
  BY <1>1, LinkedFacts
<1>6. ~(a < b) /\ ~(b < a)
  BY <1>1, <1>3, <1>4, <1>5 DEF Ascending
<1>7. a = b
  BY <1>1, <1>6, LinkedFacts
<1> QED
  BY <1>5, <1>7

\* What a send does to whom a region belongs.
LEMMA HandsOver ==
  ASSUME IInv, NEW s \in Senders, NEW m \in Regions, Held(s, m),
         Keeps(s, m, {"owns", "waiting"}) \/ Keeps(s, m, {"owns"}) \/ Forgets(s, m, {m}) \/ Forgets(s, m, {})
  PROVE  /\ \A k \in Regions : k # m => SendersOf(k)' = SendersOf(k) /\ LeakedAs(k)' = LeakedAs(k)
         /\ Keeps(s, m, {"owns", "waiting"}) \/ Keeps(s, m, {"owns"}) => SendersOf(m)' = {s} /\ LeakedAs(m)' = {}
         /\ Forgets(s, m, {m}) => SendersOf(m)' = {} /\ LeakedAs(m)' = {m}
         /\ Forgets(s, m, {}) => SendersOf(m)' = {} /\ LeakedAs(m)' = {}
<1>1. /\ snd \in [Senders -> SenderState] /\ m \notin leaked /\ m # NoRegion
      /\ \A k \in Regions : k # NoRegion
  BY DEF IInv, Types, Held, Fresh, Regions, NoRegion
<1>2. \A t \in Senders : t # s => snd'[t] = snd[t] /\ snd[t].msg # m
  BY <1>1 DEF Keeps, Forgets, Held
<1>3. snd[s].msg \in {m, NoRegion}
  BY DEF Held
<1>4. Keeps(s, m, {"owns", "waiting"}) \/ Keeps(s, m, {"owns"}) => snd'[s].msg = m /\ leaked' = leaked
  BY <1>1 DEF Keeps
<1>5. /\ Forgets(s, m, {m}) => snd'[s].msg = NoRegion /\ leaked' = leaked \cup {m}
      /\ Forgets(s, m, {}) => snd'[s].msg = NoRegion /\ leaked' = leaked
  BY <1>1 DEF Forgets
<1>6. \A k \in Regions : k # m => SendersOf(k)' = SendersOf(k) /\ LeakedAs(k)' = LeakedAs(k)
  <2> SUFFICES ASSUME NEW k \in Regions, k # m PROVE SendersOf(k)' = SendersOf(k) /\ LeakedAs(k)' = LeakedAs(k)
    OBVIOUS
  <2>1. snd[s].msg # k /\ snd'[s].msg # k
    BY <1>1, <1>3, <1>4, <1>5
  <2>2. \A t \in Senders : snd'[t].msg = k <=> snd[t].msg = k
    BY <1>2, <2>1
  <2>3. k \in leaked' <=> k \in leaked
    BY <1>4, <1>5
  <2> QED
    BY <2>2, <2>3 DEF SendersOf, LeakedAs
<1>7. Keeps(s, m, {"owns", "waiting"}) \/ Keeps(s, m, {"owns"}) => SendersOf(m)' = {s} /\ LeakedAs(m)' = {}
  BY <1>1, <1>2, <1>4 DEF SendersOf, LeakedAs
<1>8. Forgets(s, m, {m}) => SendersOf(m)' = {} /\ LeakedAs(m)' = {m}
  BY <1>1, <1>2, <1>5 DEF SendersOf, LeakedAs
<1>9. Forgets(s, m, {}) => SendersOf(m)' = {} /\ LeakedAs(m)' = {}
  BY <1>1, <1>2, <1>5 DEF SendersOf, LeakedAs
<1> QED
  BY <1>6, <1>7, <1>8, <1>9

LEMMA RefsKept ==
  ASSUME IInv, [Next]_vars
  PROVE  RefsAccounted'
<1>0. Types /\ Linked /\ entries \in [Slots -> Entry] /\ refs \in [Regions -> Int] /\ Queued \subseteq Slots
  BY LinkedFacts DEF IInv, Types
<1> DEFINE Sum(k) == Cardinality(QueuedAs(k)) + Cardinality(SendersOf(k))
                     + Cardinality(ReadersOf(k)) + Cardinality(LeakedAs(k))
<1>1. ASSUME \A k \in Regions : refs'[k] = Sum(k)' PROVE RefsAccounted'
  BY <1>1 DEF RefsAccounted, QueuedAs, SendersOf, ReadersOf, LeakedAs
<1>2. \A k \in Regions : refs[k] = Sum(k)
  BY CountsFinite
<1>3. ASSUME NEW k, QueuedAs(k)' = QueuedAs(k), SendersOf(k)' = SendersOf(k),
             ReadersOf(k)' = ReadersOf(k), LeakedAs(k)' = LeakedAs(k)
      PROVE  Sum(k)' = Sum(k)
  BY <1>3
<1>4. CASE mq' = mq /\ entries' = entries /\ snd' = snd /\ rcv' = rcv /\ leaked' = leaked /\ refs' = refs
  <2>1. Queued' = Queued
    BY <1>4, LinkedSame
  <2>2. \A k \in Regions : /\ QueuedAs(k)' = QueuedAs(k) /\ SendersOf(k)' = SendersOf(k)
                           /\ ReadersOf(k)' = ReadersOf(k) /\ LeakedAs(k)' = LeakedAs(k)
    BY <1>4, <2>1 DEF QueuedAs, SendersOf, ReadersOf, LeakedAs
  <2> HIDE DEF Sum
  <2> QED
    BY <1>1, <1>2, <1>3, <1>4, <2>2
<1>5. CASE Sends
  <2>1. PICK s \in Senders, m \in Regions : Held(s, m) /\ (Quiet(s, m) \/ WithRoom(s, m) \/ InPlace(s, m))
    BY <1>5 DEF Sends
  <2>2. \A k : ReadersOf(k)' = ReadersOf(k)
    BY <1>5 DEF Sends, ReadersOf
  <2>3. ReadersOf(m) = {}
    BY <2>1 DEF Held, ReadersOf
  <2>4. \A i \in Queued : entries[i].msg # m
    <3> SUFFICES ASSUME NEW i \in Queued PROVE entries[i].msg # m
      OBVIOUS
    <3>1. Sn(i) + 1 \in 1 .. Len(posted) /\ posted[Sn(i) + 1] = entries[i].msg
      BY <1>0, QueuedPosted DEF IInv
    <3> QED
      BY <2>1, <3>1 DEF Held, Fresh
  <2>5. Cardinality({}) = 0 /\ Cardinality({s}) = 1 /\ Cardinality({m}) = 1
    BY FS_EmptySet, FS_Singleton
  <2>6. CASE Quiet(s, m)
    <3>1. mq' = mq /\ entries' = entries /\ refs' = [refs EXCEPT ![m] = 1]
      BY <2>6 DEF Quiet
    <3>2. \A k : QueuedAs(k)' = QueuedAs(k)
      BY <3>1, LinkedSame DEF QueuedAs
    <3>3. QueuedAs(m) = {}
      BY <2>4 DEF QueuedAs
    <3>4. Keeps(s, m, {"owns", "waiting"}) \/ Forgets(s, m, {m})
      BY <2>6 DEF Quiet
    <3>5. /\ \A k \in Regions : k # m => SendersOf(k)' = SendersOf(k) /\ LeakedAs(k)' = LeakedAs(k)
          /\ (SendersOf(m)' = {s} /\ LeakedAs(m)' = {}) \/ (SendersOf(m)' = {} /\ LeakedAs(m)' = {m})
      BY <2>1, <3>4, HandsOver
    <3>6. Sum(m)' = 1
      BY <2>2, <2>3, <2>5, <3>2, <3>3, <3>5
    <3>7. refs'[m] = 1 /\ \A k \in Regions : k # m => refs'[k] = refs[k]
      BY <1>0, <3>1
    <3>8. \A k \in Regions : k # m => Sum(k)' = Sum(k)
      BY <1>3, <2>2, <3>2, <3>5
    <3> HIDE DEF Sum
    <3> QED
      BY <1>1, <1>2, <3>6, <3>7, <3>8
  <2>7. ASSUME NEW x \in Slots, NEW held, Posted(s, m, x, held), held \in [Regions -> Int], Queued' = Queued \cup {x},
               \A k \in Regions : k # m => held[k] = Cardinality(QueuedAs(k)') + Cardinality(SendersOf(k))
                                                     + Cardinality(ReadersOf(k)) + Cardinality(LeakedAs(k))
        PROVE  RefsAccounted'
    <3>1. entries' = [entries EXCEPT ![x] = [msg |-> m, sn |-> numMessages, readFlags |-> {}, numRead |-> 0]]
      BY <2>7 DEF Posted
    <3>2. entries'[x].msg = m /\ \A i \in Slots : i # x => entries'[i] = entries[i]
      BY <1>0, <3>1
    <3>3. QueuedAs(m)' = {x}
      BY <1>0, <2>4, <2>7, <3>2 DEF QueuedAs
    <3>4. Cardinality({x}) = 1
      BY FS_Singleton
    <3>5. /\ \A k \in Regions : k # m => SendersOf(k)' = SendersOf(k) /\ LeakedAs(k)' = LeakedAs(k)
          /\ \/ SendersOf(m)' = {s} /\ LeakedAs(m)' = {} /\ refs' = [held EXCEPT ![m] = 2]
             \/ SendersOf(m)' = {} /\ LeakedAs(m)' = {m} /\ refs' = [held EXCEPT ![m] = 2]
             \/ SendersOf(m)' = {} /\ LeakedAs(m)' = {} /\ refs' = [held EXCEPT ![m] = 1]
      <4>1. CASE Keeps(s, m, {"owns"}) /\ refs' = [held EXCEPT ![m] = 2]
        BY <2>1, <4>1, HandsOver
      <4>2. CASE Forgets(s, m, {m}) /\ refs' = [held EXCEPT ![m] = 2]
        BY <2>1, <4>2, HandsOver
      <4>3. CASE Forgets(s, m, {}) /\ refs' = [held EXCEPT ![m] = 1]
        BY <2>1, <4>3, HandsOver
      <4> QED
        BY <2>7, <4>1, <4>2, <4>3 DEF Posted
    <3>6. refs'[m] = Sum(m)'
      <4>1. Cardinality(QueuedAs(m)') = 1 /\ Cardinality(ReadersOf(m)') = 0
        BY <2>2, <2>3, <2>5, <3>3, <3>4
      <4>2. CASE SendersOf(m)' = {s} /\ LeakedAs(m)' = {} /\ refs' = [held EXCEPT ![m] = 2]
        <5>1. Cardinality(SendersOf(m)') = 1 /\ Cardinality(LeakedAs(m)') = 0
          BY <2>5, <4>2
        <5>2. refs'[m] = 2
          BY <2>7, <4>2
        <5> QED
          BY <4>1, <5>1, <5>2
      <4>3. CASE SendersOf(m)' = {} /\ LeakedAs(m)' = {m} /\ refs' = [held EXCEPT ![m] = 2]
        <5>1. Cardinality(SendersOf(m)') = 0 /\ Cardinality(LeakedAs(m)') = 1
          BY <2>5, <4>3
        <5>2. refs'[m] = 2
          BY <2>7, <4>3
        <5> QED
          BY <4>1, <5>1, <5>2
      <4>4. CASE SendersOf(m)' = {} /\ LeakedAs(m)' = {} /\ refs' = [held EXCEPT ![m] = 1]
        <5>1. Cardinality(SendersOf(m)') = 0 /\ Cardinality(LeakedAs(m)') = 0
          BY <2>5, <4>4
        <5>2. refs'[m] = 1
          BY <2>7, <4>4
        <5> QED
          BY <4>1, <5>1, <5>2
      <4> QED
        BY <3>5, <4>2, <4>3, <4>4
    <3>7. \A k \in Regions : k # m => refs'[k] = held[k]
      BY <2>7, <3>5
    <3>8. \A k \in Regions : k # m => refs'[k] = Sum(k)'
      BY <2>2, <2>7, <3>5, <3>7
    <3> HIDE DEF Sum
    <3> QED
      BY <1>1, <3>6, <3>8
  <2>8. CASE WithRoom(s, m)
    <3>1. F[1] \in Slots /\ F[1] \notin Queued /\ Queued' = Queued \cup {F[1]}
      BY <1>0, <2>8, ListPosts DEF WithRoom
    <3>2. Posted(s, m, F[1], refs)
      BY <2>8 DEF WithRoom
    <3>3. \A k \in Regions : k # m => QueuedAs(k)' = QueuedAs(k)
      <4>1. entries' = [entries EXCEPT ![F[1]] = [msg |-> m, sn |-> numMessages, readFlags |-> {}, numRead |-> 0]]
        BY <3>2 DEF Posted
      <4>2. entries'[F[1]].msg = m /\ \A i \in Queued : entries'[i] = entries[i]
        BY <1>0, <3>1, <4>1
      <4> QED
        BY <3>1, <4>2 DEF QueuedAs
    <3> QED
      BY <1>0, <1>2, <2>7, <3>1, <3>2, <3>3
  <2>9. CASE InPlace(s, m)
    <3> DEFINE x == U[1]
               y == entries[x].msg
               held == [refs EXCEPT ![y] = @ - 1]
    <3>1. x \in Queued /\ x \in Slots /\ Queued' = Queued
      BY <1>0, <2>9, ListDrops DEF InPlace
    <3>2. Posted(s, m, x, held)
      BY <2>9 DEF InPlace
    <3>3. y \in Regions /\ y # m
      BY <2>4, <3>1, PostedRegion
    <3>4. held \in [Regions -> Int] /\ held[y] = refs[y] - 1 /\ \A k \in Regions : k # y => held[k] = refs[k]
      BY <1>0, <3>3
    <3>5. entries'[x].msg = m /\ \A i \in Slots : i # x => entries'[i] = entries[i]
      <4>1. entries' = [entries EXCEPT ![x] = [msg |-> m, sn |-> numMessages, readFlags |-> {}, numRead |-> 0]]
        BY <3>2 DEF Posted
      <4> HIDE DEF x
      <4> QED
        BY <1>0, <3>1, <4>1
    <3> HIDE DEF held, y, x
    <3>6. \A k \in Regions : k # m => held[k] = Cardinality(QueuedAs(k)') + Cardinality(SendersOf(k))
                                                + Cardinality(ReadersOf(k)) + Cardinality(LeakedAs(k))
      <4> SUFFICES ASSUME NEW k \in Regions, k # m
                   PROVE  held[k] = Cardinality(QueuedAs(k)') + Cardinality(SendersOf(k))
                                    + Cardinality(ReadersOf(k)) + Cardinality(LeakedAs(k))
        OBVIOUS
      <4>1. /\ Cardinality(QueuedAs(k)) \in Nat /\ Cardinality(SendersOf(k)) \in Nat
            /\ Cardinality(ReadersOf(k)) \in Nat /\ Cardinality(LeakedAs(k)) \in Nat /\ IsFiniteSet(QueuedAs(k))
        BY CountsFinite
      <4>2. QueuedAs(k) \ {x} = QueuedAs(k)' \ {x} /\ x \notin QueuedAs(k)' /\ (x \in QueuedAs(k) <=> k = y)
        BY <1>0, <3>1, <3>5 DEF QueuedAs, y
      <4>3. /\ k = y => Cardinality(QueuedAs(k)') = Cardinality(QueuedAs(k)) - 1
            /\ k # y => Cardinality(QueuedAs(k)') = Cardinality(QueuedAs(k))
        BY <4>1, <4>2, OneMore
      <4>4. refs[k] = Sum(k)
        BY <1>2
      <4> QED
        BY <3>4, <4>1, <4>3, <4>4
    <3>7. Queued' = Queued \cup {x}
      BY <3>1
    <3> QED
      BY <2>7, <3>1, <3>2, <3>4, <3>6, <3>7
  <2> QED
    BY <2>1, <2>6, <2>8, <2>9
<1>6. ASSUME NEW s \in Senders, ReleaseOwn(s) PROVE RefsAccounted'
  <2> DEFINE m == snd[s].msg
  <2>1. /\ snd \in [Senders -> SenderState] /\ snd[s].pc = "owns" /\ refs' = [refs EXCEPT ![m] = @ - 1]
        /\ mq' = mq /\ entries' = entries /\ rcv' = rcv /\ leaked' = leaked
        /\ snd' = [snd EXCEPT ![s].pc = "idle", ![s].msg = NoRegion]
    BY <1>0, <1>6 DEF ReleaseOwn, Types
  <2>2. m \in Regions /\ NoRegion \notin Regions
    <3>1. m # NoRegion
      BY <2>1 DEF IInv, SendersInv
    <3> QED
      BY <2>1, <3>1 DEF SenderState, Regions, NoRegion
  <2>3. snd'[s].msg = NoRegion /\ \A t \in Senders : t # s => snd'[t] = snd[t]
    BY <2>1 DEF SenderState
  <2>4. \A k : /\ QueuedAs(k)' = QueuedAs(k) /\ ReadersOf(k)' = ReadersOf(k) /\ LeakedAs(k)' = LeakedAs(k)
    BY <2>1, LinkedSame DEF QueuedAs, ReadersOf, LeakedAs
  <2>5. \A k \in Regions : /\ SendersOf(k) \ {s} = SendersOf(k)' \ {s} /\ s \notin SendersOf(k)'
                           /\ s \in SendersOf(k) <=> k = m
    BY <2>2, <2>3 DEF SendersOf
  <2>6. refs'[m] = refs[m] - 1 /\ \A k \in Regions : k # m => refs'[k] = refs[k]
    BY <1>0, <2>1, <2>2
  <2> HIDE DEF m
  <2>7. \A k \in Regions : refs'[k] = Sum(k)'
    <3> SUFFICES ASSUME NEW k \in Regions PROVE refs'[k] = Sum(k)'
      OBVIOUS
    <3>1. /\ Cardinality(QueuedAs(k)) \in Nat /\ Cardinality(SendersOf(k)) \in Nat
          /\ Cardinality(ReadersOf(k)) \in Nat /\ Cardinality(LeakedAs(k)) \in Nat /\ IsFiniteSet(SendersOf(k))
      BY CountsFinite
    <3>2. /\ k = m => Cardinality(SendersOf(k)') = Cardinality(SendersOf(k)) - 1
          /\ k # m => Cardinality(SendersOf(k)') = Cardinality(SendersOf(k))
      BY <2>5, <3>1, OneMore
    <3>3. refs[k] = Sum(k)
      BY <1>2
    <3> QED
      BY <2>4, <2>6, <3>1, <3>2, <3>3
  <2> HIDE DEF Sum
  <2> QED
    BY <1>1, <2>7
<1>7. ASSUME NEW r \in Receivers, Reading(r) \/ Membership(r) PROVE RefsAccounted'
  <2>1. snd' = snd /\ leaked' = leaked
    BY <1>7, SendersAlone
  <2>2. \A k : SendersOf(k)' = SendersOf(k) /\ LeakedAs(k)' = LeakedAs(k)
    BY <2>1 DEF SendersOf, LeakedAs
  <2>3. /\ Queued' \subseteq Queued /\ \A i \in Slots : entries'[i].msg = entries[i].msg
    BY <1>7, Trims
  <2>4. Queued' = Queued => \A k : QueuedAs(k)' = QueuedAs(k)
    BY <1>0, <2>3 DEF QueuedAs
  <2>5. \A q \in Receivers : q # r => rcv'[q] = rcv[q]
    BY <1>0, <1>7, OneReceiver
  <2>6. \A k \in Regions : ReadersOf(k) \ {r} = ReadersOf(k)' \ {r}
                           /\ (r \in ReadersOf(k) <=> rcv[r].msg = k) /\ (r \in ReadersOf(k)' <=> rcv'[r].msg = k)
    BY <2>5 DEF ReadersOf
  <2>7. rcv'[r].msg = rcv[r].msg => \A k : ReadersOf(k)' = ReadersOf(k)
    BY <2>5 DEF ReadersOf
  <2>8. NoRegion \notin Regions
    BY DEF Regions, NoRegion
  <2>9. \A k \in Regions : /\ IsFiniteSet(QueuedAs(k)) /\ IsFiniteSet(ReadersOf(k))
                           /\ Cardinality(QueuedAs(k)) \in Nat /\ Cardinality(SendersOf(k)) \in Nat
                           /\ Cardinality(ReadersOf(k)) \in Nat /\ Cardinality(LeakedAs(k)) \in Nat
    BY CountsFinite
  <2>10. ASSUME refs' = refs, mq' = mq, rcv'[r].msg = rcv[r].msg PROVE RefsAccounted'
    <3>1. \A k : QueuedAs(k)' = QueuedAs(k) /\ ReadersOf(k)' = ReadersOf(k)
      BY <2>4, <2>7, <2>10, LinkedSame
    <3>2. \A k \in Regions : Sum(k)' = Sum(k)
      BY <1>3, <2>2, <3>1
    <3> HIDE DEF Sum
    <3> QED
      BY <1>1, <1>2, <2>10, <3>2
  <2>11. CASE peekNextMessage(r)
    <3> DEFINE it == findCurrentMessage(r)
               e == entries[it].msg
    <3>1. /\ mq' = mq /\ rcv[r].pc = "peek"
          /\ it = End => rcv'[r].msg = rcv[r].msg /\ refs' = refs
          /\ it # End => rcv'[r].msg = e /\ refs' = [refs EXCEPT ![e] = @ + 1]
      BY <1>0, <2>11, PeekStep DEF queueVars
    <3>2. CASE it = End
      BY <2>10, <3>1, <3>2
    <3>3. CASE it # End
      <4>1. it \in Slots /\ (it \in Queued \/ Read(r, it))
        BY <2>11, <3>3, Peeks
      <4> HIDE DEF it
      <4>2. e \in Regions
        BY <4>1, QueuedPosted DEF IInv, Read
      <4>3. rcv[r].msg = NoRegion
        BY <3>1 DEF IInv, ReceiversInv
      <4>4. rcv'[r].msg = e /\ refs'[e] = refs[e] + 1 /\ \A k \in Regions : k # e => refs'[k] = refs[k]
        BY <1>0, <3>1, <3>3, <4>2
      <4> HIDE DEF e
      <4>5. \A k \in Regions : refs'[k] = Sum(k)'
        <5> SUFFICES ASSUME NEW k \in Regions PROVE refs'[k] = Sum(k)'
          OBVIOUS
        <5>1. /\ k = e => Cardinality(ReadersOf(k)') = Cardinality(ReadersOf(k)) + 1
              /\ k # e => Cardinality(ReadersOf(k)') = Cardinality(ReadersOf(k))
          BY <2>6, <2>8, <2>9, <4>3, <4>4, OneMore
        <5>2. QueuedAs(k)' = QueuedAs(k)
          BY <2>4, <3>1, LinkedSame
        <5>3. refs[k] = Sum(k)
          BY <1>2
        <5> QED
          BY <2>2, <2>9, <4>4, <5>1, <5>2, <5>3
      <4> HIDE DEF Sum
      <4> QED
        BY <1>1, <4>5
    <3> QED
      BY <3>2, <3>3
  <2>12. CASE release(r)
    <3> DEFINE e == rcv[r].msg
    <3>1. /\ mq' = mq /\ rcv[r].pc = "release" /\ rcv'[r].msg = NoRegion /\ refs' = [refs EXCEPT ![e] = @ - 1]
      <4>1. r \in DOMAIN rcv /\ rcv[r] \in RcvState
        BY <1>0 DEF Types
      <4> QED
        BY <2>12, <4>1 DEF release, queueVars, ReceiverAt, RcvState
    <3>2. e \in Regions
      BY <1>0, <3>1 DEF IInv, ReceiversInv, Types, RcvState
    <3>4. refs'[e] = refs[e] - 1 /\ \A k \in Regions : k # e => refs'[k] = refs[k]
      BY <1>0, <3>1, <3>2
    <3>5. \A k \in Regions : refs'[k] = Sum(k)'
      <5> SUFFICES ASSUME NEW k \in Regions PROVE refs'[k] = Sum(k)'
        OBVIOUS
      <5>1. /\ k = e => Cardinality(ReadersOf(k)') = Cardinality(ReadersOf(k)) - 1
            /\ k # e => Cardinality(ReadersOf(k)') = Cardinality(ReadersOf(k))
        BY <2>6, <2>8, <2>9, <3>1, OneMore
      <5>2. QueuedAs(k)' = QueuedAs(k)
        BY <2>4, <3>1, LinkedSame
      <5>3. refs[k] = Sum(k)
        BY <1>2
      <5> QED
        BY <2>2, <2>9, <3>4, <5>1, <5>2, <5>3
    <3> HIDE DEF Sum
    <3> QED
      BY <1>1, <3>5
  <2>13. ASSUME NEW S \in SUBSET Queued, Queued' = Queued \ S, rcv'[r].msg = rcv[r].msg,
                \A k \in Regions : refs'[k] = IF \E i \in S : entries[i].msg = k THEN refs[k] - 1 ELSE refs[k]
         PROVE  RefsAccounted'
    <3>1. \A k \in Regions : refs'[k] = Sum(k)'
      <4> SUFFICES ASSUME NEW k \in Regions PROVE refs'[k] = Sum(k)'
        OBVIOUS
      <4>1. ReadersOf(k)' = ReadersOf(k) /\ refs[k] = Sum(k)
        BY <1>2, <2>7, <2>13
      <4>2. CASE \E i \in S : entries[i].msg = k
        <5>1. PICK i \in S : entries[i].msg = k
          BY <4>2
        <5>2. \A j \in Queued : entries[j].msg = k => j = i
          BY <2>13, <5>1, QueueDistinct
        <5>3. i \in QueuedAs(k) /\ i \notin QueuedAs(k)' /\ QueuedAs(k) \ {i} = QueuedAs(k)' \ {i}
          BY <1>0, <2>3, <2>13, <5>1, <5>2 DEF QueuedAs
        <5>4. Cardinality(QueuedAs(k)') = Cardinality(QueuedAs(k)) - 1
          BY <2>9, <5>3, OneMore
        <5> QED
          BY <2>2, <2>9, <2>13, <4>1, <4>2, <5>4
      <4>3. CASE ~ \E i \in S : entries[i].msg = k
        <5>1. QueuedAs(k)' = QueuedAs(k)
          BY <1>0, <2>3, <2>13, <4>3 DEF QueuedAs
        <5> QED
          BY <2>2, <2>13, <4>1, <4>3, <5>1
      <4> QED
        BY <4>2, <4>3
    <3> HIDE DEF Sum
    <3> QED
      BY <1>1, <3>1
  <2>14. CASE markRead(r)
    <3> DEFINE c == rcv[r].curit
    <3>1. rcv'[r].msg = rcv[r].msg
      <4>1. r \in DOMAIN rcv /\ rcv[r] \in RcvState
        BY <1>0 DEF Types
      <4> QED
        BY <2>14, <4>1 DEF markRead, RcvState
    <3>2. \/ UNCHANGED <<mq, refs>>
          \/ c \in Queued /\ refs' = [refs EXCEPT ![entries[c].msg] = @ - 1] /\ mq' = LB!erase(mq, c)
      BY <2>14, Marks
    <3> HIDE DEF c
    <3>3. CASE UNCHANGED <<mq, refs>>
      BY <2>10, <3>1, <3>3
    <3>4. CASE c \in Queued /\ refs' = [refs EXCEPT ![entries[c].msg] = @ - 1] /\ mq' = LB!erase(mq, c)
      <4>1. Queued' = Queued \ {c}
        BY <1>0, <3>4, ListErases
      <4>2. entries[c].msg \in Regions
        BY <3>4, PostedRegion
      <4>3. \A k \in Regions : refs'[k] = IF \E i \in {c} : entries[i].msg = k THEN refs[k] - 1 ELSE refs[k]
        BY <1>0, <3>4, <4>2
      <4>4. {c} \in SUBSET Queued
        BY <3>4
      <4> QED
        BY <2>13, <3>1, <4>1, <4>3, <4>4
    <3> QED
      BY <3>2, <3>3, <3>4
  <2>15. CASE removeReceiver(r)
    <3>1. refs' = Unshare(Done(r)) /\ mq' = EraseSlots(Done(r)) /\ rcv' = [rcv EXCEPT ![r].pc = "gone"]
      BY <2>15, Leaves
    <3>2. Done(r) \in SUBSET Queued
      BY DEF Done
    <3>3. Queued' = Queued \ Done(r)
      BY <1>0, <3>1, <3>2, ListPrunes
    <3>4. rcv'[r].msg = rcv[r].msg
      BY <1>0, <3>1 DEF Types, RcvState
    <3> HIDE DEF Done
    <3>5. \A k \in Regions : refs'[k] = IF \E i \in Done(r) : entries[i].msg = k THEN refs[k] - 1 ELSE refs[k]
      BY <3>1 DEF Unshare
    <3> QED
      BY <2>13, <3>2, <3>3, <3>4, <3>5
  <2>16. CASE waitNextMessage(r) \/ readNumber(r) \/ advance(r) \/ addReceiver(r) \/ start(r) \/ finish(r) \/ joined(r)
    <3>1. refs' = refs /\ mq' = mq
      BY <2>16 DEF waitNextMessage, readNumber, advance, addReceiver, start, finish, joined, queueVars
    <3>2. rcv'[r].msg = rcv[r].msg
      <4>1. r \in DOMAIN rcv /\ rcv[r] \in RcvState
        BY <1>0 DEF Types
      <4>2. CASE waitNextMessage(r) \/ readNumber(r) \/ advance(r)
        BY <4>1, <4>2 DEF waitNextMessage, readNumber, advance, RcvState
      <4>3. CASE addReceiver(r) \/ start(r) \/ finish(r) \/ joined(r)
        BY <4>1, <4>3 DEF addReceiver, start, finish, joined, RcvState
      <4> QED
        BY <2>16, <4>2, <4>3
    <3> QED
      BY <2>10, <3>1, <3>2
  <2> QED
    BY <1>7, <2>11, <2>12, <2>14, <2>15, <2>16 DEF Reading, Membership
<1> QED
  BY <1>4, <1>5, <1>6, <1>7, StepCases DEF Elsewhere

\* ------------------------------ the log ------------------------------------

\* A message stays in the queue for somebody who has not read it.
LEMMA StillRead ==
  ASSUME IInv, NEW i \in Queued, Registered # {}
  PROVE  \E q \in Registered : ~Read(q, i)
<1>1. RcvrsInv /\ FlagsInv /\ Types
  BY DEF IInv
<1>2. ToSet(rcvrs.used) = {slotOf[r] : r \in Registered}
  BY <1>1 DEF RcvrsInv
<1>3. rcvrs.used # << >>
  BY <1>1, <1>2, ListedReceivers
<1>4. entries[i].readFlags \subseteq ToSet(rcvrs.used) /\ entries[i].readFlags # ToSet(rcvrs.used)
  BY <1>1, <1>3 DEF FlagsInv
<1> QED
  BY <1>2, <1>4 DEF Read

\* Who has read a message has read all those before it.
LEMMA Earlier ==
  ASSUME IInv, FollowInv, NEW q \in Registered, NEW i \in Queued, NEW j \in Queued, Read(q, i), Sn(j) <= Sn(i)
  PROVE  Read(q, j)
<1>1. Follows(q)
  BY DEF FollowInv
<1>2. q \in Receivers /\ Sn(i) \in Nat /\ Sn(j) \in Nat
  <2>1. i \in Slots /\ j \in Slots /\ entries \in [Slots -> Entry]
    BY LinkedFacts DEF IInv, Types
  <2> QED
    BY <2>1 DEF Registered, Sn, Entry
<1>3. Upto(q) \in Int
  <2>1. rcv[q] \in RcvState /\ entries \in [Slots -> Entry]
    BY <1>2 DEF IInv, Types
  <2>2. rcv[q].pc = "number" => rcv[q].curit \in Slots
    BY <1>1, LinkedFacts DEF Follows, IInv
  <2>3. rcv[q].pc = "number" => Sn(rcv[q].curit) \in Nat
    BY <2>1, <2>2 DEF Sn, Entry
  <2> QED
    BY <2>1, <2>3 DEF Upto, RcvState
<1>4. (Read(q, i) => Sn(i) < Upto(q)) /\ (Sn(j) < Upto(q) => Read(q, j))
  BY <1>1 DEF Follows
<1> QED
  BY <1>2, <1>3, <1>4

\* removeReceiver's loop leaves a list alone that has nothing of what goes.
LEMMA ErasesNothing ==
  ASSUME NEW u, u = LB!UsedSeq, Len(u) \in Nat
  PROVE  EraseSlots({}) = mq
<1> DEFINE N == Len(u)
           h == CHOOSE x : x = Loop(mq, u, {}, N, x)
           Bad == {m \in Nat : m <= N /\ h[m] # mq}
<1>1. h = Loop(mq, u, {}, N, h)
  <2> HIDE DEF N
  <2>1. \E x : x = Loop(mq, u, {}, N, x)
    BY LoopRuns DEF N
  <2> QED
    BY <2>1, Zenon
<1>2. EraseSlots({}) = h[N]
  BY Zenon DEF EraseSlots, Loop
<1> HIDE DEF h
<1>3. /\ h[0] = mq
      /\ \A k \in 1 .. N : h[k] = h[k - 1]
  <2>1. 0 \in 0 .. N /\ \A k \in 1 .. N : k \in 0 .. N /\ k # 0
    OBVIOUS
  <2> QED
    BY <1>1, <2>1 DEF Loop
<1>4. Bad = {}
  <2> SUFFICES ASSUME Bad # {} PROVE FALSE
    OBVIOUS
  <2>1. PICK m \in Bad : \A y \in Bad : m <= y
    <3>1. Bad \in SUBSET Nat
      OBVIOUS
    <3> HIDE DEF Bad
    <3> QED
      BY <3>1, LBP!LeastNat, Sizes
  <2>2. m \in Nat /\ m <= N /\ h[m] # mq
    OBVIOUS
  <2>3. m # 0
    BY <1>3, <2>2
  <2>4. m \in 1 .. N /\ m - 1 \in Nat /\ ~(m <= m - 1) /\ m - 1 <= N
    BY <2>2, <2>3
  <2>5. m - 1 \notin Bad
    BY <2>1, <2>4
  <2> QED
    BY <1>3, <2>2, <2>4, <2>5
<1> QED
  BY <1>2, <1>4

\* What a step of a receiver does to the queue, seen from the others.
Trim(r) ==
    /\ \A i \in Queued' : i \in Queued
    /\ \A i \in Slots : entries'[i].sn = entries[i].sn
    /\ \A q \in Registered : q # r => /\ \A i \in Queued' : Read(q, i)' <=> Read(q, i)
                                      /\ \A i \in Queued : i \notin Queued' => Read(q, i)
    /\ \/ mq' = mq
       \/ \E x \in Queued : /\ \A i \in Queued : i \notin Queued' <=> Sn(i) <= Sn(x)
                            /\ F' # << >> /\ F'[Len(F')] = x
                            /\ mq'.next[x] \in {End, mq'.activeBegin}

LEMMA Trimmed ==
  ASSUME IInv, FollowInv, [Next]_vars, NEW r \in Receivers, Reading(r) \/ Membership(r)
  PROVE  Trim(r)
<1>0. Types /\ Linked /\ RcvrsInv /\ FlagsInv /\ Ascending /\ entries \in [Slots -> Entry] /\ Queued \subseteq Slots /\ Linked'
  BY LinkedFacts, LinkedKept DEF IInv, Types
<1>1. /\ \A i \in Queued' : i \in Queued
      /\ \A i \in Slots : entries'[i].sn = entries[i].sn
      /\ InOrderOf(U, U')
  BY Trims
<1>2. \A q \in Registered : q # r => q \in Receivers /\ slotOf'[q] = slotOf[q] /\ slotOf[q] # End /\ slotOf[q] # slotOf[r]
  <2>1. \A q \in Registered : q \in Receivers /\ slotOf[q] # End
    BY DEF Registered
  <2>2. \A q \in Registered : q # r => slotOf'[q] = slotOf[q]
    BY <1>0, <2>1, OneReceiver
  <2>3. \A q \in Registered : q # r => slotOf[q] # slotOf[r]
    BY <1>0, <2>1 DEF RcvrsInv, Registered
  <2> QED
    BY <2>1, <2>2, <2>3
<1>3. ToSet(rcvrs.used) = {slotOf[q] : q \in Registered}
  BY <1>0 DEF RcvrsInv
<1>4. /\ Len(U) \in Nat /\ Injective(U) /\ Queued = {U[k] : k \in 1 .. Len(U)} /\ \A k \in 1 .. Len(U) : U[k] \in Queued
      /\ Len(F) \in Nat
  BY <1>0, LinkedFacts
<1>5. Layout(mq', U', F')
  BY <1>0, ShapeFacts DEF Linked
<1>6. /\ Queued' = {U'[k] : k \in 1 .. Len(U')} /\ Len(U') \in Nat /\ mq'.activeBegin = After(U', 1)
  <2>1. Queued' = ToSet(U')
    BY DEF Queued, LB!Used, U, LB!Range, ToSet
  <2> QED
    BY <1>5, <2>1, Zenon DEF Layout
<1>7. CASE mq' = mq /\ entries' = entries
  <2>1. Queued' = Queued
    BY <1>7, LinkedSame
  <2> QED
    BY <1>1, <1>2, <1>7, <2>1 DEF Trim, Read
<1>8. CASE markRead(r)
  <2> DEFINE c == rcv[r].curit
             id == slotOf[r]
             fl(i) == entries[i].readFlags
  <2>0. c \in Queued => rcv[r].pc = "mark" /\ r \in Registered /\ Sn(c) = Upto(r) /\ \A i \in Queued : Read(r, i) <=> Sn(i) < Upto(r)
    <3>1. rcv[r].pc = "mark"
      BY <1>8 DEF markRead, ReceiverAt
    <3>2. r \in Registered
      BY <1>0, <3>1, Listed
    <3>3. Follows(r)
      BY <3>2 DEF FollowInv
    <3> QED
      BY <3>1, <3>2, <3>3 DEF Follows
  <2>1. /\ c \in Slots
        /\ \/ UNCHANGED <<mq, entries>>
           \/ /\ c \in Queued /\ ~Read(r, c)
              /\ entries' = [entries EXCEPT ![c].readFlags = @ \cup {id}, ![c].numRead = @ + 1]
              /\ \/ mq' = LB!erase(mq, c) /\ fl(c) \cup {id} = ToSet(rcvrs.used)
                 \/ mq' = mq
    BY <1>8, Marks
  <2> HIDE DEF c, id
  <2>2. CASE UNCHANGED <<mq, entries>>
    BY <1>7, <2>2
  <2>3. CASE /\ c \in Queued /\ ~Read(r, c)
             /\ entries' = [entries EXCEPT ![c].readFlags = @ \cup {id}, ![c].numRead = @ + 1]
             /\ \/ mq' = LB!erase(mq, c) /\ fl(c) \cup {id} = ToSet(rcvrs.used)
                \/ mq' = mq
    <3>1. \A i \in Slots : i # c => entries'[i] = entries[i]
      BY <1>0, <2>1, <2>3
    <3>2. entries'[c].readFlags = fl(c) \cup {id}
      BY <1>0, <2>1, <2>3 DEF Entry
    <3>3. \A q \in Registered : q # r => \A i \in Queued' : Read(q, i)' <=> Read(q, i)
      BY <1>0, <1>1, <1>2, <3>1, <3>2 DEF Read, id
    <3>4. CASE mq' = mq
      <4>1. Queued' = Queued
        BY <3>4, LinkedSame
      <4> QED
        BY <1>1, <3>3, <3>4, <4>1 DEF Trim
    <3>5. CASE mq' = LB!erase(mq, c) /\ fl(c) \cup {id} = ToSet(rcvrs.used)
      <4>1. \A q \in Registered : q # r => Read(q, c)
        BY <1>2, <1>3, <3>5 DEF Read, id
      <4>2. PICK k \in 1 .. Len(U) : c = U[k] /\ Without(U, k, U') /\ mq'.next[c] = After(U, k + 1)
        BY <1>0, <2>3, <3>5, ListErases
      <4>3. Queued' = Queued \ {c} /\ Grown(F, c, F')
        BY <1>0, <2>3, <3>5, ListErases
      <4>4. \A i \in Queued : Sn(i) \in Nat
        BY <1>0 DEF Sn, Entry
      <4>5. \A i \in Queued : Sn(i) <= Sn(c) => i = c
        <5> SUFFICES ASSUME NEW i \in Queued, Sn(i) <= Sn(c), i # c PROVE FALSE
          OBVIOUS
        <5>1. Sn(i) # Sn(c)
          <6>1. PICK j \in 1 .. Len(U) : i = U[j]
            BY <1>4
          <6>2. j < k \/ k < j
            BY <1>4, <4>2, <6>1
          <6> QED
            BY <1>0, <2>3, <4>2, <4>4, <6>1, <6>2 DEF Ascending
        <5>2. Read(r, i)
          BY <2>0, <2>3, <4>4, <5>1
        <5>3. PICK q \in Registered : ~Read(q, i)
          BY <2>0, <2>3, StillRead
        <5>4. Read(q, c)
          BY <4>1, <5>2, <5>3
        <5> QED
          BY <2>3, <5>3, <5>4, Earlier
      <4>6. k = 1
        <5>1. 1 \in 1 .. Len(U) /\ (k = 1 \/ 1 < k)
          BY <1>4
        <5>2. U[1] = c => k = 1
          BY <1>4, <4>2, <5>1 DEF Injective
        <5>3. 1 < k => Sn(U[1]) < Sn(c)
          BY <1>0, <4>2, <5>1 DEF Ascending
        <5>4. U[1] \in Queued
          BY <1>4, <5>1
        <5> QED
          BY <2>3, <4>4, <4>5, <5>1, <5>2, <5>3, <5>4
      <4>7. mq'.next[c] \in {End, mq'.activeBegin}
        <5>1. mq'.next[c] = After(U, 2)
          BY <4>2, <4>6
        <5>2. CASE Len(U) >= 2
          <6>1. 2 \in 1 .. Len(U) /\ 1 \in 1 .. Len(U) - 1 /\ ~(1 < 1)
            BY <1>4, <5>2
          <6>2. Len(U') = Len(U) - 1 /\ U'[1] = U[2]
            BY <4>2, <4>6, <6>1 DEF Without
          <6> QED
            BY <1>6, <5>1, <6>1, <6>2 DEF After
        <5>3. CASE ~(Len(U) >= 2)
          <6>1. 2 \notin 1 .. Len(U)
            BY <1>4, <5>3
          <6> QED
            BY <5>1, <6>1 DEF After
        <5> QED
          BY <5>2, <5>3
      <4>8. F' # << >> /\ F'[Len(F')] = c
        <5>1. Len(F') = Len(F) + 1 /\ F'[Len(F) + 1] = c
          BY <4>3 DEF Grown
        <5> QED
          BY <1>4, <5>1
      <4>9. \A i \in Queued : i \notin Queued' <=> Sn(i) <= Sn(c)
        BY <2>3, <4>3, <4>4, <4>5
      <4>10. \A q \in Registered : q # r => \A i \in Queued : i \notin Queued' => Read(q, i)
        BY <4>1, <4>3
      <4> QED
        BY <1>1, <2>3, <3>3, <4>7, <4>8, <4>9, <4>10 DEF Trim
    <3> QED
      BY <2>3, <3>4, <3>5
  <2> QED
    BY <2>1, <2>2, <2>3
<1>9. CASE removeReceiver(r)
  <2> DEFINE id == slotOf[r]
  <2>1. /\ r \in Registered /\ id \in ToSet(rcvrs.used) /\ mq' = EraseSlots(Done(r))
        /\ entries' = [i \in Slots |-> IF i \in Queued THEN Forget(entries[i], id) ELSE entries[i]]
    BY <1>9, Leaves
  <2>2. Done(r) \in SUBSET Queued
    BY DEF Done
  <2>3. Queued' = Queued \ Done(r) /\ Pruned(U, F, Done(r), Len(U), mq', U', F')
    BY <1>0, <2>1, <2>2, ListPrunes
  <2>4. \A q \in Registered : q # r => \A i \in Queued' : Read(q, i)' <=> Read(q, i)
    <3>1. \A q \in Registered : q # r => slotOf'[q] # id
      BY <1>2
    <3> HIDE DEF id
    <3>2. \A i \in Queued : \A y : y # id => (y \in entries'[i].readFlags <=> y \in entries[i].readFlags)
      BY <1>0, <2>1 DEF Forget, Entry
    <3> QED
      BY <1>1, <1>2, <3>1, <3>2 DEF Read
  <2>5. \A q \in Registered : q # r => \A i \in Done(r) : Read(q, i)
    BY <1>2, <1>3 DEF Done, Read
  <2>6. \A i \in Queued : Sn(i) \in Nat
    BY <1>0 DEF Sn, Entry
  <2>7. ASSUME NEW i \in Done(r), NEW j \in Queued, Sn(j) <= Sn(i) PROVE j \in Done(r)
    <3>1. i \in Queued /\ ~Read(r, i)
      BY <2>7 DEF Done
    <3>2. \A q \in Registered : q # r => Read(q, j)
      BY <2>5, <2>7, <3>1, Earlier
    <3>3. ~Read(r, j)
      BY <2>1, <3>2, StillRead
    <3>4. entries[j].readFlags \subseteq ToSet(rcvrs.used)
      BY <1>0 DEF FlagsInv
    <3>5. entries[j].readFlags \cup {id} = ToSet(rcvrs.used)
      BY <1>3, <2>1, <3>2, <3>4 DEF Read
    <3> QED
      BY <3>3, <3>5 DEF Done
  <2>8. CASE Done(r) = {}
    <3>1. mq' = mq
      BY <1>4, <2>1, <2>8, ErasesNothing DEF U
    <3> QED
      BY <1>1, <2>3, <2>4, <2>8, <3>1 DEF Trim
  <2>9. CASE Done(r) # {}
    <3> DEFINE D == Done(r)
    <3>1. /\ Len(F') \in Nat /\ Len(F') >= Len(F) /\ \A i \in 1 .. Len(F) : F'[i] = F[i]
          /\ Len(F') > Len(F) =>
                \E j \in 1 .. Len(U) : /\ U[j] \in D /\ F'[Len(F')] = U[j] /\ mq'.next[U[j]] = After(U, j + 1)
                                        /\ \A i \in j + 1 .. Len(U) : U[i] \notin D
      <4>1. Len(F') \in Nat
        BY <1>5, Zenon DEF Layout
      <4> QED
        BY <2>3, <4>1 DEF Pruned
    <3>2. Len(F') > Len(F)
      <4> SUFFICES ASSUME Len(F') = Len(F) PROVE FALSE
        BY <1>4, <3>1
      <4>1. ToSet(F') = ToSet(F) \cup D
        BY <1>0, <2>1, <2>2, ListPrunes
      <4>2. ToSet(F') = {F'[k] : k \in 1 .. Len(F')}
        BY <1>5, Zenon DEF Layout
      <4>3. ToSet(F) = {F[k] : k \in 1 .. Len(F)} /\ Queued \cap ToSet(F) = {}
        BY <1>0, LinkedFacts
      <4>4. ToSet(F') = ToSet(F)
        BY <3>1, <4>2, <4>3
      <4> QED
        BY <2>2, <2>9, <4>1, <4>3, <4>4
    <3>3. PICK j \in 1 .. Len(U) : /\ U[j] \in D /\ F'[Len(F')] = U[j] /\ mq'.next[U[j]] = After(U, j + 1)
                                   /\ \A i \in j + 1 .. Len(U) : U[i] \notin D
      BY <3>1, <3>2
    <3> DEFINE x == U[j]
    <3>4. x \in Queued
      BY <1>4
    <3>5. \A i \in Queued : i \notin Queued' <=> Sn(i) <= Sn(x)
      <4> SUFFICES ASSUME NEW i \in Queued PROVE i \in D <=> Sn(i) <= Sn(x)
        BY <2>3
      <4>1. PICK k \in 1 .. Len(U) : i = U[k]
        BY <1>4
      <4>2. Sn(i) <= Sn(x) => i \in D
        BY <2>7, <3>3
      <4>3. CASE k > j
        <5>1. k \in j + 1 .. Len(U) /\ j < k
          BY <1>4, <4>3
        <5>2. Sn(x) < Sn(i)
          BY <1>0, <4>1, <5>1 DEF Ascending
        <5> QED
          BY <2>6, <3>3, <3>4, <4>1, <5>1, <5>2
      <4>4. CASE ~(k > j)
        <5>1. k = j \/ k < j
          BY <1>4, <4>4
        <5>2. Sn(i) <= Sn(x)
          BY <1>0, <2>6, <3>4, <4>1, <5>1 DEF Ascending
        <5> QED
          BY <4>2, <5>2
      <4> QED
        BY <4>3, <4>4
    <3>6. mq'.next[x] \in {End, mq'.activeBegin}
      <4>1. CASE j + 1 \notin 1 .. Len(U)
        BY <3>3, <4>1 DEF After
      <4>2. CASE j + 1 \in 1 .. Len(U)
        <5> DEFINE y == U[j + 1]
        <5>1. j < j + 1 /\ j + 1 \in j + 1 .. Len(U)
          BY <1>4, <4>2
        <5>2. y \in Queued'
          BY <1>4, <2>3, <3>3, <4>2, <5>1
        <5>3. PICK b \in 1 .. Len(U') : y = U'[b]
          BY <1>6, <5>2
        <5>4. 1 \in 1 .. Len(U') /\ (b = 1 \/ 1 < b)
          BY <1>6
        <5>5. CASE 1 < b
          <6>1. PICK j1 \in 1 .. Len(U), k1 \in 1 .. Len(U) : j1 < k1 /\ U'[1] = U[j1] /\ U'[b] = U[k1]
            BY <1>1, <5>4, <5>5 DEF InOrderOf
          <6>2. k1 = j + 1
            BY <1>4, <4>2, <5>3, <6>1 DEF Injective
          <6>3. j1 = j \/ j1 < j
            BY <1>4, <6>1, <6>2
          <6>4. Sn(U[j1]) <= Sn(x)
            <7>1. Sn(U[j1]) \in Nat /\ Sn(x) \in Nat
              BY <1>4, <2>6, <3>4
            <7>2. j1 < j => Sn(U[j1]) < Sn(x)
              BY <1>0 DEF Ascending
            <7> QED
              BY <6>3, <7>1, <7>2
          <6>5. U'[1] \in Queued'
            BY <1>6, <5>4
          <6> QED
            BY <1>4, <3>5, <6>1, <6>4, <6>5
        <5>6. CASE b = 1
          BY <1>6, <3>3, <4>2, <5>3, <5>4, <5>6 DEF After
        <5> QED
          BY <5>4, <5>5, <5>6
      <4> QED
        BY <4>1, <4>2
    <3>7. F' # << >>
      <4>1. Len(F') # 0
        BY <1>4, <3>1, <3>2
      <4> QED
        BY <4>1
    <3>8. \A q \in Registered : q # r => \A i \in Queued : i \notin Queued' => Read(q, i)
      BY <2>3, <2>5
    <3> HIDE DEF x
    <3>9. F'[Len(F')] = x
      BY <3>3 DEF x
    <3> QED
      BY <1>1, <2>4, <3>4, <3>5, <3>6, <3>7, <3>8, <3>9 DEF Trim
  <2> QED
    BY <2>8, <2>9
<1>10. CASE ~markRead(r) /\ ~removeReceiver(r)
  <2>1. mq' = mq /\ entries' = entries
    BY <1>10 DEF Reading, Membership, waitNextMessage, peekNextMessage, readNumber, advance, release,
                addReceiver, start, finish, joined, queueVars
  <2> QED
    BY <1>7, <2>1
<1> QED
  BY <1>8, <1>9, <1>10
LEMMA TwoOrMore ==
  ASSUME NEW a \in Nat, a # 0, a # 1
  PROVE  a \in 2 .. a /\ a - 1 \in 1 .. a - 1 /\ a - 1 + 1 = a /\ a - 1 # 0
OBVIOUS

\* A message that comes in while there is room.
LEMMA FollowPosts ==
  ASSUME IInv, FollowInv, NEW s \in Senders, NEW m \in Regions, WithRoom(s, m),
         UNCHANGED <<rcvrs, slotOf, rcv, got>>
  PROVE  FollowInv'
<1>0. /\ Types /\ Linked /\ RcvrsInv /\ SentInv /\ entries \in [Slots -> Entry] /\ Queued \subseteq Slots
      /\ numMessages \in Nat /\ \A i \in Slots : Sn(i) \in Nat
  BY LinkedFacts DEF IInv, Types, Entry, Sn
<1>9. PICK x : x = F[1]
  OBVIOUS
<1>1. /\ mq.freeBegin = F[1] /\ x \in Slots /\ x \notin Queued
      /\ Grown(U, x, U') /\ Without(F, 1, F') /\ Queued' = Queued \cup {x} /\ Linked'
      /\ \A k \in 2 .. Len(F) : mq'.next[F[k]] = mq.next[F[k]]
  BY <1>0, <1>9, ListPosts DEF WithRoom
<1>2. /\ entries' = [entries EXCEPT ![x] = [msg |-> m, sn |-> numMessages, readFlags |-> {}, numRead |-> 0]]
      /\ numMessages' = numMessages + 1 /\ posted' = Append(posted, m)
      /\ sem' = [r \in Receivers |-> IF r \in Registered THEN sem[r] + 1 ELSE sem[r]]
  BY <1>9 DEF WithRoom, Posted
<1>3. /\ Len(U) \in Nat /\ Len(F) \in Nat \ {0} /\ Queued = {U[k] : k \in 1 .. Len(U)}
      /\ \A k \in 1 .. Len(U) : U[k] \in Queued
  <2>1. Len(F) # 0
    BY EmptySeq, LinkedFacts, <1>0 DEF WithRoom
  <2> QED
    BY <1>0, <2>1, LinkedFacts
<1>4. /\ Sn(x)' = numMessages /\ entries'[x].readFlags = {}
      /\ \A i \in Slots : i # x => entries'[i] = entries[i]
      /\ \A i \in Queued : i # x /\ entries'[i] = entries[i] /\ Sn(i)' = Sn(i) /\ Sn(i) < numMessages
  <2>1. entries'[x] = [msg |-> m, sn |-> numMessages, readFlags |-> {}, numRead |-> 0]
    BY <1>0, <1>1, <1>2
  <2>2. \A i \in Slots : i # x => entries'[i] = entries[i]
    BY <1>0, <1>2
  <2>3. \A i \in Queued : Sn(i) < numMessages
    BY <1>0 DEF SentInv
  <2> QED
    BY <1>0, <1>1, <2>1, <2>2, <2>3 DEF Sn
<1>5. \A n \in Int : There(n) \/ n = numMessages => There(n)'
  BY <1>1, <1>4 DEF There
<1>6. Contiguous'
  <2> SUFFICES ASSUME NEW i \in Queued', NEW n \in Sn(i)' .. numMessages' - 1 PROVE There(n)'
    BY DEF Contiguous
  <2>1. CASE n = numMessages
    BY <1>0, <1>5, <2>1
  <2>2. CASE n # numMessages
    <3>0. Sn(i)' \in Nat
      BY <1>0, <1>1, <1>4
    <3>1. n \in Sn(i)' .. numMessages - 1
      BY <1>0, <1>2, <2>2, <3>0
    <3>2. i \in Queued /\ Sn(i)' = Sn(i)
      BY <1>0, <1>1, <1>4, <3>1
    <3>3. There(n)
      BY <3>1, <3>2 DEF FollowInv, Contiguous
    <3> QED
      BY <1>5, <3>1, <3>3
  <2> QED
    BY <2>1, <2>2
<1>7. ASSUME NEW q \in Registered' PROVE Follows(q)' /\ Given(q)' /\ Awake(q)'
  <2>12. PICK c, n, pc : c = rcv[q].curit /\ n = rcv[q].nextMessage /\ pc = rcv[q].pc
    OBVIOUS
  <2>1. /\ q \in Receivers /\ q \in Registered /\ rcv' = rcv /\ got' = got /\ slotOf' = slotOf
        /\ Follows(q) /\ Given(q)
    BY DEF Registered, FollowInv
  <2>2. rcv[q] \in RcvState /\ n \in Nat /\ n <= numMessages /\ sem[q] \in Nat
    BY <1>0, <2>1, <2>12 DEF Types, RcvState, Follows
  <2>3. pc \in {"number", "mark"} => c \in Queued /\ Sn(c) = Upto(q) /\ Sn(c)' = Sn(c) /\ Sn(c) \in Nat /\ Sn(c) < numMessages
    BY <1>0, <1>4, <2>1, <2>12 DEF Follows
  <2>4. Upto(q)' = Upto(q) /\ Reached(q)' = Reached(q) /\ Upto(q) \in Int /\ Upto(q) <= numMessages
        /\ Reached(q) \in Int /\ Reached(q) <= numMessages
    BY <1>0, <2>1, <2>2, <2>3, <2>12 DEF Upto, Reached
  <2>5. \A i \in Queued : Read(q, i)' <=> Read(q, i)
    BY <1>4, <2>1 DEF Read
  <2>6. \A i \in Queued' : Read(q, i)' <=> Sn(i)' < Upto(q)'
    <3>1. ~Read(q, x)' /\ ~(Sn(x)' < Upto(q)')
      BY <1>0, <1>4, <2>4 DEF Read
    <3>2. \A i \in Queued : Read(q, i) <=> Sn(i) < Upto(q)
      BY <2>1 DEF Follows
    <3> QED
      BY <1>1, <1>4, <2>4, <2>5, <3>1, <3>2
  <2>7. AtNext(q) => AtNext(q)'
    <3> SUFFICES ASSUME AtNext(q), c # End
                 PROVE  c \in Queued' /\ Sn(c)' >= n /\ \A i \in Queued' : Sn(i)' < Sn(c)' => Sn(i)' < n
      BY <2>1, <2>12 DEF AtNext
    <3>1. c \in Queued /\ Sn(c) >= n /\ \A i \in Queued : Sn(i) < Sn(c) => Sn(i) < n
      BY <2>12 DEF AtNext
    <3>2. c \in Queued' /\ Sn(c)' = Sn(c) /\ Sn(c) < numMessages /\ Sn(c) \in Nat
      BY <1>0, <1>1, <1>4, <3>1
    <3> QED
      BY <1>0, <1>1, <1>4, <3>1, <3>2
  <2>8. AtMarked(q) => AtMarked(q)'
    <3>1. CASE c \in Queued /\ Sn(c) = n - 1
      <4>1. c \in Queued' /\ Sn(c)' = n - 1
        BY <1>1, <1>4, <3>1
      <4> QED
        BY <2>1, <2>12, <4>1 DEF AtMarked
    <3>2. CASE /\ \A i \in Queued : Sn(i) >= n
               /\ c = F[Len(F)] /\ mq.next[c] \in {End, mq.activeBegin}
      <4>1. \A i \in Queued' : Sn(i)' >= n
        BY <1>0, <1>1, <1>4, <2>2, <3>2
      <4>2. Len(F') = Len(F) - 1 /\ \A k \in 1 .. Len(F) - 1 : F'[k] = F[k + 1]
        <5>1. \A k \in 1 .. Len(F) - 1 : ~(k < 1)
          BY <1>3
        <5> QED
          BY <1>1, <5>1 DEF Without
      <4>3. Len(U') = Len(U) + 1 /\ U'[Len(U) + 1] = x /\ \A k \in 1 .. Len(U) : U'[k] = U[k]
        BY <1>1 DEF Grown
      <4>4. CASE Len(F) = 1
        <5>1. F' = << >>
          <6>1. F' \in Seq(Slots)
            BY <1>1, ShapeFacts DEF Layout, Linked
          <6> QED
            BY <1>3, <4>2, <4>4, <6>1, EmptySeq
        <5>2. c = U'[Len(U')]
          BY <1>3, <1>9, <3>2, <4>3, <4>4
        <5> QED
          BY <2>1, <2>12, <4>1, <5>1, <5>2 DEF AtMarked
      <4>5. CASE Len(F) # 1
        <5>1. Len(F) \in 2 .. Len(F) /\ Len(F) - 1 \in 1 .. Len(F) - 1 /\ Len(F) - 1 + 1 = Len(F) /\ Len(F) - 1 # 0
          <6>1. Len(F) \in Nat /\ Len(F) # 0
            BY <1>3
          <6> QED
            BY <4>5, <6>1, TwoOrMore
        <5>2. F' # << >> /\ F'[Len(F')] = c
          <6>1. F'[Len(F')] = F[Len(F)]
            BY <4>2, <5>1
          <6>2. Len(F') # 0
            BY <4>2, <5>1
          <6> QED
            BY <3>2, <6>1, <6>2
        <5>3. mq'.next[c] = mq.next[c]
          BY <1>1, <3>2, <5>1
        <5>4. mq.activeBegin = End \/ mq'.activeBegin = mq.activeBegin
          <6>1. mq.activeBegin = After(U, 1) /\ mq'.activeBegin = After(U', 1)
            <7>1. Layout(mq, U, F) /\ Layout(mq', U', F')
              BY <1>0, <1>1, ShapeFacts DEF Linked
            <7> QED
              BY <7>1, Zenon DEF Layout
          <6>2. 1 \in 1 .. Len(U) => 1 \in 1 .. Len(U')
            BY <1>3, <4>3
          <6> QED
            BY <4>3, <6>1, <6>2 DEF After
        <5>5. mq'.next[c] \in {End, mq'.activeBegin}
          BY <3>2, <5>3, <5>4
        <5> QED
          BY <2>1, <2>12, <4>1, <5>2, <5>5 DEF AtMarked
      <4> QED
        BY <4>4, <4>5
    <3> QED
      BY <2>12, <3>1, <3>2 DEF AtMarked, WithRoom
  <2>9. Follows(q)'
    <3>1. n <= numMessages'
      BY <1>0, <1>2, <2>2
    <3>2. pc \in {"number", "mark"} => c \in Queued' /\ Sn(c)' = Upto(q)'
      BY <1>1, <2>3, <2>4
    <3>3. pc = "number" => Sn(c)' >= n
      BY <2>1, <2>3, <2>12 DEF Follows
    <3>4. (pc \notin {"number", "mark", "advance"} => AtNext(q)') /\ (pc = "advance" => AtMarked(q)')
      BY <2>1, <2>7, <2>8, <2>12 DEF Follows
    <3> QED
      BY <2>1, <2>6, <2>12, <3>1, <3>2, <3>3, <3>4 DEF Follows
  <2>10. Given(q)'
    <3>1. got[q] = << >> => n = 0 /\ pc \notin {"number", "mark", "advance", "release"}
      BY <2>1, <2>12 DEF Given
    <3>2. ASSUME got[q] # << >>
          PROVE  /\ Reached(q)' >= 1 /\ posted'[Reached(q)'] = got[q][Len(got[q])]
                 /\ \A k \in Upto(q)' .. numMessages' - 1 : There(k)'
      <4>1. /\ Reached(q) >= 1 /\ posted[Reached(q)] = got[q][Len(got[q])]
            /\ \A k \in Upto(q) .. numMessages - 1 : There(k)
        BY <2>1, <3>2 DEF Given
      <4>2. Reached(q) \in 1 .. Len(posted) /\ posted \in Seq(Regions)
        BY <1>0, <2>4, <4>1 DEF Types
      <4>3. posted'[Reached(q)] = posted[Reached(q)]
        BY <1>2, <4>2, AppendProperties
      <4>4. \A k \in Upto(q) .. numMessages' - 1 : k \in Int /\ (k = numMessages \/ k \in Upto(q) .. numMessages - 1)
        BY <1>0, <1>2, <2>4
      <4> QED
        BY <1>5, <2>4, <4>1, <4>3, <4>4
    <3> QED
      BY <2>1, <2>12, <3>1, <3>2 DEF Given
  <2>11. Awake(q)'
    <3>1. sem'[q] = sem[q] + 1
      BY <1>2, <2>1
    <3>2. sem'[q] > 0
      BY <2>2, <3>1
    <3> QED
      BY <3>2 DEF Awake
  <2> QED
    BY <2>9, <2>10, <2>11
<1> QED
  BY <1>6, <1>7 DEF FollowInv
\* What the others do to the queue is nothing to a receiver.
LEMMA FollowOthers ==
  ASSUME IInv, FollowInv, [Next]_vars, NEW r \in Receivers, Reading(r) \/ Membership(r),
         NEW q \in Registered, q # r
  PROVE  Follows(q)' /\ Given(q)' /\ Awake(q)'
<1>0. /\ Types /\ Linked /\ entries \in [Slots -> Entry] /\ Queued \subseteq Slots /\ q \in Receivers
      /\ \A i \in Slots : Sn(i) \in Nat
  BY LinkedFacts DEF IInv, Types, Entry, Sn, Registered
<1>1. /\ rcv'[q] = rcv[q] /\ slotOf'[q] = slotOf[q] /\ got'[q] = got[q] /\ sem'[q] = sem[q]
      /\ posted' = posted /\ numMessages' = numMessages
  BY <1>0, OneReceiver, SendersAlone
<1>2. PICK c, n, pc : c = rcv[q].curit /\ n = rcv[q].nextMessage /\ pc = rcv[q].pc
  OBVIOUS
<1>3. /\ n \in Nat /\ pc = rcv[q].pc /\ n <= numMessages /\ c \in Slots \cup {End}
      /\ Follows(q) /\ Given(q) /\ Awake(q)
  <2>1. rcv[q] \in RcvState /\ Follows(q) /\ Given(q) /\ Awake(q)
    BY <1>0 DEF Types, FollowInv
  <2> QED
    BY <1>2, <2>1 DEF RcvState, Follows
<1>4. Trim(r)
  BY Trimmed
<1>5. /\ \A i \in Queued' : i \in Queued /\ Sn(i)' = Sn(i) /\ (Read(q, i)' <=> Read(q, i))
      /\ \A i \in Slots : Sn(i)' = Sn(i)
      /\ \A i \in Queued : i \notin Queued' => Read(q, i)
  BY <1>0, <1>4 DEF Trim, Sn
<1>6. pc \in {"number", "mark"} => c \in Queued /\ Sn(c) = Upto(q) /\ Sn(c)' = Sn(c) /\ Sn(c) \in Nat
  BY <1>0, <1>2, <1>3, <1>5 DEF Follows
<1>7. /\ Upto(q)' = Upto(q) /\ Reached(q)' = Reached(q) /\ Upto(q) \in Int
      /\ pc \notin {"number", "mark"} => Upto(q) = n
  BY <1>1, <1>2, <1>3, <1>6 DEF Upto, Reached
<1>8. \A i \in Queued : /\ Read(q, i) <=> Sn(i) < Upto(q)
                        /\ Sn(i) >= Upto(q) => i \in Queued'
  <2>1. \A i \in Queued : Read(q, i) <=> Sn(i) < Upto(q)
    BY <1>3 DEF Follows
  <2> QED
    BY <1>0, <1>5, <1>7, <2>1
<1>9. Follows(q)'
  <2>1. \A i \in Queued' : Read(q, i)' <=> Sn(i)' < Upto(q)'
    BY <1>5, <1>7, <1>8
  <2>2. pc \in {"number", "mark"} => c \in Queued' /\ Sn(c)' = Upto(q)'
    BY <1>6, <1>7, <1>8
  <2>3. pc = "number" => Sn(c)' >= n
    BY <1>2, <1>3, <1>6 DEF Follows
  <2>4. pc \notin {"number", "mark", "advance"} => AtNext(q)'
    <3> SUFFICES ASSUME pc \notin {"number", "mark", "advance"}, c # End
                 PROVE  c \in Queued' /\ Sn(c)' >= n /\ \A i \in Queued' : Sn(i)' < Sn(c)' => Sn(i)' < n
      BY <1>1, <1>2 DEF AtNext
    <3>1. c \in Queued /\ Sn(c) >= n /\ \A i \in Queued : Sn(i) < Sn(c) => Sn(i) < n
      BY <1>2, <1>3 DEF Follows, AtNext
    <3> QED
      BY <1>0, <1>5, <1>7, <1>8, <3>1
  <2>5. pc = "advance" => AtMarked(q)'
    <3> SUFFICES ASSUME pc = "advance" PROVE AtMarked(q)'
      OBVIOUS
    <3>1. AtMarked(q) /\ Upto(q) = n
      BY <1>2, <1>3, <1>7 DEF Follows
    <3>2. CASE mq' = mq
      <4>1. U' = U /\ F' = F /\ Queued' = Queued
        BY <3>2, LinkedSame
      <4> QED
        BY <1>0, <1>1, <1>5, <3>1, <3>2, <4>1 DEF AtMarked
    <3>3. ASSUME NEW x \in Queued, \A i \in Queued : i \notin Queued' <=> Sn(i) <= Sn(x),
                 F' # << >>, F'[Len(F')] = x, mq'.next[x] \in {End, mq'.activeBegin}
          PROVE  AtMarked(q)'
      <4>1. x \notin Queued' /\ Sn(x) < n /\ Sn(x) \in Nat
        BY <1>0, <1>5, <1>8, <3>1, <3>3
      <4>2. c \in Queued /\ Sn(c) = n - 1
        BY <1>0, <1>2, <1>3, <3>1, <3>3, <4>1 DEF AtMarked
      <4>3. CASE c \in Queued'
        <5>1. Sn(c)' = n - 1
          BY <1>5, <4>2, <4>3
        <5> QED
          BY <1>1, <1>2, <4>3, <5>1 DEF AtMarked
      <4>4. CASE c \notin Queued'
        <5>1. Sn(c) <= Sn(x) /\ Sn(c) \in Nat
          BY <1>0, <3>3, <4>2, <4>4
        <5>2. Sn(x) = n - 1
          BY <1>3, <4>1, <4>2, <5>1
        <5>3. c = x
          <6>1. Len(U) \in Nat /\ Queued = {U[k] : k \in 1 .. Len(U)} /\ Ascending
            BY <1>0, LinkedFacts DEF IInv
          <6>2. PICK j \in 1 .. Len(U), k \in 1 .. Len(U) : c = U[j] /\ x = U[k]
            BY <4>2, <6>1
          <6>3. j = k \/ j < k \/ k < j
            OBVIOUS
          <6> QED
            BY <4>1, <4>2, <5>2, <6>1, <6>2, <6>3 DEF Ascending
        <5>4. \A i \in Queued' : Sn(i)' >= n
          BY <1>0, <1>3, <1>5, <3>3, <5>2
        <5> QED
          BY <1>1, <1>2, <3>3, <5>3, <5>4 DEF AtMarked
      <4> QED
        BY <4>3, <4>4
    <3> QED
      BY <1>4, <3>2, <3>3 DEF Trim
  <2> QED
    BY <1>1, <1>2, <1>3, <2>1, <2>2, <2>3, <2>4, <2>5 DEF Follows
<1>10. Given(q)'
  <2>1. got[q] = << >> => n = 0 /\ pc \notin {"number", "mark", "advance", "release"}
    BY <1>2, <1>3 DEF Given
  <2>2. ASSUME got[q] # << >>
        PROVE  /\ Reached(q)' >= 1 /\ posted'[Reached(q)'] = got[q][Len(got[q])]
               /\ \A k \in Upto(q)' .. numMessages' - 1 : There(k)'
    <3>1. /\ Reached(q) >= 1 /\ posted[Reached(q)] = got[q][Len(got[q])]
          /\ \A k \in Upto(q) .. numMessages - 1 : There(k)
      BY <1>3, <2>2 DEF Given
    <3>2. ASSUME NEW k \in Upto(q) .. numMessages - 1 PROVE There(k)'
      <4>1. PICK j \in Queued : Sn(j) = k
        BY <3>1, <3>2 DEF There
      <4>2. j \in Queued' /\ Sn(j)' = k
        <5>1. j \in Slots
          BY <1>0
        <5>2. Sn(j) >= Upto(q)
          BY <1>7, <3>2, <4>1
        <5> QED
          BY <1>5, <1>8, <4>1, <5>1, <5>2
      <4> QED
        BY <4>2 DEF There
    <3> QED
      BY <1>1, <1>7, <3>1, <3>2
  <2> QED
    BY <1>1, <1>2, <2>1, <2>2 DEF Given
<1>11. Awake(q)'
  BY <1>1, <1>3, <1>5 DEF Awake
<1> QED
  BY <1>9, <1>10, <1>11
LEMMA ContiguousStays ==
  ASSUME IInv, FollowInv, [Next]_vars, NEW r \in Receivers, Reading(r) \/ Membership(r)
  PROVE  Contiguous'
<1>0. /\ entries \in [Slots -> Entry] /\ Queued \subseteq Slots /\ numMessages' = numMessages /\ numMessages \in Nat
      /\ \A i \in Slots : Sn(i) \in Nat
  BY LinkedFacts, SendersAlone DEF IInv, Types, Entry, Sn
<1>1. Trim(r)
  BY Trimmed
<1>2. \A i \in Queued' : i \in Queued /\ Sn(i)' = Sn(i)
  BY <1>0, <1>1 DEF Trim, Sn
<1>3. ASSUME NEW i \in Queued', NEW j \in Queued, Sn(i) <= Sn(j) PROVE j \in Queued'
  <2>1. CASE mq' = mq
    BY <2>1, LinkedSame
  <2>2. ASSUME NEW x \in Queued, \A k \in Queued : k \notin Queued' <=> Sn(k) <= Sn(x) PROVE j \in Queued'
    BY <1>0, <1>2, <1>3, <2>2
  <2> QED
    BY <1>1, <2>1, <2>2 DEF Trim
<1> SUFFICES ASSUME NEW i \in Queued', NEW n \in Sn(i)' .. numMessages' - 1 PROVE There(n)'
  BY DEF Contiguous
<1>4. i \in Queued /\ Sn(i)' = Sn(i) /\ Sn(i) \in Nat
  BY <1>0, <1>2
<1>5. n \in Sn(i) .. numMessages - 1 /\ Sn(i) <= n
  BY <1>0, <1>4
<1>6. PICK j \in Queued : Sn(j) = n
  BY <1>4, <1>5 DEF FollowInv, Contiguous, There
<1>7. j \in Queued'
  BY <1>3, <1>5, <1>6
<1> QED
  BY <1>2, <1>6, <1>7 DEF There

\* A receiver whose queue, position and numbers stay.
LEMMA Stays ==
  ASSUME NEW r \in Receivers, Follows(r), Given(r), mq' = mq, entries' = entries, slotOf'[r] = slotOf[r],
         numMessages' = numMessages, posted' = posted, got'[r] = got[r], rcv'[r].curit = rcv[r].curit,
         rcv'[r].nextMessage = rcv[r].nextMessage,
         \/ rcv'[r].pc = rcv[r].pc
         \/ /\ rcv[r].pc \notin {"number", "mark", "advance"}
            /\ rcv'[r].pc \notin {"number", "mark", "advance", "release"}
  PROVE  Follows(r)' /\ Given(r)'
<1>1. Queued' = Queued /\ U' = U /\ F' = F
  BY LinkedSame
<1>2. PICK c, n, pc : c = rcv[r].curit /\ n = rcv[r].nextMessage /\ pc = rcv[r].pc
  OBVIOUS
<1>3. PICK p : p = rcv'[r].pc
  OBVIOUS
<1>4. \A i : Sn(i)' = Sn(i) /\ Read(r, i)' = Read(r, i) /\ There(i)' = There(i)
  BY <1>1 DEF Sn, Read, There
<1>5. Upto(r)' = Upto(r) /\ Reached(r)' = Reached(r)
  BY <1>2, <1>3, <1>4 DEF Upto, Reached
<1>6. AtNext(r)' = AtNext(r) /\ AtMarked(r)' = AtMarked(r)
  BY <1>1, <1>2, <1>4 DEF AtNext, AtMarked
<1>7. Follows(r)'
  BY <1>1, <1>2, <1>3, <1>4, <1>5, <1>6 DEF Follows
<1>8. Given(r)'
  BY <1>1, <1>2, <1>3, <1>4, <1>5 DEF Given
<1> QED
  BY <1>7, <1>8
\* What holds of a registered receiver in a step of its own.
LEMMA OwnStep ==
  ASSUME IInv, FollowInv, NEW r \in Receivers, NEW c, NEW n, NEW pc, c = rcv[r].curit, n = rcv[r].nextMessage,
         pc = rcv[r].pc, pc \notin {"new", "gone"}
  PROVE  /\ r \in Registered /\ Follows(r) /\ Given(r) /\ Awake(r) /\ r \in DOMAIN rcv /\ rcv[r] \in RcvState
         /\ n \in Nat /\ n <= numMessages /\ c \in Slots \cup {End} /\ numMessages \in Nat /\ Linked
         /\ entries \in [Slots -> Entry] /\ Queued \subseteq Slots /\ \A i \in Slots : Sn(i) \in Nat
         /\ sem[r] \in Nat /\ sem \in [Receivers -> Nat]
         /\ \A i \in Queued : Sn(i) < numMessages
         /\ \A i, j \in Queued : Sn(i) = Sn(j) => i = j
<1>1. /\ Types /\ Linked /\ rcv[r] \in RcvState /\ r \in DOMAIN rcv /\ entries \in [Slots -> Entry] /\ Queued \subseteq Slots
      /\ numMessages \in Nat /\ sem \in [Receivers -> Nat]
  BY LinkedFacts DEF IInv, Types
<1>2. r \in Registered
  BY <1>1, Listed DEF IInv
<1>3. Follows(r) /\ Given(r) /\ Awake(r)
  BY <1>2 DEF FollowInv
<1>4. n \in Nat /\ n <= numMessages /\ c \in Slots \cup {End}
  BY <1>1, <1>3 DEF RcvState, Follows
<1>5. \A i \in Slots : Sn(i) \in Nat
  BY <1>1 DEF Sn, Entry
<1>6. \A i \in Queued : Sn(i) < numMessages
  BY <1>1 DEF IInv, SentInv
<1>7. \A i, j \in Queued : Sn(i) = Sn(j) => i = j
  <2> SUFFICES ASSUME NEW i \in Queued, NEW j \in Queued, Sn(i) = Sn(j) PROVE i = j
    OBVIOUS
  <2>1. Queued = {U[k] : k \in 1 .. Len(U)} /\ Len(U) \in Nat /\ Ascending
    BY <1>1, LinkedFacts DEF IInv
  <2>2. PICK a \in 1 .. Len(U), b \in 1 .. Len(U) : i = U[a] /\ j = U[b]
    BY <2>1
  <2>3. a = b \/ a < b \/ b < a
    OBVIOUS
  <2>4. Sn(i) \in Nat /\ Sn(j) \in Nat
    BY <1>1, <1>5
  <2> QED
    BY <2>1, <2>2, <2>3, <2>4 DEF Ascending
<1> QED
  BY <1>1, <1>2, <1>3, <1>4, <1>5, <1>6, <1>7

\* The steps between two messages.
LEMMA FollowIdle ==
  ASSUME IInv, FollowInv, NEW r \in Receivers,
         waitNextMessage(r) \/ release(r) \/ start(r) \/ finish(r) \/ joined(r), r \in Registered
  PROVE  Follows(r)' /\ Given(r)' /\ Awake(r)'
<1>1. PICK c, n, pc : c = rcv[r].curit /\ n = rcv[r].nextMessage /\ pc = rcv[r].pc
  OBVIOUS
<1>2. pc \notin {"new", "gone"}
  BY <1>1 DEF IInv, RcvrsInv, Registered
<1>3. /\ Follows(r) /\ Given(r) /\ Awake(r) /\ r \in DOMAIN rcv /\ rcv[r] \in RcvState
      /\ sem[r] \in Nat /\ sem \in [Receivers -> Nat] /\ Linked
  BY <1>1, <1>2, OwnStep
<1>4. /\ mq' = mq /\ entries' = entries /\ slotOf' = slotOf /\ numMessages' = numMessages /\ posted' = posted /\ got' = got
  BY DEF waitNextMessage, release, start, finish, joined, queueVars, senderVars
<1>5. CASE waitNextMessage(r) \/ joined(r)
  <2>1. /\ rcv'[r].curit = rcv[r].curit /\ rcv'[r].nextMessage = rcv[r].nextMessage
        /\ rcv[r].pc = "wait" /\ rcv'[r].pc = "peek"
    <3>1. CASE waitNextMessage(r)
      BY <1>3, <3>1 DEF waitNextMessage, ReceiverAt, RcvState
    <3>2. CASE joined(r)
      BY <1>3, <3>2 DEF joined, ReceiverAt, RcvState
    <3> QED
      BY <1>5, <3>1, <3>2
  <2>2. Follows(r)' /\ Given(r)'
    BY <1>3, <1>4, <2>1, Stays
  <2>3. Awake(r)'
    BY <2>1 DEF Awake
  <2> QED
    BY <2>2, <2>3
<1>6. CASE release(r)
  <2>1. /\ rcv'[r].curit = rcv[r].curit /\ rcv'[r].nextMessage = rcv[r].nextMessage
        /\ rcv[r].pc = "release" /\ rcv'[r].pc = "peek"
    BY <1>3, <1>6 DEF release, ReceiverAt, RcvState, Onward
  <2>2. Follows(r)' /\ Given(r)'
    BY <1>3, <1>4, <2>1, Stays
  <2>3. Awake(r)'
    BY <2>1 DEF Awake
  <2> QED
    BY <2>2, <2>3
<1>7. CASE start(r)
  <2>1. /\ rcv'[r].curit = rcv[r].curit /\ rcv'[r].nextMessage = rcv[r].nextMessage /\ rcv'[r].since = rcv[r].since
        /\ rcv[r].pc = "ready" /\ rcv'[r].pc = "wait" /\ sem' = sem
    BY <1>3, <1>7 DEF start, ReceiverAt, RcvState
  <2>2. Follows(r)' /\ Given(r)'
    BY <1>3, <1>4, <2>1, Stays
  <2>3. Awake(r)'
    <3>1. Queued' = Queued /\ \A i : Sn(i)' = Sn(i)
      BY <1>4, LinkedSame DEF Sn
    <3> QED
      BY <1>3, <2>1, <3>1 DEF Awake
  <2> QED
    BY <2>2, <2>3
<1>8. CASE finish(r)
  <2>1. CASE ReceiverAt(r, "ready") /\ rcv' = [rcv EXCEPT ![r].finish = "drain", ![r].pc = "peek"]
    <3>1. /\ rcv'[r].curit = rcv[r].curit /\ rcv'[r].nextMessage = rcv[r].nextMessage
          /\ rcv[r].pc = "ready" /\ rcv'[r].pc = "peek"
      BY <1>3, <2>1 DEF ReceiverAt, RcvState
    <3>2. Follows(r)' /\ Given(r)'
      BY <1>3, <1>4, <3>1, Stays
    <3>3. Awake(r)'
      BY <3>1 DEF Awake
    <3> QED
      BY <3>2, <3>3
  <2>2. CASE rcv' = [rcv EXCEPT ![r].finish = "stop"] /\ sem' = [sem EXCEPT ![r] = @ + 1]
    <3>1. /\ rcv'[r].curit = rcv[r].curit /\ rcv'[r].nextMessage = rcv[r].nextMessage
          /\ rcv'[r].pc = rcv[r].pc
      BY <1>3, <2>2 DEF RcvState
    <3>2. Follows(r)' /\ Given(r)'
      BY <1>3, <1>4, <3>1, Stays
    <3>3. sem'[r] = sem[r] + 1
      BY <1>3, <2>2
    <3>4. Awake(r)'
      BY <1>3, <3>3 DEF Awake
    <3> QED
      BY <3>2, <3>4
  <2> QED
    BY <1>8, <2>1, <2>2 DEF finish
<1> QED
  BY <1>5, <1>6, <1>7, <1>8

\* A receiver that subscribes has read nothing and finds nothing new.
LEMMA FollowJoins ==
  ASSUME IInv, FollowInv, NEW r \in Receivers, addReceiver(r)
  PROVE  Follows(r)' /\ Given(r)' /\ Awake(r)'
<1>1. /\ Types /\ Linked /\ RcvrsInv /\ FlagsInv /\ SentInv /\ PlaceInv /\ entries \in [Slots -> Entry] /\ Queued \subseteq Slots
      /\ rcv[r] \in RcvState /\ r \in DOMAIN rcv /\ numMessages \in Nat
  BY LinkedFacts DEF IInv, Types
<1>2. \A i \in Queued : Sn(i) \in Nat /\ Sn(i) < numMessages
  BY <1>1 DEF SentInv, Sn, Entry
<1>3. /\ rcv[r].pc = "new" /\ rcv[r].curit = End /\ rcv[r].nextMessage = 0 /\ got[r] = << >>
  BY <1>1 DEF addReceiver, ReceiverAt, PlaceInv
<1>4. /\ rcv'[r].pc = "ready" /\ rcv'[r].curit = End /\ rcv'[r].nextMessage = 0 /\ rcv'[r].since = numMessages
  BY <1>1, <1>3 DEF addReceiver, RcvState
<1>5. mq' = mq /\ entries' = entries /\ numMessages' = numMessages /\ got' = got
  BY DEF addReceiver, queueVars
<1>6. Queued' = Queued /\ \A i : Sn(i)' = Sn(i)
  BY <1>5, LinkedSame DEF Sn
<1>7. \A i \in Queued : ~Read(r, i)'
  <2>1. rcvrs \in Pool(RSlots) /\ Sound(rcvrs) /\ ~IsFull(rcvrs) /\ slotOf'[r] = NextSlot(rcvrs)
    BY <1>1 DEF RcvrsInv, addReceiver, Types
  <2>2. rcvrs.used \in Seq(RSlots) /\ Len(rcvrs.used) + 1 \in 1 .. Len(rcvrs.used) + 1
    BY <2>1 DEF Pool
  <2>3. NextSlot(rcvrs) \notin UsedSlots(rcvrs)
    BY <2>1, <2>2, InsertFacts
  <2> QED
    BY <1>1, <1>5, <2>1, <2>3 DEF UsedSlots, Range, ToSet, FlagsInv, Read
<1>8. Upto(r)' = 0 /\ Reached(r)' = 0
  BY <1>4 DEF Upto, Reached
<1>9. Follows(r)'
  BY <1>1, <1>2, <1>4, <1>5, <1>6, <1>7, <1>8 DEF Follows, AtNext
<1>10. Given(r)'
  BY <1>3, <1>4, <1>5 DEF Given
<1>11. Awake(r)'
  <2>1. \A i \in Queued : ~(Sn(i) >= numMessages)
    BY <1>1, <1>2
  <2>2. \A i \in Queued' : ~(Sn(i)' >= rcv'[r].since)
    BY <1>4, <1>6, <2>1
  <2> QED
    BY <2>2 DEF Awake
<1> QED
  BY <1>9, <1>10, <1>11

LEMMA FollowNumbers ==
  ASSUME IInv, FollowInv, NEW r \in Receivers, readNumber(r)
  PROVE  Follows(r)' /\ Given(r)' /\ Awake(r)'
<1>1. PICK c, n, pc : c = rcv[r].curit /\ n = rcv[r].nextMessage /\ pc = rcv[r].pc
  OBVIOUS
<1>2. pc = "number"
  BY <1>1 DEF readNumber, ReceiverAt
<1>3. /\ Follows(r) /\ Given(r) /\ r \in DOMAIN rcv /\ rcv[r] \in RcvState /\ n \in Nat
      /\ Queued \subseteq Slots /\ \A i \in Slots : Sn(i) \in Nat
      /\ \A i \in Queued : Sn(i) < numMessages
      /\ numMessages \in Nat
  BY <1>1, <1>2, OwnStep
<1>4. /\ mq' = mq /\ entries' = entries /\ slotOf' = slotOf /\ numMessages' = numMessages /\ posted' = posted /\ got' = got
  BY DEF readNumber, queueVars, senderVars
<1>5. /\ rcv'[r].curit = c /\ rcv'[r].nextMessage = Sn(c) + 1 /\ rcv'[r].pc = "mark"
  BY <1>1, <1>3 DEF readNumber, RcvState, NumberAfter, Sn
<1>6. Queued' = Queued /\ \A i : Sn(i)' = Sn(i) /\ Read(r, i)' = Read(r, i) /\ There(i)' = There(i)
  BY <1>4, LinkedSame DEF Sn, Read, There
<1>7. c \in Queued /\ Sn(c) \in Nat /\ Sn(c) < numMessages /\ Upto(r) = Sn(c) /\ Reached(r) = Sn(c) + 1
      /\ Upto(r)' = Sn(c) /\ Reached(r)' = Sn(c) + 1
  BY <1>1, <1>2, <1>3, <1>5 DEF Follows, Upto, Reached
<1>8. Follows(r)'
  BY <1>2, <1>1, <1>3, <1>4, <1>5, <1>6, <1>7 DEF Follows
<1>9. got[r] # << >>
  BY <1>1, <1>2, <1>3 DEF Given
<1>10. Given(r)'
  BY <1>3, <1>4, <1>6, <1>7, <1>9 DEF Given
<1>11. Awake(r)'
  BY <1>5 DEF Awake
<1> QED
  BY <1>8, <1>10, <1>11
LEMMA FollowMarks ==
  ASSUME IInv, FollowInv, [Next]_vars, NEW r \in Receivers, markRead(r)
  PROVE  Follows(r)' /\ Given(r)' /\ Awake(r)'
<1>1. PICK c, n, pc : c = rcv[r].curit /\ n = rcv[r].nextMessage /\ pc = rcv[r].pc
  OBVIOUS
<1>2. pc = "mark"
  BY <1>1 DEF markRead, ReceiverAt
<1>3. /\ Follows(r) /\ Given(r) /\ r \in DOMAIN rcv /\ rcv[r] \in RcvState /\ n \in Nat /\ n <= numMessages
      /\ Queued \subseteq Slots /\ numMessages \in Nat /\ \A i \in Slots : Sn(i) \in Nat
      /\ entries \in [Slots -> Entry] /\ Linked
      /\ \A i, j \in Queued : Sn(i) = Sn(j) => i = j
  BY <1>1, <1>2, OwnStep
<1>4. /\ slotOf' = slotOf /\ numMessages' = numMessages /\ posted' = posted /\ got' = got
  BY DEF markRead, senderVars
<1>5. /\ rcv'[r].curit = c /\ rcv'[r].nextMessage = n /\ rcv'[r].pc = "advance"
  BY <1>1, <1>3 DEF markRead, RcvState
<1>6. c \in Queued /\ Sn(c) = n - 1 /\ Upto(r) = n - 1 /\ Reached(r) = n /\ Upto(r)' = n /\ Reached(r)' = n
  BY <1>1, <1>2, <1>3, <1>5 DEF Follows, Upto, Reached
<1>7. \A i \in Queued : Read(r, i) <=> Sn(i) < n - 1
  BY <1>3, <1>6 DEF Follows
<1>8. ~Read(r, c)
  BY <1>3, <1>6, <1>7
<1>9. /\ entries' = [entries EXCEPT ![c].readFlags = @ \cup {slotOf[r]}, ![c].numRead = @ + 1]
      /\ mq' = LB!erase(mq, c) \/ mq' = mq
  BY <1>1, <1>8, Marks
<1>10. Trim(r)
  BY Trimmed DEF Reading
<1>11. /\ \A i \in Queued' : i \in Queued /\ Sn(i)' = Sn(i)
       /\ \A i \in Slots : Sn(i)' = Sn(i)
  BY <1>3, <1>10 DEF Trim, Sn
<1>12. \A i \in Queued' : Read(r, i)' <=> i = c \/ Read(r, i)
  <2>1. \A i \in Slots : i # c => entries'[i] = entries[i]
    BY <1>3, <1>6, <1>9
  <2>2. entries'[c].readFlags = entries[c].readFlags \cup {slotOf[r]}
    BY <1>3, <1>6, <1>9 DEF Entry
  <2> QED
    BY <1>3, <1>4, <1>11, <2>1, <2>2 DEF Read
<1>13. \A i \in Queued' : Read(r, i)' <=> Sn(i)' < n
  <2> SUFFICES ASSUME NEW i \in Queued' PROVE Read(r, i)' <=> Sn(i) < n
    BY <1>11
  <2>1. i \in Queued /\ Sn(i) \in Nat
    BY <1>3, <1>11
  <2>2. Sn(i) < n <=> Sn(i) = n - 1 \/ Sn(i) < n - 1
    BY <1>3, <2>1
  <2>3. Sn(i) = n - 1 <=> i = c
    BY <1>3, <1>6, <2>1
  <2> QED
    BY <1>7, <1>12, <2>1, <2>2, <2>3
<1>14. \/ Queued' = Queued
       \/ /\ \A i \in Queued : i \notin Queued' <=> Sn(i) <= Sn(c)
          /\ F' # << >> /\ F'[Len(F')] = c /\ mq'.next[c] \in {End, mq'.activeBegin}
  <2>1. CASE mq' = mq
    BY <2>1, LinkedSame
  <2>2. ASSUME NEW x \in Queued, \A i \in Queued : i \notin Queued' <=> Sn(i) <= Sn(x),
               F' # << >>, F'[Len(F')] = x, mq'.next[x] \in {End, mq'.activeBegin}
        PROVE  x = c \/ mq' = mq
    <3>1. CASE mq' = LB!erase(mq, c)
      <4>1. Queued' = Queued \ {c}
        BY <1>3, <1>6, <3>1, ListErases
      <4>2. Sn(x) \in Nat
        BY <1>3
      <4>3. x \notin Queued'
        BY <2>2, <4>2
      <4> QED
        BY <4>1, <4>3
    <3> QED
      BY <1>9, <3>1
  <2> QED
    BY <1>10, <2>1, <2>2, LinkedSame DEF Trim
<1>15. AtMarked(r)'
  <2>1. CASE Queued' = Queued
    <3>1. c \in Queued' /\ Sn(c)' = n - 1
      BY <1>6, <1>11, <2>1
    <3> QED
      BY <1>5, <3>1 DEF AtMarked
  <2>2. CASE /\ \A i \in Queued : i \notin Queued' <=> Sn(i) <= Sn(c)
             /\ F' # << >> /\ F'[Len(F')] = c /\ mq'.next[c] \in {End, mq'.activeBegin}
    <3>1. \A i \in Queued' : Sn(i)' >= n
      BY <1>3, <1>6, <1>11, <2>2
    <3> QED
      BY <1>5, <2>2, <3>1 DEF AtMarked
  <2> QED
    BY <1>14, <2>1, <2>2
<1>16. Follows(r)'
  BY <1>3, <1>4, <1>5, <1>6, <1>13, <1>15 DEF Follows
<1>17. got[r] # << >>
  BY <1>1, <1>2, <1>3 DEF Given
<1>18. \A k \in n .. numMessages - 1 : There(k)'
  <2> SUFFICES ASSUME NEW k \in n .. numMessages - 1 PROVE There(k)'
    OBVIOUS
  <2>1. k \in Upto(r) .. numMessages - 1 /\ k > Sn(c) /\ k \in Int
    BY <1>3, <1>6
  <2>2. PICK j \in Queued : Sn(j) = k
    BY <1>3, <1>17, <2>1 DEF Given, There
  <2>3. j \in Queued'
    <3>1. Sn(j) \in Nat /\ Sn(c) \in Nat
      BY <1>3, <1>6
    <3>2. ~(Sn(j) <= Sn(c))
      BY <2>1, <2>2, <3>1
    <3> QED
      BY <1>14, <3>2
  <2> QED
    BY <1>11, <2>2, <2>3 DEF There
<1>19. Given(r)'
  BY <1>3, <1>4, <1>6, <1>17, <1>18 DEF Given
<1>20. Awake(r)'
  BY <1>5 DEF Awake
<1> QED
  BY <1>16, <1>19, <1>20

LEMMA FollowAdvances ==
  ASSUME IInv, FollowInv, NEW r \in Receivers, advance(r)
  PROVE  Follows(r)' /\ Given(r)' /\ Awake(r)'
<1>1. PICK c, n, pc : c = rcv[r].curit /\ n = rcv[r].nextMessage /\ pc = rcv[r].pc
  OBVIOUS
<1>2. pc = "advance"
  BY <1>1 DEF advance, ReceiverAt
<1>3. /\ Follows(r) /\ Given(r) /\ r \in DOMAIN rcv /\ rcv[r] \in RcvState /\ n \in Nat /\ n <= numMessages
      /\ Queued \subseteq Slots /\ Linked /\ r \in Registered /\ \A i \in Slots : Sn(i) \in Nat
      /\ c \in Slots \cup {End}
  BY <1>1, <1>2, OwnStep
<1>4. /\ mq' = mq /\ entries' = entries /\ slotOf' = slotOf /\ numMessages' = numMessages /\ posted' = posted /\ got' = got
  BY DEF advance, queueVars, senderVars
<1>5. PICK d : d = LB!next(mq, c)
  OBVIOUS
<1>6. /\ rcv'[r].curit = d /\ rcv'[r].nextMessage = n /\ rcv'[r].pc = "release"
  BY <1>1, <1>3, <1>5 DEF advance, RcvState
<1>7. Queued' = Queued /\ \A i : Sn(i)' = Sn(i) /\ Read(r, i)' = Read(r, i) /\ There(i)' = There(i)
  BY <1>4, LinkedSame DEF Sn, Read, There
<1>8. Upto(r) = n /\ Reached(r) = n /\ Upto(r)' = n /\ Reached(r)' = n
  BY <1>1, <1>2, <1>6 DEF Upto, Reached
<1>9. d = mq.next[c]
  <2>1. c # End
    <3>1. rcv[r].pc = "advance" /\ r \in Registered
      <4>1. r \in Registered
        BY <1>3
      <4> QED
        BY <1>1, <1>2, <4>1
    <3>2. PlaceInv
      BY DEF IInv
    <3>3. rcv[r].curit # End
      BY <3>1, <3>2 DEF PlaceInv
    <3> QED
      BY <1>1, <3>3
  <2> QED
    BY <1>5, <2>1, SameList DEF LB!next, LB!End, End
<1>10. /\ Len(U) \in Nat /\ Queued = {U[k] : k \in 1 .. Len(U)} /\ Ascending /\ Injective(U)
       /\ \A k \in 1 .. Len(U) : mq.next[U[k]] = After(U, k + 1)
       /\ mq.activeBegin = After(U, 1)
       /\ \A k \in 1 .. Len(U) : U[k] \in Queued
  <2>4. Linked
    BY DEF IInv
  <2>1. Layout(mq, U, F)
    BY <2>4, ShapeFacts DEF Linked
  <2>2. \A k \in 1 .. Len(U) : mq.next[U[k]] = After(U, k + 1)
    BY <2>1, Zenon DEF Layout
  <2>3. mq.activeBegin = After(U, 1)
    BY <2>1, Zenon DEF Layout
  <2> QED
    BY <1>3, <2>2, <2>3, LinkedFacts DEF IInv
<1>11. ASSUME d # End
       PROVE  /\ d \in Queued /\ Sn(d) >= n
              /\ \A i \in Queued : Sn(i) < Sn(d) => Sn(i) < n
  <2>1. AtMarked(r)
    BY <1>1, <1>2, <1>3 DEF Follows
  <2>2. CASE c \in Queued /\ Sn(c) = n - 1
    <3>1. PICK k \in 1 .. Len(U) : c = U[k]
      BY <1>10, <2>2
    <3>2. k + 1 \in 1 .. Len(U) /\ d = U[k + 1]
      BY <1>9, <1>10, <1>11, <3>1 DEF After
    <3>3. d \in Queued /\ Sn(c) < Sn(d) /\ Sn(c) \in Nat /\ Sn(d) \in Nat
      <4>1. k < k + 1
        OBVIOUS
      <4> QED
        BY <1>3, <1>10, <3>1, <3>2, <4>1 DEF Ascending
    <3>4. ASSUME NEW i \in Queued, Sn(i) < Sn(d) PROVE Sn(i) < n
      <4>1. PICK j \in 1 .. Len(U) : i = U[j]
        BY <1>10
      <4>2. j < k \/ j = k \/ j = k + 1 \/ k + 1 < j
        OBVIOUS
      <4>3. Sn(i) \in Nat
        BY <1>3
      <4>4. j < k \/ j = k
        BY <1>10, <3>2, <3>3, <3>4, <4>1, <4>2, <4>3 DEF Ascending
      <4>5. Sn(i) <= Sn(c)
        <5>1. j < k => Sn(i) < Sn(c)
          BY <1>10, <3>1, <4>1 DEF Ascending
        <5> QED
          BY <3>1, <3>3, <4>1, <4>3, <4>4, <5>1
      <4> QED
        BY <1>3, <2>2, <4>3, <4>5
    <3> QED
      BY <1>3, <2>2, <3>3, <3>4
  <2>3. CASE (\A i \in Queued : Sn(i) >= n) /\ mq.next[c] \in {End, mq.activeBegin}
    <3>1. 1 \in 1 .. Len(U) /\ d = U[1]
      BY <1>9, <1>10, <1>11, <2>3 DEF After
    <3>2. d \in Queued
      BY <1>10, <3>1
    <3>3. ASSUME NEW i \in Queued PROVE ~(Sn(i) < Sn(d))
      <4>1. PICK j \in 1 .. Len(U) : i = U[j]
        BY <1>10
      <4>2. j = 1 \/ 1 < j
        OBVIOUS
      <4>3. Sn(i) \in Nat /\ Sn(d) \in Nat
        BY <1>3, <3>2
      <4> QED
        BY <1>10, <3>1, <4>1, <4>2, <4>3 DEF Ascending
    <3> QED
      BY <2>3, <3>2, <3>3
  <2>4. CASE (\A i \in Queued : Sn(i) >= n) /\ F = << >> /\ c = U[Len(U)]
    <3>1. Len(U) \in 1 .. Len(U) /\ Len(U) + 1 \notin 1 .. Len(U)
      <4>1. Len(U) # 0
        <5>1. Len(U) + Len(F) = CAPACITY
          BY LinkedFacts DEF IInv
        <5>2. Len(F) = 0
          BY <2>4
        <5> QED
          BY <1>10, <5>1, <5>2, Sizes
      <4> QED
        BY <1>10, <4>1
    <3>2. d = End
      BY <1>9, <1>10, <2>4, <3>1 DEF After
    <3> QED
      BY <1>11, <3>2
  <2> QED
    BY <1>1, <2>1, <2>2, <2>3, <2>4 DEF AtMarked
<1>12. Follows(r)'
  <2>1. AtNext(r)'
    BY <1>6, <1>7, <1>11 DEF AtNext
  <2>2. \A i \in Queued' : Read(r, i)' <=> Sn(i)' < Upto(r)'
    BY <1>3, <1>7, <1>8 DEF Follows
  <2> QED
    BY <1>3, <1>4, <1>6, <2>1, <2>2 DEF Follows
<1>13. got[r] # << >>
  BY <1>1, <1>2, <1>3 DEF Given
<1>14. Given(r)'
  BY <1>3, <1>4, <1>7, <1>8, <1>13 DEF Given
<1>15. Awake(r)'
  BY <1>6 DEF Awake
<1> QED
  BY <1>12, <1>14, <1>15
LEMMA FollowPeeks ==
  ASSUME IInv, FollowInv, NEW r \in Receivers, peekNextMessage(r)
  PROVE  Follows(r)' /\ Given(r)' /\ Awake(r)'
<1>1. PICK c, n, pc : c = rcv[r].curit /\ n = rcv[r].nextMessage /\ pc = rcv[r].pc
  OBVIOUS
<1>2. pc = "peek"
  BY <1>1 DEF peekNextMessage, ReceiverAt
<1>3. /\ Follows(r) /\ Given(r) /\ Awake(r) /\ rcv[r] \in RcvState /\ n \in Nat /\ n <= numMessages
      /\ Queued \subseteq Slots /\ numMessages \in Nat /\ \A i \in Slots : Sn(i) \in Nat
      /\ \A i \in Queued : Sn(i) < numMessages
      /\ c \in Slots \cup {End}
  BY <1>1, <1>2, OwnStep
<1>4. Types /\ Linked /\ Ascending /\ SentInv /\ got \in [Receivers -> Seq(Regions)]
  BY DEF IInv, Types
<1>5. PICK it : it = findCurrentMessage(r)
  OBVIOUS
<1>6. it = FirstUnread(c, n)
  BY <1>1, <1>5 DEF findCurrentMessage
<1>7. /\ rcv'[r].curit = it /\ rcv'[r].nextMessage = n /\ rcv'[r].since = rcv[r].since
      /\ it = End => rcv'[r].pc \in {"leave", "wait"} /\ got' = got
      /\ it # End => rcv'[r].pc = "number" /\ got' = [got EXCEPT ![r] = Append(@, entries[it].msg)]
  BY <1>1, <1>4, <1>5, PeekStep
<1>8. /\ mq' = mq /\ entries' = entries /\ slotOf' = slotOf /\ numMessages' = numMessages /\ posted' = posted /\ sem' = sem
  BY DEF peekNextMessage, queueVars, senderVars
<1>9. Queued' = Queued /\ \A i : Sn(i)' = Sn(i) /\ Read(r, i)' = Read(r, i) /\ There(i)' = There(i)
  BY <1>8, LinkedSame DEF Sn, Read, There
<1>10. Upto(r) = n /\ AtNext(r) /\ \A i \in Queued : Read(r, i) <=> Sn(i) < n
  <2>1. Upto(r) = n
    BY <1>1, <1>2 DEF Upto
  <2> QED
    BY <1>1, <1>2, <1>3, <2>1 DEF Follows
\* What it finds is the first message it has not read.
<1>11. /\ it = End => \A i \in Queued : Sn(i) < n
       /\ it # End => it \in Queued /\ Sn(it) >= n /\ \A i \in Queued : Sn(i) < Sn(it) => Sn(i) < n
  <2>1. CASE c = End
    <3>1. it = FirstUnread(End, n) /\ \A i \in Slots : Sn(i) \in Nat
      BY <1>3, <1>6, <2>1
    <3> QED
      BY <1>3, <1>4, <3>1, FoundFromEnd
  <2>2. CASE c # End
    <3>1. /\ c \in Queued /\ Sn(c) >= n
          /\ \A i \in Queued : Sn(i) < Sn(c) => Sn(i) < n
      BY <1>1, <1>10, <2>2 DEF AtNext
    <3>2. c \in Slots
      BY <1>3, <2>2
    <3>3. it = c
      BY <1>3, <1>4, <1>6, <3>1, <3>2, FoundFrom
    <3> QED
      BY <2>2, <3>1, <3>3
  <2> QED
    BY <2>1, <2>2
<1>12. CASE it = End
  <2>1. Upto(r)' = n /\ Reached(r)' = n /\ Reached(r) = n
    BY <1>1, <1>2, <1>7, <1>12 DEF Upto, Reached
  <2>2. AtNext(r)'
    BY <1>7, <1>12 DEF AtNext
  <2>3. Follows(r)'
    BY <1>3, <1>7, <1>8, <1>9, <1>10, <1>12, <2>1, <2>2 DEF Follows
  <2>4. Given(r)'
    BY <1>1, <1>3, <1>7, <1>8, <1>9, <1>10, <1>12, <2>1 DEF Given
  <2>5. Awake(r)'
    <3>1. \A i \in Queued : ~(Sn(i) >= n)
      BY <1>3, <1>11, <1>12
    <3>2. \A i \in Queued' : ~(Sn(i)' >= rcv'[r].nextMessage)
      BY <1>7, <1>9, <3>1
    <3> QED
      BY <3>2 DEF Awake
  <2> QED
    BY <2>3, <2>4, <2>5
<1>13. CASE it # End
  <2>1. it \in Queued /\ Sn(it) >= n /\ Sn(it) \in Nat /\ Sn(it) < numMessages
    BY <1>3, <1>11, <1>13
  <2>2. Upto(r)' = Sn(it) /\ Reached(r)' = Sn(it) + 1
    BY <1>7, <1>9, <1>13 DEF Upto, Reached
  <2>3. \A i \in Queued : Sn(i) < n <=> Sn(i) < Sn(it)
    BY <1>3, <1>11, <1>13, <2>1
  <2>4. Follows(r)'
    <3>1. \A i \in Queued' : Read(r, i)' <=> Sn(i)' < Upto(r)'
      BY <1>9, <1>10, <2>2, <2>3
    <3> QED
      BY <1>3, <1>7, <1>8, <1>9, <1>13, <2>1, <2>2, <3>1 DEF Follows
  <2>5. posted[Sn(it) + 1] = entries[it].msg /\ entries[it].msg \in Regions
    BY <1>3, <1>4, <2>1, QueuedPosted
  <2>6. got'[r] # << >> /\ got'[r][Len(got'[r])] = entries[it].msg
    <3>1. got'[r] = Append(got[r], entries[it].msg) /\ got[r] \in Seq(Regions)
      BY <1>4, <1>7, <1>13
    <3> QED
      BY <2>5, <3>1, AppendProperties
  <2>7. \A k \in Sn(it) .. numMessages - 1 : There(k)
    BY <2>1 DEF FollowInv, Contiguous
  <2>8. Given(r)'
    BY <1>8, <1>9, <2>1, <2>2, <2>5, <2>6, <2>7 DEF Given
  <2>9. Awake(r)'
    BY <1>7, <1>13 DEF Awake
  <2> QED
    BY <2>4, <2>8, <2>9
<1> QED
  BY <1>12, <1>13

LEMMA FollowKept ==
  ASSUME IInv, [Next]_vars
  PROVE  FollowI'
<1> SUFFICES ASSUME lost' = {} PROVE FollowInv'
  BY DEF FollowI
<1>0. Types /\ Linked /\ RcvrsInv
  BY DEF IInv
<1>1. ASSUME lost = {} PROVE FollowInv
  BY <1>1 DEF IInv, FollowI
<1>2. CASE /\ mq' = mq /\ entries' = entries /\ numMessages' = numMessages /\ posted' = posted /\ sem' = sem
           /\ slotOf' = slotOf /\ rcv' = rcv /\ got' = got /\ lost' = lost
  <2>1. Queued' = Queued /\ U' = U /\ F' = F
    BY <1>2, LinkedSame
  <2>2. \A i : Sn(i)' = Sn(i) /\ There(i)' = There(i)
    BY <1>2, <2>1 DEF Sn, There
  <2>3. Contiguous' = Contiguous
    BY <1>2, <2>1, <2>2 DEF Contiguous
  <2>4. Registered' = Registered
    BY <1>2 DEF Registered
  <2>5. ASSUME NEW q \in Registered PROVE Follows(q)' /\ Given(q)' /\ Awake(q)'
    <3>1. q \in Receivers /\ Follows(q) /\ Given(q) /\ Awake(q)
      BY <1>1, <1>2, <2>5 DEF FollowInv, Registered
    <3>2. Follows(q)' /\ Given(q)'
      BY <1>2, <3>1, Stays
    <3>3. Awake(q)'
      BY <1>2, <2>1, <2>2, <3>1 DEF Awake
    <3> QED
      BY <3>2, <3>3
  <2> QED
    BY <1>1, <1>2, <2>3, <2>4, <2>5 DEF FollowInv
<1>3. CASE Sends
  <2>1. PICK s \in Senders, m \in Regions : Held(s, m) /\ (Quiet(s, m) \/ WithRoom(s, m) \/ InPlace(s, m))
    BY <1>3 DEF Sends
  <2>2. UNCHANGED <<rcvrs, slotOf, rcv, got>>
    BY <1>3 DEF Sends
  <2>3. CASE Quiet(s, m)
    BY <1>2, <2>2, <2>3 DEF Quiet
  <2>4. CASE WithRoom(s, m)
    <3>1. lost = {}
      BY <2>4 DEF WithRoom
    <3> QED
      BY <1>1, <2>2, <2>4, <3>1, FollowPosts
  <2>5. CASE InPlace(s, m)
    BY <2>5 DEF InPlace
  <2> QED
    BY <2>1, <2>3, <2>4, <2>5
<1>4. ASSUME NEW s \in Senders, ReleaseOwn(s) PROVE FollowInv'
  BY <1>2, <1>4 DEF ReleaseOwn
<1>5. CASE Elsewhere
  BY <1>2, <1>5 DEF Elsewhere
<1>6. ASSUME NEW r \in Receivers, Reading(r) \/ Membership(r) PROVE FollowInv'
  <2>1. lost = {}
    BY <1>6, SendersAlone
  <2>2. FollowInv
    BY <1>1, <2>1
  <2>3. Contiguous'
    BY <1>6, <2>2, ContiguousStays
  <2>4. ASSUME NEW q \in Registered', q # r PROVE Follows(q)' /\ Given(q)' /\ Awake(q)'
    <3>1. q \in Receivers /\ q \in Registered
      <4>1. q \in Receivers /\ slotOf'[q] # End
        BY <2>4 DEF Registered
      <4>2. slotOf'[q] = slotOf[q]
        BY <1>0, <1>6, <2>4, <4>1, OneReceiver
      <4> QED
        BY <4>1, <4>2 DEF Registered
    <3> QED
      BY <1>6, <2>2, <2>4, <3>1, FollowOthers
  <2>5. ASSUME r \in Registered' PROVE Follows(r)' /\ Given(r)' /\ Awake(r)'
    <3>1. CASE waitNextMessage(r) \/ release(r) \/ start(r) \/ finish(r) \/ joined(r)
      <4>1. r \in Registered
        <5>1. slotOf' = slotOf
          BY <3>1 DEF waitNextMessage, release, start, finish, joined
        <5> QED
          BY <2>5, <5>1 DEF Registered
      <4> QED
        BY <2>2, <3>1, <4>1, FollowIdle
    <3>2. CASE addReceiver(r)
      BY <2>2, <3>2, FollowJoins
    <3>3. CASE readNumber(r)
      BY <2>2, <3>3, FollowNumbers
    <3>4. CASE markRead(r)
      BY <2>2, <3>4, FollowMarks
    <3>5. CASE advance(r)
      BY <2>2, <3>5, FollowAdvances
    <3>6. CASE peekNextMessage(r)
      BY <2>2, <3>6, FollowPeeks
    <3>7. CASE removeReceiver(r)
      <4>1. slotOf' = [slotOf EXCEPT ![r] = End] /\ slotOf \in [Receivers -> RSlots \cup {End}]
        BY <1>0, <3>7 DEF removeReceiver, Types
      <4>2. slotOf'[r] = End
        BY <4>1
      <4> QED
        BY <2>5, <4>2 DEF Registered
    <3> QED
      BY <1>6, <3>1, <3>2, <3>3, <3>4, <3>5, <3>6, <3>7 DEF Reading, Membership
  <2> QED
    BY <2>3, <2>4, <2>5 DEF FollowInv
<1> QED
  BY <1>3, <1>4, <1>5, <1>6, StepCases
LEMMA InitHolds ==
  ASSUME Init
  PROVE  IInv
<1>1. Linked /\ U = << >> /\ Queued = {} /\ \A k \in 1 .. Len(F) : F[k] \in Slots
  BY InitLinked DEF Init
<1>2. Registered = {}
  BY DEF Registered, Init
<1>3. Types
  <2>1. entries \in [Slots -> Entry]
    BY DEF Init, Entry
  <2>2. /\ numMessages \in Nat /\ messagesRead \in Nat /\ sndrsSem = messagesRead
        /\ slotOf \in [Receivers -> RSlots \cup {End}] /\ sem \in [Receivers -> Nat]
        /\ refs \in [Regions -> Int] /\ sends \in 0 .. MaxSends
    BY Sizes DEF Init
  <2>3. snd \in [Senders -> SenderState]
    BY DEF Init, SenderState
  <2>4. rcv \in [Receivers -> RcvState]
    BY DEF Init, RcvState
  <2>5. /\ got \in [Receivers -> Seq(Regions)] /\ posted \in Seq(Regions) /\ Len(posted) = numMessages
        /\ lost \in SUBSET Regions /\ leaked \in SUBSET Regions
    BY DEF Init
  <2> QED
    BY <2>1, <2>2, <2>3, <2>4, <2>5 DEF Types
<1>4. RcvrsInv
  <2>1. RECEIVER_CAPACITY \in Nat /\ rcvrs = EmptyPool(RECEIVER_CAPACITY)
    BY Sizes DEF Init
  <2>2. rcvrs \in Pool(RSlots) /\ Sound(rcvrs) /\ UsedSlots(rcvrs) = {}
    BY <2>1, EmptyPoolFacts DEF RSlots
  <2>3. \A r \in Receivers : slotOf[r] = End /\ rcv[r].pc = "new"
    BY DEF Init
  <2>4. ToSet(rcvrs.used) = {slotOf[r] : r \in Registered}
    BY <1>2, <2>2 DEF UsedSlots, Range, ToSet
  <2> QED
    BY <1>2, <2>2, <2>3, <2>4 DEF RcvrsInv
<1>5. FlagsInv
  BY <1>1 DEF FlagsInv
<1>6. SentInv
  <2>1. \A i \in Slots : entries[i].readFlags = {}
    BY DEF Init
  <2> QED
    BY <1>1, <2>1 DEF SentInv
<1>7. Ascending
  <2>1. 1 .. Len(U) = {}
    BY <1>1
  <2> QED
    BY <2>1 DEF Ascending
<1>8. PostedInv
  <2>1. 1 .. Len(posted) = {} /\ leaked = {}
    BY DEF Init
  <2> QED
    BY <2>1 DEF PostedInv
<1>9. SendersInv
  BY DEF Init, SendersInv, NoRegion
<1>10. ReceiversInv
  BY DEF Init, ReceiversInv
<1>11. PlaceInv
  BY <1>2 DEF Init, PlaceInv
<1>12. OrderInv
  <2>1. \A r \in Receivers : got[r] = << >> /\ 1 .. Len(got[r]) - 1 = {}
    BY DEF Init
  <2> QED
    BY <2>1 DEF OrderInv, InOrder, LastGiven
<1>13. RefsAccounted
  <2> SUFFICES ASSUME NEW m \in Regions
               PROVE  refs[m] = Cardinality(QueuedAs(m)) + Cardinality(SendersOf(m))
                                + Cardinality(ReadersOf(m)) + Cardinality(LeakedAs(m))
    BY DEF RefsAccounted, QueuedAs, SendersOf, ReadersOf, LeakedAs
  <2>1. m # NoRegion
    BY DEF Regions, NoRegion
  <2>2. QueuedAs(m) = {} /\ SendersOf(m) = {} /\ ReadersOf(m) = {} /\ LeakedAs(m) = {} /\ refs[m] = 0
    BY <1>1, <2>1 DEF Init, QueuedAs, SendersOf, ReadersOf, LeakedAs
  <2>3. Cardinality({}) = 0
    BY FS_EmptySet
  <2> QED
    BY <2>2, <2>3
<1>14. FollowI
  BY <1>1, <1>2 DEF FollowI, FollowInv, Contiguous
<1> QED
  BY <1>1, <1>3, <1>4, <1>5, <1>6, <1>7, <1>8, <1>9, <1>10, <1>11, <1>12, <1>13, <1>14 DEF IInv

-------------------------------------------------------------------------------
(* The theorems                                                            *)

(* Whatever senders and receivers do: the list of messages and the list of *)
(* receivers are never corrupted, every flag, count and reference belongs  *)
(* to somebody, and until DROP_OLDEST has thrown something out every       *)
(* receiver follows the queue message by message.                          *)
THEOREM Inductive == Spec => []IInv
<1>1. Init => IInv
  BY InitHolds
<1>2. IInv /\ [Next]_vars => IInv'
  <2> SUFFICES ASSUME IInv, [Next]_vars PROVE IInv'
    OBVIOUS
  <2>1. Types' /\ Linked' /\ RcvrsInv' /\ FlagsInv' /\ SentInv' /\ Ascending'
    BY TypesKept, LinkedKept, RcvrsKept, FlagsKept, SentKept, AscendingKept
  <2>2. PostedInv' /\ SendersInv' /\ ReceiversInv' /\ PlaceInv' /\ OrderInv' /\ RefsAccounted' /\ FollowI'
    BY PostedKept, SendersKept, ReceiversKept, PlaceKept, OrderKept, RefsKept, FollowKept
  <2> QED
    BY <2>1, <2>2, Zenon DEF IInv
<1> QED
  BY <1>1, <1>2, PTL DEF Spec

(* numRead is the number of flags set in readFlags and only registered     *)
(* receivers have theirs set.                                              *)
THEOREM ReadsCounted == Spec => []ReadCounts
<1>1. IInv => ReadCounts
  BY DEF IInv, Types, FlagsInv, ReadCounts
<1> QED
  BY <1>1, Inductive, PTL

(* No reference to a region is dropped twice or while it is in use, and    *)
(* none is kept but those of the early returns of sendMessage.             *)
THEOREM References == Spec => []RefsAccounted
<1>1. IInv => RefsAccounted
  BY DEF IInv
<1> QED
  BY <1>1, Inductive, PTL

(* Every callback gets its messages in the order in which they were sent,  *)
(* whatever DROP_OLDEST does to the list meanwhile.                        *)
THEOREM Ordered == Spec => []InOrder
<1>1. IInv => InOrder
  BY DEF IInv, OrderInv
<1> QED
  BY <1>1, Inductive, PTL

(* A message that stays in the queue waits for a registered receiver.      *)
THEOREM Awaited == Spec => []SomebodyStillReads
<1>1. IInv => SomebodyStillReads
  <2> SUFFICES ASSUME IInv, Registered # {}, NEW i \in Queued
               PROVE  \E r \in Registered : slotOf[r] \notin entries[i].readFlags
    BY DEF SomebodyStillReads
  <2>1. \E q \in Registered : ~Read(q, i)
    BY StillRead
  <2> QED
    BY <2>1 DEF Read
<1> QED
  BY <1>1, Inductive, PTL

(* A receiver about to mark a message, outside the lock, still stands at   *)
(* it, though others mark and take out messages meanwhile.                 *)
THEOREM Current == Spec => []CurrentIsQueued
<1>1. IInv => CurrentIsQueued
  <2> SUFFICES ASSUME IInv, lost = {}, NEW r \in Receivers, rcv[r].pc \in {"number", "mark"}
               PROVE  rcv[r].curit \in Queued /\ slotOf[r] \notin entries[rcv[r].curit].readFlags
    BY DEF CurrentIsQueued
  <2>1. FollowInv
    BY DEF IInv, FollowI
  <2>2. PICK c, n, pc : c = rcv[r].curit /\ n = rcv[r].nextMessage /\ pc = rcv[r].pc
    OBVIOUS
  <2>3. pc \in {"number", "mark"}
    BY <2>2
  <2>4. Follows(r) /\ Queued \subseteq Slots /\ \A i \in Slots : Sn(i) \in Nat
    BY <2>1, <2>2, <2>3, OwnStep
  <2>5. c \in Queued /\ Sn(c) = Upto(r) /\ (Read(r, c) <=> Sn(c) < Upto(r))
    BY <2>2, <2>3, <2>4 DEF Follows
  <2>6. ~Read(r, c)
    <3>1. Sn(c) \in Nat
      BY <2>4, <2>5
    <3> QED
      BY <2>5, <3>1
  <2> QED
    BY <2>2, <2>5, <2>6 DEF Read
<1> QED
  BY <1>1, Inductive, PTL

(* A receiver that sleeps on its semaphore has read every message sent     *)
(* since it subscribed, although runloop() lowers the semaphore without    *)
(* looking and reads messages in groups.                                   *)
THEOREM Woken == Spec => []NoLostWakeup
<1>1. IInv => NoLostWakeup
  <2> SUFFICES ASSUME IInv, lost = {}, NEW r \in Receivers, ReceiverAt(r, "wait"), sem[r] = 0,
                      NEW i \in Queued, entries[i].sn >= rcv[r].since
               PROVE  slotOf[r] \in entries[i].readFlags
    BY DEF NoLostWakeup
  <2>1. FollowInv
    BY DEF IInv, FollowI
  <2>2. PICK c, n, pc : c = rcv[r].curit /\ n = rcv[r].nextMessage /\ pc = rcv[r].pc
    OBVIOUS
  <2>3. pc = "wait"
    BY <2>2 DEF ReceiverAt
  <2>4. /\ Follows(r) /\ Awake(r) /\ n \in Nat /\ Queued \subseteq Slots
        /\ \A j \in Slots : Sn(j) \in Nat
    BY <2>1, <2>2, <2>3, OwnStep
  <2>5. ~(Sn(i) >= n)
    BY <2>2, <2>3, <2>4 DEF Awake, Sn
  <2>6. Upto(r) = n
    BY <2>2, <2>3 DEF Upto
  <2>7. Sn(i) \in Nat /\ Sn(i) < Upto(r)
    BY <2>4, <2>5, <2>6
  <2> QED
    BY <2>4, <2>7 DEF Follows, Read
<1> QED
  BY <1>1, Inductive, PTL
-------------------------------------------------------------------------------
(* The queue implements the feed                                           *)

\* A region is at one place of the log only.
LEMMA PlaceOf ==
  ASSUME NEW p, NEW k \in DOMAIN p, \A j \in DOMAIN p : p[j] = p[k] => j = k
  PROVE  (CHOOSE j \in DOMAIN p : p[j] = p[k]) = k
OBVIOUS

\* Where a receiver is in the log: after what it was given last, or before
\* the oldest message that waits for it.
LEMMA AtGiven ==
  ASSUME IInv, FollowInv, NEW r \in Registered
  PROVE  /\ got[r] # << >> => At(r) = Reached(r) /\ Reached(r) \in 1 .. Len(posted)
         /\ got[r] = << >> /\ Queued = {} => At(r) = Len(posted)
         /\ \A i \in Queued : got[r] = << >> /\ (\A j \in Queued : Sn(i) <= Sn(j)) => At(r) = Sn(i)
         /\ At(r) \in 0 .. Len(posted) /\ At(r) # -1
<1>0. /\ r \in Receivers /\ Types /\ Linked /\ PostedInv /\ Follows(r) /\ Given(r) /\ Queued \subseteq Slots
      /\ \A i \in Queued : Sn(i) \in Nat /\ Sn(i) < numMessages
  <2>1. r \in Receivers /\ Types /\ Linked /\ PostedInv /\ Follows(r) /\ Given(r) /\ Queued \subseteq Slots
    BY LinkedFacts DEF IInv, FollowInv, Registered
  <2>2. \A i \in Queued : Sn(i) \in Nat
    BY <2>1 DEF Types, Entry, Sn
  <2>3. \A i \in Queued : Sn(i) < numMessages
    BY <2>1 DEF IInv, SentInv
  <2> QED
    BY <2>1, <2>2, <2>3
<1>1. posted \in Seq(Regions) /\ got[r] \in Seq(Regions) /\ Len(posted) = numMessages /\ Len(posted) \in Nat
  BY <1>0 DEF Types
<1>2. ASSUME got[r] # << >>
      PROVE  At(r) = Reached(r) /\ Reached(r) \in 1 .. Len(posted)
  <2>1. Reached(r) >= 1 /\ posted[Reached(r)] = got[r][Len(got[r])]
    BY <1>0, <1>2 DEF Given
  <2>2. PICK c, n, pc : c = rcv[r].curit /\ n = rcv[r].nextMessage /\ pc = rcv[r].pc
    OBVIOUS
  <2>3. n \in Nat /\ n <= numMessages
    <3>1. rcv[r] \in RcvState
      BY <1>0 DEF Types
    <3> QED
      BY <1>0, <2>2, <3>1 DEF Follows, RcvState
  <2>4. pc = "number" => c \in Queued
    BY <1>0, <2>2 DEF Follows
  <2>5. Reached(r) \in Nat /\ Reached(r) <= numMessages
    <3>1. CASE pc = "number"
      <4>1. Reached(r) = Sn(c) + 1
        BY <2>2, <3>1 DEF Reached
      <4>2. Sn(c) \in Nat /\ Sn(c) < numMessages /\ numMessages \in Nat
        BY <1>0, <1>1, <2>4, <3>1
      <4> QED
        BY <4>1, <4>2
    <3>2. CASE pc # "number"
      BY <2>2, <2>3, <3>2 DEF Reached
    <3> QED
      BY <3>1, <3>2
  <2>6. Reached(r) \in 1 .. Len(posted)
    BY <1>1, <2>1, <2>5
  <2>7. Last(got[r]) = posted[Reached(r)]
    BY <2>1 DEF Last
  <2>8. DOMAIN posted = 1 .. Len(posted)
    BY <1>1
  <2>9. Place(Last(got[r])) = Reached(r)
    BY <1>0, <2>6, <2>7, <2>8, PlaceOf DEF Place, PostedInv
  <2> QED
    BY <1>2, <2>6, <2>9 DEF At
<1>3. /\ Queued = {U[k] : k \in 1 .. Len(U)} /\ Len(U) \in Nat /\ Ascending
      /\ mq.activeBegin = After(U, 1)
  <2>1. Layout(mq, U, F)
    BY <1>0, ShapeFacts DEF Linked
  <2>2. mq.activeBegin = After(U, 1)
    BY <2>1, Zenon DEF Layout
  <2> QED
    BY <1>0, <2>2, LinkedFacts DEF IInv
<1>4. ASSUME got[r] = << >>, Queued = {}
      PROVE  At(r) = Len(posted)
  <2>1. Len(U) \notin 1 .. Len(U) /\ 1 \notin 1 .. Len(U)
    BY <1>3, <1>4
  <2>2. mq.activeBegin = End
    BY <1>3, <2>1 DEF After
  <2> QED
    BY <1>4, <2>2 DEF At
<1>5. ASSUME NEW i \in Queued, got[r] = << >>, \A j \in Queued : Sn(i) <= Sn(j)
      PROVE  At(r) = Sn(i)
  <2>1. PICK k \in 1 .. Len(U) : i = U[k]
    BY <1>3
  <2>2. 1 \in 1 .. Len(U) /\ (k = 1 \/ 1 < k)
    BY <1>3
  <2>3. U[1] \in Queued
    BY <1>3, <2>2
  <2>4. k = 1
    <3>1. 1 < k => Sn(U[1]) < Sn(i)
      BY <1>3, <2>1, <2>2 DEF Ascending
    <3>2. Sn(i) <= Sn(U[1]) /\ Sn(i) \in Nat /\ Sn(U[1]) \in Nat
      BY <1>0, <1>5, <2>3
    <3> QED
      BY <2>2, <3>1, <3>2
  <2>5. mq.activeBegin = i /\ i # End
    <3>1. i # End
      BY <1>0, LinkedFacts
    <3> QED
      BY <1>3, <2>1, <2>2, <2>4, <3>1 DEF After
  <2> QED
    BY <1>5, <2>5 DEF At, Sn
<1>6. ASSUME got[r] = << >>, Queued # {}
      PROVE  \E i \in Queued : \A j \in Queued : Sn(i) <= Sn(j)
  <2>1. 1 \in 1 .. Len(U)
    BY <1>3, <1>6
  <2>2. U[1] \in Queued
    BY <1>3, <2>1
  <2>3. ASSUME NEW j \in Queued PROVE Sn(U[1]) <= Sn(j)
    <3>1. PICK k \in 1 .. Len(U) : j = U[k]
      BY <1>3
    <3>2. k = 1 \/ 1 < k
      OBVIOUS
    <3> QED
      BY <1>0, <1>3, <2>1, <2>2, <3>1, <3>2 DEF Ascending
  <2> QED
    BY <2>2, <2>3
<1>7. At(r) \in 0 .. Len(posted)
  <2>1. CASE got[r] # << >>
    BY <1>1, <1>2, <2>1
  <2>2. CASE got[r] = << >> /\ Queued = {}
    BY <1>1, <1>4, <2>2
  <2>3. CASE got[r] = << >> /\ Queued # {}
    BY <1>0, <1>1, <1>5, <1>6, <2>3
  <2> QED
    BY <2>1, <2>2, <2>3
<1>8. At(r) # -1
  BY <1>1, <1>7
<1> QED
  BY <1>2, <1>4, <1>5, <1>7, <1>8
\* Where the receivers are, as the feed sees them.
Where == [r \in Receivers |-> At(r)]

\* A receiver that stays where it is while the log may grow.
LEMMA AtSame ==
  ASSUME NEW q \in Receivers, PostedInv', Types, Types', slotOf'[q] = slotOf[q], got'[q] = got[q],
         posted' = posted \/ \E m \in Regions : posted' = Append(posted, m),
         got[q] # << >> => Last(got[q]) \in ToSet(posted),
         \/ q \notin Registered
         \/ got[q] # << >>
         \/ mq'.activeBegin = mq.activeBegin /\ posted' = posted
            /\ (mq.activeBegin # End => entries'[mq.activeBegin].sn = entries[mq.activeBegin].sn)
  PROVE  At(q)' = At(q)
<1>1. q \in Registered' <=> q \in Registered
  BY DEF Registered
<1>2. CASE q \notin Registered
  BY <1>1, <1>2 DEF At
<1>3. CASE q \in Registered /\ got[q] # << >>
  <2>1. posted \in Seq(Regions) /\ posted' \in Seq(Regions)
    BY DEF Types
  <2>2. PICK k \in 1 .. Len(posted) : posted[k] = Last(got[q])
    BY <1>3, <2>1, Members
  <2>3. k \in 1 .. Len(posted') /\ posted'[k] = posted[k]
    <3>1. CASE posted' = posted
      BY <3>1
    <3>2. ASSUME NEW m \in Regions, posted' = Append(posted, m)
          PROVE  k \in 1 .. Len(posted') /\ posted'[k] = posted[k]
      BY <2>1, <3>2, AppendProperties
    <3> QED
      BY <3>1, <3>2
  <2>4. DOMAIN posted = 1 .. Len(posted) /\ DOMAIN posted' = 1 .. Len(posted')
    BY <2>1
  <2>5. \A j \in 1 .. Len(posted') : posted'[j] = posted'[k] => j = k
    BY <2>3 DEF PostedInv
  <2>6. \A j \in 1 .. Len(posted) : j \in 1 .. Len(posted') /\ posted'[j] = posted[j]
    <3>1. CASE posted' = posted
      BY <3>1
    <3>2. ASSUME NEW m \in Regions, posted' = Append(posted, m)
          PROVE  \A j \in 1 .. Len(posted) : j \in 1 .. Len(posted') /\ posted'[j] = posted[j]
      BY <2>1, <3>2, AppendProperties
    <3> QED
      BY <3>1, <3>2
  <2>7. \A j \in 1 .. Len(posted) : posted[j] = posted[k] => j = k
    BY <2>5, <2>6
  <2>8. Place(Last(got[q])) = k
    BY <2>2, <2>4, <2>7, PlaceOf DEF Place
  <2>9. Place(Last(got[q]))' = k
    <3>1. (CHOOSE j \in DOMAIN posted' : posted'[j] = posted'[k]) = k
      BY <2>3, <2>4, <2>5, PlaceOf
    <3> QED
      BY <2>2, <2>3, <3>1 DEF Place
  <2> QED
    BY <1>1, <1>3, <2>8, <2>9 DEF At
<1>4. CASE /\ q \in Registered /\ got[q] = << >>
           /\ mq'.activeBegin = mq.activeBegin /\ posted' = posted
           /\ (mq.activeBegin # End => entries'[mq.activeBegin].sn = entries[mq.activeBegin].sn)
  BY <1>1, <1>4 DEF At
<1> QED
  BY <1>2, <1>3, <1>4
\* A receiver's steps do not move the others.
LEMMA AtOthers ==
  ASSUME IInv, FollowInv, [Next]_vars, NEW r \in Receivers, Reading(r) \/ Membership(r),
         NEW q \in Receivers, q # r \/ (slotOf' = slotOf /\ got' = got /\ (mq' = mq \/ got[r] # << >>))
  PROVE  At(q)' = At(q)
<1>0. /\ Types /\ Types' /\ PostedInv' /\ Linked /\ entries \in [Slots -> Entry]
      /\ posted' = posted
  BY TypesKept, PostedKept, SendersAlone DEF IInv, Types
<1>1. slotOf'[q] = slotOf[q] /\ got'[q] = got[q]
  BY <1>0, OneReceiver
<1>2. got[q] # << >> => Last(got[q]) \in ToSet(posted)
  <2> SUFFICES ASSUME got[q] # << >> PROVE Last(got[q]) \in ToSet(posted)
    OBVIOUS
  <2>1. LastGiven(q)
    BY DEF IInv, OrderInv
  <2>2. PICK g \in 1 .. Len(posted) : posted[g] = got[q][Len(got[q])]
    BY <2>1 DEF LastGiven
  <2>3. posted \in Seq(Regions)
    BY <1>0 DEF Types
  <2> QED
    BY <2>2, <2>3, Members DEF Last
<1>3. ASSUME q \in Registered, got[q] = << >>
      PROVE  mq'.activeBegin = mq.activeBegin
             /\ (mq.activeBegin # End => entries'[mq.activeBegin].sn = entries[mq.activeBegin].sn)
  <2>1. Follows(q) /\ Given(q) /\ \A i \in Queued : i \in Slots /\ Sn(i) \in Nat
    <3>1. \A i \in Queued : i \in Slots
      BY <1>0, LinkedFacts
    <3> QED
      BY <1>0, <1>3, <3>1 DEF FollowInv, Entry, Sn
  <2>2. Upto(q) = 0
    BY <1>3, <2>1 DEF Given, Upto
  <2>3. \A i \in Queued : ~Read(q, i)
    BY <2>1, <2>2 DEF Follows
  <2>4. Trim(r)
    BY Trimmed
  <2>5. mq' = mq
    <3>1. CASE q # r
      <4>1. \A i \in Queued : i \in Queued'
        BY <1>3, <2>3, <2>4, <3>1 DEF Trim
      <4> QED
        BY <2>1, <2>4, <4>1 DEF Trim
    <3>2. CASE q = r
      BY <1>3, <3>2
    <3> QED
      BY <3>1, <3>2
  <2>6. mq.activeBegin # End => mq.activeBegin \in Slots
    <3>1. Layout(mq, U, F)
      BY <1>0, ShapeFacts DEF Linked
    <3>2. mq.activeBegin = After(U, 1) /\ \A k \in 1 .. Len(U) : U[k] \in Slots
      BY <3>1, Zenon DEF Layout
    <3> QED
      BY <3>2 DEF After
  <2> QED
    BY <2>4, <2>5, <2>6 DEF Trim
<1> QED
  BY <1>0, <1>1, <1>2, <1>3, AtSame

LEMMA FeedPublishes ==
  ASSUME IInv, FollowInv, [Next]_vars, NEW s \in Senders, NEW m \in Regions, WithRoom(s, m),
         UNCHANGED <<rcvrs, slotOf, rcv, got>>
  PROVE  Feed!Publish(m)
<1>0. Types /\ Types' /\ PostedInv' /\ Linked /\ entries \in [Slots -> Entry] /\ Queued \subseteq Slots
  BY TypesKept, PostedKept, LinkedFacts DEF IInv, Types
<1>1. PICK x : x = F[1]
  OBVIOUS
<1>2. /\ x \in Slots /\ x \notin Queued /\ Grown(U, x, U') /\ Linked'
  BY <1>0, <1>1, ListPosts DEF WithRoom
<1>3. /\ entries' = [entries EXCEPT ![x] = [msg |-> m, sn |-> numMessages, readFlags |-> {}, numRead |-> 0]]
      /\ posted' = Append(posted, m)
  BY <1>1 DEF WithRoom, Posted
<1>4. entries'[x].sn = numMessages /\ \A i \in Queued : entries'[i] = entries[i]
  <2>1. entries'[x] = [msg |-> m, sn |-> numMessages, readFlags |-> {}, numRead |-> 0]
    BY <1>0, <1>2, <1>3
  <2>2. \A i \in Queued : entries'[i] = entries[i]
    BY <1>0, <1>2, <1>3
  <2> QED
    BY <2>1, <2>2
<1>5. /\ mq.activeBegin = After(U, 1) /\ mq'.activeBegin = After(U', 1)
      /\ Queued = {U[k] : k \in 1 .. Len(U)} /\ Len(U) \in Nat /\ \A k \in 1 .. Len(U) : U[k] \in Queued
  <2>1. Layout(mq, U, F) /\ Layout(mq', U', F')
    BY <1>0, <1>2, ShapeFacts DEF Linked
  <2>2. mq.activeBegin = After(U, 1) /\ mq'.activeBegin = After(U', 1)
    BY <2>1, Zenon DEF Layout
  <2> QED
    BY <1>0, <2>2, LinkedFacts
<1>6. ASSUME NEW q \in Receivers PROVE At(q)' = At(q)
  <2>1. got[q] # << >> => Last(got[q]) \in ToSet(posted)
    <3> SUFFICES ASSUME got[q] # << >> PROVE Last(got[q]) \in ToSet(posted)
      OBVIOUS
    <3>1. LastGiven(q)
      BY DEF IInv, OrderInv
    <3>2. PICK g \in 1 .. Len(posted) : posted[g] = got[q][Len(got[q])]
      BY <3>1 DEF LastGiven
    <3>3. posted \in Seq(Regions)
      BY <1>0 DEF Types
    <3> QED
      BY <3>2, <3>3, Members DEF Last
  <2>2. CASE q \notin Registered \/ got[q] # << >>
    BY <1>0, <1>3, <2>1, <2>2, AtSame
  <2>3. CASE q \in Registered /\ got[q] = << >>
    <3>1. q \in Registered' /\ got'[q] = << >>
      BY <2>3 DEF Registered
    <3>2. CASE U = << >>
      <4>1. Len(U) = 0 /\ 1 \notin 1 .. Len(U)
        BY <3>2
      <4>2. 1 \in 1 .. Len(U') /\ U'[1] = x
        BY <1>2, <4>1 DEF Grown
      <4>3. mq.activeBegin = End /\ mq'.activeBegin = x /\ x # End
        <5>1. x # End
          BY <1>0, <1>2, LinkedFacts
        <5> QED
          BY <1>5, <4>1, <4>2, <5>1 DEF After
      <4>4. Len(posted) = numMessages
        BY <1>0 DEF Types
      <4> QED
        BY <1>4, <2>3, <3>1, <4>3, <4>4 DEF At
    <3>3. CASE U # << >>
      <4>1. Len(U) # 0
        BY <1>0, <3>3, LinkedFacts, EmptySeq
      <4>2. 1 \in 1 .. Len(U) /\ 1 \in 1 .. Len(U') /\ U'[1] = U[1]
        BY <1>2, <1>5, <4>1 DEF Grown
      <4>3. mq.activeBegin = U[1] /\ mq'.activeBegin = U[1] /\ U[1] \in Queued
        BY <1>5, <4>2 DEF After
      <4>4. U[1] # End
        BY <1>0, <4>3, LinkedFacts
      <4> QED
        BY <1>4, <2>3, <3>1, <4>3, <4>4 DEF At
    <3> QED
      BY <3>2, <3>3
  <2> QED
    BY <2>2, <2>3
<1> QED
  BY <1>3, <1>6 DEF Feed!Publish

LEMMA FeedDelivers ==
  ASSUME IInv, FollowInv, [Next]_vars, NEW r \in Receivers, peekNextMessage(r)
  PROVE  Feed!Deliver(r) \/ UNCHANGED Feed!vars
<1>1. PICK c, n, pc : c = rcv[r].curit /\ n = rcv[r].nextMessage /\ pc = rcv[r].pc
  OBVIOUS
<1>2. pc = "peek"
  BY <1>1 DEF peekNextMessage, ReceiverAt
<1>3. /\ r \in Registered /\ Follows(r) /\ Given(r) /\ n \in Nat /\ n <= numMessages
      /\ Queued \subseteq Slots /\ numMessages \in Nat /\ \A i \in Slots : Sn(i) \in Nat
  BY <1>1, <1>2, OwnStep
<1>4. /\ Types /\ Linked /\ SentInv /\ PostedInv /\ got \in [Receivers -> Seq(Regions)] /\ Types' /\ PostedInv'
      /\ posted \in Seq(Regions) /\ Len(posted) = numMessages
  BY TypesKept, PostedKept DEF IInv, Types
<1>5. PICK it : it = findCurrentMessage(r)
  OBVIOUS
<1>6. /\ rcv'[r].curit = it
      /\ it = End => got' = got
      /\ it # End => rcv'[r].pc = "number" /\ got' = [got EXCEPT ![r] = Append(@, entries[it].msg)]
  BY <1>1, <1>4, <1>5, PeekStep
<1>7. mq' = mq /\ entries' = entries /\ slotOf' = slotOf /\ posted' = posted
  BY DEF peekNextMessage, queueVars, senderVars
<1>8. ASSUME NEW q \in Receivers, q # r PROVE At(q)' = At(q)
  BY <1>8, AtOthers DEF Reading
<1>9. CASE it = End
  <2>1. At(r)' = At(r)
    BY <1>6, <1>7, <1>9, AtOthers DEF Reading
  <2>2. [q \in Receivers |-> At(q)]' = [q \in Receivers |-> At(q)]
    BY <1>8, <2>1
  <2> QED
    BY <1>6, <1>7, <1>9, <2>2 DEF Feed!vars
<1>10. CASE it # End
  <2>1. Queued' = Queued /\ \A i : Sn(i)' = Sn(i) /\ Read(r, i)' = Read(r, i)
    BY <1>7, LinkedSame DEF Sn, Read
  <2>2. Follows(r)'
    BY FollowPeeks
  <2>3. Upto(r)' = Sn(it) /\ Upto(r) = n /\ Reached(r) = n
    BY <1>1, <1>2, <1>6, <1>10, <2>1 DEF Upto, Reached
  <2>4. /\ it \in Queued
        /\ \A i \in Queued : Sn(i) < n <=> Sn(i) < Sn(it)
    <3>1. it \in Queued
      BY <1>6, <1>10, <2>1, <2>2 DEF Follows
    <3>2. \A i \in Queued : Read(r, i) <=> Sn(i) < Sn(it)
      BY <2>1, <2>2, <2>3 DEF Follows
    <3>3. \A i \in Queued : Read(r, i) <=> Sn(i) < n
      BY <1>3, <2>3 DEF Follows
    <3> QED
      BY <3>1, <3>2, <3>3
  <2>5. /\ Sn(it) \in Nat /\ Sn(it) < numMessages /\ Sn(it) + 1 \in 1 .. Len(posted)
        /\ posted[Sn(it) + 1] = entries[it].msg /\ entries[it].msg \in Regions
    BY <1>3, <1>4, <2>4, QueuedPosted
  <2>6. At(r) = Sn(it)
    <3>1. CASE got[r] # << >>
      <4>1. At(r) = n
        BY <1>3, <2>3, <3>1, AtGiven
      <4>2. ~(Sn(it) < n)
        BY <2>4, <2>5
      <4>3. n \in Upto(r) .. numMessages - 1
        BY <1>3, <2>3, <2>5, <4>2
      <4>4. PICK j \in Queued : Sn(j) = n
        BY <1>3, <3>1, <4>3 DEF Given, There
      <4>5. ~(n < Sn(it))
        BY <1>3, <2>4, <4>4
      <4> QED
        BY <1>3, <2>5, <4>1, <4>2, <4>5
    <3>2. CASE got[r] = << >>
      <4>1. n = 0
        BY <1>1, <1>3, <3>2 DEF Given
      <4>2. \A j \in Queued : Sn(j) \in Nat
        BY <1>3
      <4>3. \A j \in Queued : Sn(it) <= Sn(j)
        BY <2>4, <2>5, <4>1, <4>2
      <4> QED
        BY <1>3, <2>4, <3>2, <4>3, AtGiven
    <3> QED
      BY <3>1, <3>2
  <2>7. got'[r] = Append(got[r], entries[it].msg) /\ got[r] \in Seq(Regions)
    BY <1>4, <1>6, <1>10
  <2>8. got'[r] # << >> /\ Last(got'[r]) = entries[it].msg
    BY <2>5, <2>7, AppendProperties, SMTT(30) DEF Last
  <2>9. At(r)' = Sn(it) + 1
    <3>1. DOMAIN posted = 1 .. Len(posted)
      BY <1>4
    <3>2. PICK k : k = Sn(it) + 1
      OBVIOUS
    <3>3. (CHOOSE j \in DOMAIN posted : posted[j] = posted[k]) = k
      <4>1. k \in DOMAIN posted
        BY <2>5, <3>1, <3>2
      <4>2. \A j \in DOMAIN posted : posted[j] = posted[k] => j = k
        BY <1>4, <3>1, <4>1 DEF PostedInv
      <4> QED
        BY <4>1, <4>2, PlaceOf
    <3>4. Place(Last(got[r]))' = k
      BY <1>7, <2>5, <2>8, <3>2, <3>3 DEF Place
    <3>5. r \in Registered'
      BY <1>3, <1>7 DEF Registered
    <3> QED
      BY <2>8, <3>2, <3>4, <3>5 DEF At
  <2>10. [q \in Receivers |-> At(q)]' = [[q \in Receivers |-> At(q)] EXCEPT ![r] = @ + 1]
    BY <1>8, <2>6, <2>9
  <2>11. At(r) # -1 /\ At(r) < Len(posted)
    BY <1>4, <2>5, <2>6
  <2>12. got' = [got EXCEPT ![r] = Append(@, posted[At(r) + 1])]
    BY <1>6, <1>10, <2>5, <2>6
  <2> QED
    BY <1>7, <2>10, <2>11, <2>12 DEF Feed!Deliver, Feed!Nowhere
<1> QED
  BY <1>9, <1>10

LEMMA FeedJoins ==
  ASSUME IInv, FollowInv, [Next]_vars, NEW r \in Receivers, addReceiver(r)
  PROVE  Feed!Join(r)
<1>0. /\ Types /\ Linked /\ PlaceInv /\ RcvrsInv /\ Queued \subseteq Slots /\ numMessages \in Nat
      /\ posted \in Seq(Regions) /\ Len(posted) = numMessages
      /\ entries \in [Slots -> Entry]
  BY LinkedFacts DEF IInv, Types
<1>1. rcv[r].pc = "new" /\ got[r] = << >>
  BY <1>0 DEF addReceiver, ReceiverAt, PlaceInv
<1>2. At(r) = -1
  BY <1>0, <1>1 DEF RcvrsInv, At, Registered
<1>3. mq' = mq /\ entries' = entries /\ got' = got /\ posted' = posted
  BY DEF addReceiver, queueVars, senderVars
<1>4. \A q \in Receivers : q # r => At(q)' = At(q)
  BY AtOthers DEF Membership
<1>5. r \in Registered'
  <2>1. rcvrs \in Pool(RSlots) /\ Sound(rcvrs) /\ ~IsFull(rcvrs) /\ slotOf' = [slotOf EXCEPT ![r] = NextSlot(rcvrs)]
        /\ slotOf \in [Receivers -> RSlots \cup {End}]
    BY <1>0 DEF RcvrsInv, addReceiver, Types
  <2>2. rcvrs.used \in Seq(RSlots) /\ Len(rcvrs.used) + 1 \in 1 .. Len(rcvrs.used) + 1
    BY <2>1 DEF Pool
  <2>3. NextSlot(rcvrs) \in RSlots
    BY <2>1, <2>2, InsertFacts
  <2>4. slotOf'[r] # End
    BY <2>1, <2>3 DEF RSlots, End
  <2> QED
    BY <2>4 DEF Registered
<1>6. At(r)' \in 0 .. Len(posted)
  <2>1. mq.activeBegin # End => entries[mq.activeBegin].sn \in 0 .. Len(posted)
    <3>1. Layout(mq, U, F)
      BY <1>0, ShapeFacts DEF Linked
    <3>2. mq.activeBegin = After(U, 1)
      BY <3>1, Zenon DEF Layout
    <3>3. mq.activeBegin # End => mq.activeBegin \in Queued
      BY <1>0, <3>2, LinkedFacts DEF After
    <3>4. \A i \in Queued : entries[i].sn \in Nat /\ entries[i].sn < numMessages
      BY <1>0 DEF IInv, SentInv, Sn, Entry
    <3> QED
      BY <1>0, <3>3, <3>4
  <2>2. Len(posted) \in 0 .. Len(posted)
    BY <1>0
  <2> QED
    BY <1>1, <1>3, <1>5, <2>1, <2>2 DEF At
<1>7. [q \in Receivers |-> At(q)]' = [[q \in Receivers |-> At(q)] EXCEPT ![r] = At(r)']
  BY <1>4
<1> QED
  BY <1>2, <1>3, <1>6, <1>7 DEF Feed!Join, Feed!Nowhere
LEMMA FeedStep ==
  ASSUME IInv, [Next]_vars, lost' = {}
  PROVE  Feed!Next \/ UNCHANGED Feed!vars
<1>0. Types
  BY DEF IInv
<1>1. ASSUME lost = {} PROVE FollowInv
  BY <1>1 DEF IInv, FollowI
<1>2. CASE /\ mq' = mq /\ entries' = entries /\ posted' = posted /\ slotOf' = slotOf /\ got' = got
  <2>1. [q \in Receivers |-> At(q)]' = [q \in Receivers |-> At(q)]
    BY <1>2 DEF At, Registered, Place
  <2> QED
    BY <1>2, <2>1 DEF Feed!vars
<1>3. CASE Sends
  <2>1. PICK s \in Senders, m \in Regions : Quiet(s, m) \/ WithRoom(s, m) \/ InPlace(s, m)
    BY <1>3 DEF Sends
  <2>2. UNCHANGED <<rcvrs, slotOf, rcv, got>>
    BY <1>3 DEF Sends
  <2>3. CASE Quiet(s, m)
    BY <1>2, <2>2, <2>3 DEF Quiet
  <2>4. CASE WithRoom(s, m)
    <3>1. lost = {}
      BY <2>4 DEF WithRoom
    <3>2. Feed!Publish(m)
      BY <1>1, <2>2, <2>4, <3>1, FeedPublishes
    <3> QED
      BY <3>2 DEF Feed!Next
  <2>5. CASE InPlace(s, m)
    BY <2>5 DEF InPlace
  <2> QED
    BY <2>1, <2>3, <2>4, <2>5
<1>4. ASSUME NEW s \in Senders, ReleaseOwn(s) PROVE Feed!Next \/ UNCHANGED Feed!vars
  BY <1>2, <1>4 DEF ReleaseOwn
<1>5. CASE Elsewhere
  BY <1>2, <1>5 DEF Elsewhere
<1>6. ASSUME NEW r \in Receivers, Reading(r) \/ Membership(r) PROVE Feed!Next \/ UNCHANGED Feed!vars
  <2>1. lost = {} /\ posted' = posted
    BY <1>6, SendersAlone
  <2>2. FollowInv
    BY <1>1, <2>1
  <2>3. ASSUME NEW q \in Receivers, q # r PROVE At(q)' = At(q)
    BY <1>6, <2>2, <2>3, AtOthers
  <2>4. CASE waitNextMessage(r) \/ readNumber(r) \/ advance(r) \/ release(r) \/ start(r) \/ finish(r) \/ joined(r)
    BY <1>2, <2>1, <2>4 DEF waitNextMessage, readNumber, advance, release, start, finish, joined, queueVars
  <2>5. CASE markRead(r)
    <3>1. got[r] # << >>
      <4>1. PICK c, n, pc : c = rcv[r].curit /\ n = rcv[r].nextMessage /\ pc = rcv[r].pc
        OBVIOUS
      <4>2. pc = "mark"
        BY <2>5, <4>1 DEF markRead, ReceiverAt
      <4>3. Given(r)
        BY <2>2, <4>1, <4>2, OwnStep
      <4> QED
        BY <4>1, <4>2, <4>3 DEF Given
    <3>2. slotOf' = slotOf /\ got' = got
      BY <2>5 DEF markRead
    <3>3. At(r)' = At(r)
      BY <1>6, <2>2, <3>1, <3>2, AtOthers
    <3>4. [q \in Receivers |-> At(q)]' = [q \in Receivers |-> At(q)]
      BY <2>3, <3>3
    <3> QED
      BY <2>1, <3>2, <3>4 DEF Feed!vars
  <2>6. CASE peekNextMessage(r)
    <3>1. Feed!Deliver(r) \/ UNCHANGED Feed!vars
      BY <2>2, <2>6, FeedDelivers
    <3> QED
      BY <3>1 DEF Feed!Next
  <2>7. CASE addReceiver(r)
    <3>1. Feed!Join(r)
      BY <2>2, <2>7, FeedJoins
    <3> QED
      BY <3>1 DEF Feed!Next
  <2>8. CASE removeReceiver(r)
    <3>1. r \in Registered
      BY <2>8, Leaves
    <3>2. At(r) # -1
      BY <2>2, <3>1, AtGiven
    <3>3. At(r)' = -1
      <4>1. slotOf' = [slotOf EXCEPT ![r] = End] /\ slotOf \in [Receivers -> RSlots \cup {End}]
        BY <1>0, <2>8 DEF removeReceiver, Types
      <4>2. slotOf'[r] = End
        BY <4>1
      <4> QED
        BY <4>2 DEF At, Registered
    <3>4. [q \in Receivers |-> At(q)]' = [[q \in Receivers |-> At(q)] EXCEPT ![r] = -1]
      BY <2>3, <3>3
    <3>5. Feed!Leave(r)
      <4>1. got' = got
        BY <2>8 DEF removeReceiver
      <4> QED
        BY <2>1, <3>2, <3>4, <4>1 DEF Feed!Leave, Feed!Nowhere
    <3> QED
      BY <3>5 DEF Feed!Next
  <2> QED
    BY <1>6, <2>4, <2>5, <2>6, <2>7, <2>8 DEF Reading, Membership
<1> QED
  BY <1>3, <1>4, <1>5, <1>6, StepCases

(* As long as nothing is thrown out, the queue of linked slots with its    *)
(* flags, counts and positions outside the lock is one log, of which every *)
(* receiver is given every message from where it joined, in order.         *)
THEOREM FollowsFeed == Spec => ImplementsFeed
<1>1. Init => Feed!Init
  <2> SUFFICES ASSUME Init PROVE Feed!Init
    OBVIOUS
  <2>1. posted = << >> /\ got = [r \in Receivers |-> << >>] /\ slotOf = [r \in Receivers |-> End]
    BY DEF Init
  <2>2. [r \in Receivers |-> At(r)] = [r \in Receivers |-> -1]
    BY <2>1 DEF At, Registered
  <2> QED
    BY <2>1, <2>2 DEF Feed!Init, Feed!Nowhere
<1>2. IInv /\ [Next]_vars => [lost' = {} => Feed!Next]_(Feed!vars)
  BY FeedStep
<1> QED
  BY <1>1, <1>2, Inductive, PTL DEF Spec, ImplementsFeed
===============================================================================
