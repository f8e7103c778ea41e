------------------------- MODULE MotionManagerProofs --------------------------
(***************************************************************************)
(* Proofs about MotionManager, for any commands and any number of entries. *)
(***************************************************************************)
EXTENDS MotionManager, SequenceTheorems, TLAPS

-------------------------------------------------------------------------------
(* The list of entries: what PoolOps does to the set of its used slots     *)

Injective(s) == \A j, k \in 1 .. Len(s) : s[j] = s[k] => j = k

Pool(S) == [used : Seq(S), free : Seq(S)]

\* No slot is listed twice, used or free.
Sound(p) == /\ Injective(p.used) /\ Injective(p.free)
            /\ \A j \in 1 .. Len(p.used), k \in 1 .. Len(p.free) : p.used[j] # p.free[k]

LEMMA Members ==
  ASSUME NEW S, NEW s \in Seq(S)
  PROVE  /\ Len(s) \in Nat /\ DOMAIN s = 1 .. Len(s) /\ \A k \in 1 .. Len(s) : s[k] \in S
         /\ Range(s) = {s[k] : k \in 1 .. Len(s)} /\ Range(s) \in SUBSET S
  BY LenProperties, ElementOfSeq DEF Range

LEMMA EmptyPoolFacts ==
  ASSUME NEW max \in Nat
  PROVE  /\ EmptyPool(max) \in Pool(0 .. max - 1) /\ Sound(EmptyPool(max))
         /\ UsedSlots(EmptyPool(max)) = {}
<1> DEFINE f == [i \in 1 .. max |-> i - 1]
<1>1. \A i \in 1 .. max : i - 1 \in 0 .. max - 1
  OBVIOUS
<1>2. f \in Seq(0 .. max - 1) /\ Len(f) = max /\ \A i \in 1 .. max : f[i] = i - 1
  <2>1. f \in [1 .. max -> 0 .. max - 1]
    BY <1>1
  <2>2. DOMAIN f = 1 .. max
    OBVIOUS
  <2> HIDE DEF f
  <2> QED
    BY <2>1, <2>2, SeqDef, LenProperties DEF f
<1> HIDE DEF f
<1>3. EmptyPool(max) = [used |-> << >>, free |-> f]
  BY DEF EmptyPool, f
<1>4. << >> \in Seq(0 .. max - 1) /\ Len(<< >>) = 0
  BY EmptySeq
<1>5. Injective(f)
  BY <1>2 DEF Injective
<1>6. Range(<< >>) = {}
  BY DEF Range
<1> QED
  BY <1>2, <1>3, <1>4, <1>5, <1>6 DEF Pool, Sound, Injective, UsedSlots

LEMMA PushFrontFacts ==
  ASSUME NEW S, NEW p \in Pool(S), Sound(p), ~IsFull(p)
  PROVE  /\ PushFront(p) \in Pool(S) /\ Sound(PushFront(p))
         /\ NextSlot(p) \in S /\ NextSlot(p) \notin UsedSlots(p)
         /\ UsedSlots(PushFront(p)) = UsedSlots(p) \cup {NextSlot(p)}
<1> DEFINE x == Head(p.free)
           one == <<x>>
           s == p.used
           u == one \o s
           f == Tail(p.free)
           n == Len(s)
           l == Len(p.free)
<1>1. s \in Seq(S) /\ p.free \in Seq(S) /\ p.free # << >> /\ NextSlot(p) = x
  BY DEF Pool, IsFull, NextSlot
<1>2. n \in Nat /\ l \in Nat /\ l # 0 /\ Range(s) = {s[k] : k \in 1 .. n}
  BY <1>1, Members, EmptySeq
<1>3. x = p.free[1] /\ x \in S /\ f \in Seq(S) /\ Len(f) = l - 1 /\ \A k \in 1 .. l - 1 : f[k] = p.free[k + 1]
  BY <1>1, <1>2, HeadTailProperties
<1>4. PushFront(p) = [used |-> u, free |-> f]
  <2>1. SubSeq(s, 1, 0) = << >>
    BY SubSeqEmpty
  <2>2. SubSeq(s, 1, Len(s)) = s
    BY <1>1, SubSeqFull
  <2>3. << >> \o one = one
    OBVIOUS
  <2> HIDE DEF x, one, f
  <2>4. SubSeq(s, 1, 1 - 1) \o one \o SubSeq(s, 1, Len(s)) = u
    BY <2>1, <2>2, <2>3
  <2> QED
    BY <2>4 DEF PushFront, Insert, x, f, one
<1>5. one \in Seq(S) /\ Len(one) = 1 /\ one[1] = x
  BY <1>3
<1> HIDE DEF x, one, f
<1>6. u \in Seq(S) /\ Len(u) = 1 + n /\ \A k \in 1 .. 1 + n : u[k] = IF k <= 1 THEN one[k] ELSE s[k - 1]
  <2> HIDE DEF s
  <2>1. /\ one \o s \in Seq(S) /\ Len(one \o s) = Len(one) + Len(s)
        /\ \A k \in 1 .. Len(one) + Len(s) : (one \o s)[k] = IF k <= Len(one) THEN one[k] ELSE s[k - Len(one)]
    BY <1>1, <1>5, ConcatProperties
  <2> QED
    BY <1>5, <2>1
<1> HIDE DEF u, n, l
<1>7. /\ Injective(s) /\ Injective(p.free)
      /\ \A j \in 1 .. n, k \in 1 .. l : s[j] # p.free[k]
  BY DEF Sound, n, l
<1> HIDE DEF s
<1>8. 1 \in 1 .. 1 + n /\ u[1] = x /\ \A k \in 1 .. 1 + n : k # 1 => k - 1 \in 1 .. n /\ u[k] = s[k - 1]
  <2>1. 1 \in 1 .. 1 + n /\ \A k \in 1 .. 1 + n : k # 1 => k - 1 \in 1 .. n /\ ~(k <= 1)
    BY <1>2
  <2> QED
    BY <1>5, <1>6, <2>1
<1>9. \A j, k \in 1 .. 1 + n : j - 1 = k - 1 => j = k
  BY <1>2
<1>10. \A k \in 1 .. l - 1 : k + 1 \in 1 .. l /\ k + 1 # 1
  BY <1>2
<1>11. \A j, k \in 1 .. l - 1 : j + 1 = k + 1 => j = k
  BY <1>2
<1>12. 1 \in 1 .. l /\ \A k \in 1 .. n : s[k] # x
  BY <1>2, <1>3, <1>7
<1>13. \A k \in 1 .. l - 1 : f[k] # x
  BY <1>3, <1>7, <1>10, <1>12 DEF Injective, l
<1>14. Injective(u)
  <2>1. \A j, k \in 1 .. 1 + n : u[j] = u[k] => j = k
    BY <1>7, <1>8, <1>9, <1>12 DEF Injective, n
  <2> QED
    BY <1>6, <2>1 DEF Injective
<1>15. Injective(f)
  <2>1. \A j, k \in 1 .. l - 1 : f[j] = f[k] => j = k
    BY <1>3, <1>7, <1>10, <1>11 DEF Injective, l
  <2> QED
    BY <1>3, <2>1 DEF Injective
<1>16. \A j \in 1 .. 1 + n, k \in 1 .. l - 1 : u[j] # f[k]
  BY <1>3, <1>7, <1>8, <1>10, <1>13
<1>17. PushFront(p) \in Pool(S) /\ Sound(PushFront(p))
  BY <1>3, <1>4, <1>6, <1>14, <1>15, <1>16 DEF Pool, Sound
<1>18. Range(u) = {u[k] : k \in 1 .. 1 + n}
  BY <1>6, Members
<1>19. {u[k] : k \in 1 .. 1 + n} = {s[k] : k \in 1 .. n} \cup {x}
  <2>1. \A k \in 1 .. n : k + 1 \in 1 .. 1 + n /\ k + 1 # 1 /\ k + 1 - 1 = k
    BY <1>2
  <2> QED
    BY <1>8, <2>1
<1>20. UsedSlots(PushFront(p)) = Range(u) /\ UsedSlots(p) = Range(s)
  BY <1>4 DEF UsedSlots, s
<1>21. x \notin {s[k] : k \in 1 .. n}
  BY <1>12
<1> QED
  BY <1>1, <1>2, <1>3, <1>17, <1>18, <1>19, <1>20, <1>21

\* The i-th goes, the later ones move down by one.
Without(s, i) == SubSeq(s, 1, i - 1) \o SubSeq(s, i + 1, Len(s))

LEMMA RemoveOne ==
  ASSUME NEW S, NEW s \in Seq(S), NEW i \in 1 .. Len(s)
  PROVE  /\ Without(s, i) \in Seq(S) /\ Len(Without(s, i)) = Len(s) - 1
         /\ \A k \in 1 .. Len(s) - 1 : Without(s, i)[k] = IF k < i THEN s[k] ELSE s[k + 1]
<1> DEFINE n == Len(s)
           m == i - 1
           j == i + 1
           t == SubSeq(s, 1, m)
           u == SubSeq(s, j, n)
<1>1. n \in Nat /\ i \in Nat /\ 1 <= i /\ i <= n /\ \A k \in 1 .. n : s[k] \in S
  BY Members
<1>2. t \in Seq(S) /\ Len(t) = m /\ \A k \in 1 .. m : t[k] = s[k]
  <2>1. m \in Int /\ m - 1 + 1 = m /\ (IF 1 <= m THEN m - 1 + 1 ELSE 0) = m
    BY <1>1
  <2>2. \A k \in 1 .. m : 1 + k - 1 = k /\ k \in 1 .. n
    BY <1>1
  <2> HIDE DEF m, n
  <2>3. /\ t \in Seq(S) /\ Len(t) = IF 1 <= m THEN m - 1 + 1 ELSE 0
        /\ \A k \in 1 .. m - 1 + 1 : t[k] = s[1 + k - 1]
    BY <1>1, <2>1, <2>2, SubSeqProperties
  <2> HIDE DEF t
  <2> QED
    BY <2>1, <2>2, <2>3
<1>3. u \in Seq(S) /\ Len(u) = n - i /\ \A k \in 1 .. n - i : u[k] = s[i + k]
  <2>1. j \in Int /\ n \in Int /\ n - j + 1 = n - i /\ (IF j <= n THEN n - j + 1 ELSE 0) = n - i
    BY <1>1
  <2>2. \A k \in j .. n : k \in 1 .. n
    BY <1>1
  <2>3. \A k \in 1 .. n - i : j + k - 1 = i + k
    BY <1>1
  <2> HIDE DEF j, n
  <2>4. /\ u \in Seq(S) /\ Len(u) = IF j <= n THEN n - j + 1 ELSE 0
        /\ \A k \in 1 .. n - j + 1 : u[k] = s[j + k - 1]
    BY <1>1, <2>1, <2>2, SubSeqProperties
  <2> HIDE DEF u
  <2> QED
    BY <2>1, <2>3, <2>4
<1>4. Without(s, i) = t \o u
  BY DEF Without
<1> HIDE DEF t, u, j
<1>5. m + (n - i) = n - 1 /\ m \in Nat
  BY <1>1
<1>6. /\ t \o u \in Seq(S) /\ Len(t \o u) = n - 1
      /\ \A k \in 1 .. n - 1 : (t \o u)[k] = IF k <= m THEN t[k] ELSE u[k - m]
  <2> HIDE DEF m, n
  <2>1. /\ t \o u \in Seq(S) /\ Len(t \o u) = Len(t) + Len(u)
        /\ \A k \in 1 .. Len(t) + Len(u) : (t \o u)[k] = IF k <= Len(t) THEN t[k] ELSE u[k - Len(t)]
    BY <1>2, <1>3, ConcatProperties
  <2> QED
    BY <1>2, <1>3, <1>5, <2>1
<1>7. \A k \in 1 .. n - 1 : k < i => k <= m /\ k \in 1 .. m
  BY <1>1
<1>8. \A k \in 1 .. n - 1 : ~(k < i) => ~(k <= m) /\ k - m \in 1 .. n - i /\ i + (k - m) = k + 1
  BY <1>1
<1> HIDE DEF m, n
<1>9. \A k \in 1 .. n - 1 : (t \o u)[k] = IF k < i THEN s[k] ELSE s[k + 1]
  BY <1>2, <1>3, <1>6, <1>7, <1>8
<1> QED
  BY <1>4, <1>6, <1>9 DEF n

LEMMA TakeOutFacts ==
  ASSUME NEW S, NEW p \in Pool(S), Sound(p), NEW i \in 1 .. Len(p.used)
  PROVE  /\ TakeOut(p, i) \in Pool(S) /\ Sound(TakeOut(p, i))
         /\ UsedSlots(TakeOut(p, i)) = UsedSlots(p) \ {p.used[i]}
<1> DEFINE x == p.used[i]
           u == Without(p.used, i)
           f == Append(p.free, x)
           n == Len(p.used)
           l == Len(p.free)
<1>1. /\ p.used \in Seq(S) /\ p.free \in Seq(S) /\ n \in Nat /\ l \in Nat /\ UsedSlots(p) = {p.used[k] : k \in 1 .. n} /\ x \in S
  BY Members DEF Pool, UsedSlots
<1>2. i \in 1 .. n /\ p.used[i] = x
  OBVIOUS
<1>3. TakeOut(p, i) = [used |-> u, free |-> f]
  BY DEF TakeOut, Without
<1> HIDE DEF x
<1>4. u \in Seq(S) /\ Len(u) = n - 1 /\ \A k \in 1 .. n - 1 : u[k] = IF k < i THEN p.used[k] ELSE p.used[k + 1]
  BY <1>1, <1>2, RemoveOne
<1>5. f \in Seq(S) /\ Len(f) = l + 1 /\ f[l + 1] = x /\ \A k \in 1 .. l : f[k] = p.free[k]
  BY <1>1, AppendProperties
<1> HIDE DEF u, f, n, l
<1>6. TakeOut(p, i) \in Pool(S) /\ TakeOut(p, i).used = u /\ TakeOut(p, i).free = f
  BY <1>3, <1>4, <1>5 DEF Pool
<1>7. /\ Injective(p.used) /\ Injective(p.free)
      /\ \A j \in 1 .. n, k \in 1 .. l : p.used[j] # p.free[k]
  BY DEF Sound, n, l
<1> DEFINE at(k) == IF k < i THEN k ELSE k + 1
<1>8. \A k \in 1 .. n - 1 : at(k) \in 1 .. n /\ at(k) # i /\ u[k] = p.used[at(k)]
  <2>1. \A k \in 1 .. n - 1 : at(k) \in 1 .. n /\ at(k) # i
    BY <1>1, <1>2
  <2> QED
    BY <1>4, <2>1
<1>9. \A j, k \in 1 .. n - 1 : at(j) = at(k) => j = k
  BY <1>1, <1>2
<1>10. \A k \in 1 .. n : k # i => \E j \in 1 .. n - 1 : at(j) = k
  <2> SUFFICES ASSUME NEW k \in 1 .. n, k # i PROVE \E j \in 1 .. n - 1 : at(j) = k
    OBVIOUS
  <2>1. CASE k < i
    <3>1. k \in 1 .. n - 1 /\ at(k) = k
      BY <1>1, <1>2, <2>1
    <3> QED
      BY <3>1
  <2>2. CASE ~(k < i)
    <3>1. k - 1 \in 1 .. n - 1 /\ at(k - 1) = k
      BY <1>1, <1>2, <2>2
    <3> QED
      BY <3>1
  <2> QED
    BY <2>1, <2>2
<1> HIDE DEF at
<1>11. \A k \in 1 .. n - 1 : u[k] # x
  BY <1>2, <1>7, <1>8 DEF Injective, n
<1>12. Injective(u)
  <2>1. \A j, k \in 1 .. n - 1 : u[j] = u[k] => j = k
    BY <1>7, <1>8, <1>9 DEF Injective, n
  <2> QED
    BY <1>4, <2>1 DEF Injective
<1>13. \A k \in 1 .. l + 1 : k = l + 1 \/ k \in 1 .. l
  BY <1>1
<1>14. \A k \in 1 .. l : p.free[k] # x
  BY <1>2, <1>7
<1>15. Injective(f)
  <2>1. \A j, k \in 1 .. l + 1 : f[j] = f[k] => j = k
    BY <1>5, <1>7, <1>13, <1>14 DEF Injective, l
  <2> QED
    BY <1>5, <2>1 DEF Injective
<1>16. \A j \in 1 .. n - 1, k \in 1 .. l + 1 : u[j] # f[k]
  BY <1>5, <1>7, <1>8, <1>11, <1>13
<1>17. Sound(TakeOut(p, i))
  BY <1>4, <1>5, <1>6, <1>12, <1>15, <1>16 DEF Sound
<1>18. UsedSlots(TakeOut(p, i)) = {u[k] : k \in 1 .. n - 1}
  <2>1. DOMAIN u = 1 .. n - 1
    BY <1>4, LenProperties
  <2> QED
    BY <1>6, <2>1 DEF UsedSlots, Range
<1>19. {u[k] : k \in 1 .. n - 1} = {p.used[k] : k \in 1 .. n} \ {x}
  <2>1. \A k \in 1 .. n : p.used[k] # x => k # i
    BY <1>2
  <2>2. \A k \in 1 .. n : k # i => \E j \in 1 .. n - 1 : u[j] = p.used[k]
    BY <1>8, <1>10
  <2> QED
    BY <1>8, <1>11, <2>1, <2>2
<1> QED
  BY <1>1, <1>5, <1>6, <1>17, <1>18, <1>19 DEF u, x, l

LEMMA EraseFacts ==
  ASSUME NEW S, NEW p \in Pool(S), Sound(p), NEW x \in UsedSlots(p)
  PROVE  /\ Erase(p, x) \in Pool(S) /\ Sound(Erase(p, x))
         /\ UsedSlots(Erase(p, x)) = UsedSlots(p) \ {x}
<1>1. DOMAIN p.used = 1 .. Len(p.used) /\ UsedSlots(p) = {p.used[k] : k \in 1 .. Len(p.used)}
  BY Members DEF Pool, UsedSlots
<1>2. Position(p, x) \in 1 .. Len(p.used) /\ p.used[Position(p, x)] = x
  <2>1. \E k \in DOMAIN p.used : p.used[k] = x
    BY <1>1
  <2> QED
    BY <1>1, <2>1 DEF Position
<1> QED
  BY <1>2, TakeOutFacts DEF Erase

-------------------------------------------------------------------------------
(* Messages                                                                *)

In(q, x) == \E k \in 1 .. Len(q) : q[k] = x

\* A command is not added after its removal.
Ordered(q) == \A k, l \in 1 .. Len(q) :
                k < l /\ q[k].type = "delete" /\ q[l].type = "add" => q[k].mc # q[l].mc

LEMMA NoID == invalid_MC_ID \notin IDs
  BY Parameters DEF invalid_MC_ID, End, IDs

LEMMA Kinds ==
  /\ \A m \in Motions : AddMessage(m) \in Message /\ AddMessage(m).type = "add" /\ AddMessage(m).mc = m
  /\ \A m \in Motions, i \in IDs : /\ DeleteMessage(m, i) \in Message /\ DeleteMessage(m, i).type = "delete"
                                   /\ DeleteMessage(m, i).mc = m /\ DeleteMessage(m, i).id = i
  /\ \A m, n, i : AddMessage(m) # DeleteMessage(n, i)
  /\ \A m, n : AddMessage(m) = AddMessage(n) => m = n
  /\ \A m, n, i, j : DeleteMessage(m, i) = DeleteMessage(n, j) => m = n /\ i = j
  /\ \A x \in Message : /\ x.mc \in Motions /\ x.type \in {"add", "delete"}
                        /\ x.type = "add" => x = AddMessage(x.mc)
                        /\ x.type = "delete" => x = DeleteMessage(x.mc, x.id) /\ x.id \in IDs
<1>1. \A m \in Motions : AddMessage(m) \in Message /\ AddMessage(m).type = "add" /\ AddMessage(m).mc = m
  BY DEF AddMessage, Message
<1>2. \A m \in Motions, i \in IDs : /\ DeleteMessage(m, i) \in Message /\ DeleteMessage(m, i).type = "delete"
                                    /\ DeleteMessage(m, i).mc = m /\ DeleteMessage(m, i).id = i
  BY DEF DeleteMessage, Message
<1>3. \A m, n, i : AddMessage(m) # DeleteMessage(n, i)
  BY DEF AddMessage, DeleteMessage
<1>4. /\ \A m, n : AddMessage(m) = AddMessage(n) => m = n
      /\ \A m, n, i, j : DeleteMessage(m, i) = DeleteMessage(n, j) => m = n /\ i = j
  BY DEF AddMessage, DeleteMessage
<1>5. \A x \in Message : /\ x.mc \in Motions /\ x.type \in {"add", "delete"}
                         /\ x.type = "add" => x = AddMessage(x.mc)
                         /\ x.type = "delete" => x = DeleteMessage(x.mc, x.id) /\ x.id \in IDs
  BY DEF Message, AddMessage, DeleteMessage
<1> QED
  BY <1>1, <1>2, <1>3, <1>4, <1>5

LEMMA Empty == \A x : ~In(<< >>, x)
  BY EmptySeq DEF In

LEMMA Sent ==
  ASSUME NEW q \in Seq(Message), NEW y \in Message
  PROVE  /\ Append(q, y) \in Seq(Message)
         /\ \A x : In(Append(q, y), x) <=> (In(q, x) \/ x = y)
         /\ Ordered(q) /\ (y.type = "add" => \A k \in 1 .. Len(q) : q[k].mc # y.mc) => Ordered(Append(q, y))
<1>1. /\ Append(q, y) \in Seq(Message) /\ Len(q) \in Nat /\ Len(Append(q, y)) = Len(q) + 1
      /\ Append(q, y)[Len(q) + 1] = y /\ \A k \in 1 .. Len(q) : Append(q, y)[k] = q[k]
  BY AppendProperties, LenProperties
<1>2. \A k \in 1 .. Len(q) + 1 : k = Len(q) + 1 \/ k \in 1 .. Len(q)
  BY <1>1
<1>3. Len(q) + 1 \in 1 .. Len(q) + 1 /\ \A k \in 1 .. Len(q) : k \in 1 .. Len(q) + 1
  BY <1>1
<1>4. \A x : In(Append(q, y), x) <=> (In(q, x) \/ x = y)
  BY <1>1, <1>2, <1>3 DEF In
<1>5. ASSUME Ordered(q), y.type = "add" => \A k \in 1 .. Len(q) : q[k].mc # y.mc
      PROVE  Ordered(Append(q, y))
  <2> SUFFICES ASSUME NEW k \in 1 .. Len(q) + 1, NEW l \in 1 .. Len(q) + 1, k < l,
                      Append(q, y)[k].type = "delete", Append(q, y)[l].type = "add"
               PROVE  Append(q, y)[k].mc # Append(q, y)[l].mc
    BY <1>1 DEF Ordered
  <2>1. k \in 1 .. Len(q)
    BY <1>1, <1>2
  <2>2. CASE l = Len(q) + 1
    BY <1>1, <1>5, <2>1, <2>2
  <2>3. CASE l \in 1 .. Len(q)
    BY <1>1, <1>5, <2>1, <2>3 DEF Ordered
  <2> QED
    BY <1>2, <2>2, <2>3
<1> QED
  BY <1>1, <1>4, <1>5

\* A message put before those of the calls around it.
LEMMA Between ==
  ASSUME NEW q \in Seq(Message), NEW r \in Seq(Message), NEW y \in Message
  PROVE  /\ <<y>> \o r \in Seq(Message)
         /\ \A x : In(q \o (<<y>> \o r), x) <=> (In(q \o r, x) \/ x = y)
         /\ /\ Ordered(q \o r)
            /\ y.type = "add" => \A k \in 1 .. Len(q) : q[k].mc # y.mc
            /\ y.type = "delete" => ~In(r, AddMessage(y.mc))
            => Ordered(q \o (<<y>> \o r))
<1> DEFINE n == Len(q)
           l == Len(r)
           one == <<y>>
           s == q \o r
           z == one \o r
           t == q \o z
<1>1. n \in Nat /\ l \in Nat
  BY LenProperties
<1>2. one \in Seq(Message) /\ Len(one) = 1 /\ one[1] = y
  OBVIOUS
<1>3. /\ s \in Seq(Message) /\ Len(s) = n + l
      /\ \A k \in 1 .. n + l : s[k] = IF k <= n THEN q[k] ELSE r[k - n]
  BY ConcatProperties
<1> HIDE DEF one, s
<1>4. /\ z \in Seq(Message) /\ Len(z) = 1 + l
      /\ \A k \in 1 .. 1 + l : z[k] = IF k <= 1 THEN one[k] ELSE r[k - 1]
  <2>1. /\ z \in Seq(Message) /\ Len(z) = Len(one) + Len(r)
        /\ \A k \in 1 .. Len(one) + Len(r) : z[k] = IF k <= Len(one) THEN one[k] ELSE r[k - Len(one)]
    BY <1>2, ConcatProperties
  <2> QED
    BY <1>2, <2>1
<1> HIDE DEF z
<1>5. /\ t \in Seq(Message) /\ Len(t) = n + (1 + l)
      /\ \A k \in 1 .. n + (1 + l) : t[k] = IF k <= n THEN q[k] ELSE z[k - n]
  <2>1. /\ t \in Seq(Message) /\ Len(t) = Len(q) + Len(z)
        /\ \A k \in 1 .. Len(q) + Len(z) : t[k] = IF k <= Len(q) THEN q[k] ELSE z[k - Len(q)]
    BY <1>4, ConcatProperties
  <2> QED
    BY <1>4, <2>1
<1> HIDE DEF t, n, l
\* Where the k-th message of t was in s.
<1> DEFINE was(k) == IF k <= n THEN k ELSE k - 1
<1>6. /\ n + 1 \in 1 .. n + (1 + l) /\ t[n + 1] = y
      /\ \A k \in 1 .. n + (1 + l) : k # n + 1 => was(k) \in 1 .. n + l /\ t[k] = s[was(k)]
  <2>1. n + 1 \in 1 .. n + (1 + l) /\ ~(n + 1 <= n) /\ (n + 1) - n = 1 /\ 1 \in 1 .. 1 + l /\ 1 <= 1
    BY <1>1
  <2>2. t[n + 1] = z[(n + 1) - n] /\ z[1] = one[1]
    BY <1>4, <1>5, <2>1
  <2>3. ASSUME NEW k \in 1 .. n + (1 + l), k # n + 1
        PROVE  was(k) \in 1 .. n + l /\ t[k] = s[was(k)]
    <3>1. CASE k <= n
      BY <1>1, <1>3, <1>5, <2>3, <3>1
    <3>2. CASE ~(k <= n)
      <4>1. /\ k - 1 \in 1 .. n + l /\ ~(k - 1 <= n) /\ k - n \in 1 .. 1 + l /\ ~(k - n <= 1)
            /\ (k - n) - 1 = (k - 1) - n
        BY <1>1, <2>3, <3>2
      <4>2. t[k] = z[k - n] /\ z[k - n] = r[(k - n) - 1] /\ s[k - 1] = r[(k - 1) - n]
        BY <1>3, <1>4, <1>5, <3>2, <4>1
      <4> QED
        BY <3>2, <4>1, <4>2
    <3> QED
      BY <3>1, <3>2
  <2> QED
    BY <1>2, <2>1, <2>2, <2>3
<1>7. \A k \in 1 .. n + l : \E j \in 1 .. n + (1 + l) : j # n + 1 /\ was(j) = k
  <2> TAKE k \in 1 .. n + l
  <2>1. CASE k <= n
    <3>1. k \in 1 .. n + (1 + l) /\ k # n + 1 /\ was(k) = k
      BY <1>1, <2>1
    <3> QED
      BY <3>1
  <2>2. CASE ~(k <= n)
    <3>1. k + 1 \in 1 .. n + (1 + l) /\ k + 1 # n + 1 /\ was(k + 1) = k
      BY <1>1, <2>2
    <3> QED
      BY <3>1
  <2> QED
    BY <2>1, <2>2
<1>8. \A j, k \in 1 .. n + (1 + l) : j < k /\ j # n + 1 /\ k # n + 1 => was(j) < was(k)
  BY <1>1
<1>9. /\ \A k \in 1 .. n + (1 + l) : k < n + 1 => k \in 1 .. n /\ t[k] = q[k]
      /\ \A k \in 1 .. n + (1 + l) : n + 1 < k => (k - n) - 1 \in 1 .. l /\ t[k] = r[(k - n) - 1]
  <2>1. \A k \in 1 .. n + (1 + l) : k < n + 1 => k \in 1 .. n /\ k <= n
    BY <1>1
  <2>2. \A k \in 1 .. n + (1 + l) : n + 1 < k => /\ (k - n) - 1 \in 1 .. l /\ k - n \in 1 .. 1 + l
                                                /\ ~(k <= n) /\ ~(k - n <= 1)
    BY <1>1
  <2> QED
    BY <1>4, <1>5, <2>1, <2>2
<1> HIDE DEF was
<1>10. \A x : In(t, x) <=> (In(s, x) \/ x = y)
  <2> TAKE x
  <2>1. ASSUME In(t, x) PROVE In(s, x) \/ x = y
    BY <1>3, <1>5, <1>6, <2>1 DEF In
  <2>2. ASSUME In(s, x) PROVE In(t, x)
    <3>1. PICK k \in 1 .. n + l : s[k] = x
      BY <1>3, <2>2 DEF In
    <3>2. PICK j \in 1 .. n + (1 + l) : j # n + 1 /\ was(j) = k
      BY <1>7, <3>1
    <3>3. t[j] = x
      BY <1>6, <3>1, <3>2
    <3> QED
      BY <1>5, <3>3 DEF In
  <2>3. In(t, y)
    BY <1>5, <1>6 DEF In
  <2> QED
    BY <2>1, <2>2, <2>3
<1>11. ASSUME Ordered(s), y.type = "add" => \A k \in 1 .. n : q[k].mc # y.mc,
              y.type = "delete" => ~In(r, AddMessage(y.mc))
       PROVE  Ordered(t)
  <2> SUFFICES ASSUME NEW j \in 1 .. n + (1 + l), NEW k \in 1 .. n + (1 + l), j < k,
                      t[j].type = "delete", t[k].type = "add"
               PROVE  t[j].mc # t[k].mc
    BY <1>5 DEF Ordered
  <2>1. CASE j = n + 1
    <3>1. n + 1 < k
      BY <1>1, <2>1
    <3> DEFINE o == (k - n) - 1
    <3>2. o \in 1 .. l /\ t[k] = r[o] /\ r[o] \in Message
      BY <1>9, <3>1, ElementOfSeq DEF l
    <3> HIDE DEF o
    <3>3. t[k] = AddMessage(t[k].mc) /\ In(r, t[k])
      BY <3>2, Kinds DEF In, l
    <3> QED
      BY <1>6, <1>11, <2>1, <3>3
  <2>2. CASE k = n + 1
    <3>1. j \in 1 .. n /\ t[j] = q[j]
      BY <1>1, <1>9, <2>2
    <3> QED
      BY <1>6, <1>11, <2>2, <3>1
  <2>3. CASE j # n + 1 /\ k # n + 1
    BY <1>3, <1>6, <1>8, <1>11, <2>3 DEF Ordered
  <2> QED
    BY <2>1, <2>2, <2>3
<1> QED
  BY <1>4, <1>10, <1>11 DEF s, t, z, one, n

\* The first of r goes to the end of q.
LEMMA Moved ==
  ASSUME NEW q \in Seq(Message), NEW r \in Seq(Message), r # << >>
  PROVE  /\ Append(q, Head(r)) \in Seq(Message) /\ Tail(r) \in Seq(Message)
         /\ Append(q, Head(r)) \o Tail(r) = q \o r
<1> DEFINE n == Len(q)
           l == Len(r) - 1
           a == Append(q, Head(r))
           b == Tail(r)
<1>1. n \in Nat /\ l \in Nat /\ Len(r) = l + 1
  BY LenProperties, EmptySeq
<1>2. /\ Head(r) \in Message /\ Head(r) = r[1] /\ b \in Seq(Message) /\ Len(b) = l
      /\ \A k \in 1 .. l : b[k] = r[k + 1]
  BY <1>1, HeadTailProperties
<1>3. a \in Seq(Message) /\ Len(a) = n + 1 /\ a[n + 1] = r[1] /\ \A k \in 1 .. n : a[k] = q[k]
  BY <1>2, AppendProperties
<1> HIDE DEF a, b, n, l
<1>4. /\ a \o b \in Seq(Message) /\ Len(a \o b) = (n + 1) + l
      /\ \A k \in 1 .. (n + 1) + l : (a \o b)[k] = IF k <= n + 1 THEN a[k] ELSE b[k - (n + 1)]
  <2>1. /\ a \o b \in Seq(Message) /\ Len(a \o b) = Len(a) + Len(b)
        /\ \A k \in 1 .. Len(a) + Len(b) : (a \o b)[k] = IF k <= Len(a) THEN a[k] ELSE b[k - Len(a)]
    BY <1>2, <1>3, ConcatProperties
  <2> QED
    BY <1>2, <1>3, <2>1
<1>5. /\ q \o r \in Seq(Message) /\ Len(q \o r) = n + (l + 1)
      /\ \A k \in 1 .. n + (l + 1) : (q \o r)[k] = IF k <= n THEN q[k] ELSE r[k - n]
  <2>1. /\ q \o r \in Seq(Message) /\ Len(q \o r) = Len(q) + Len(r)
        /\ \A k \in 1 .. Len(q) + Len(r) : (q \o r)[k] = IF k <= Len(q) THEN q[k] ELSE r[k - Len(q)]
    BY ConcatProperties
  <2> QED
    BY <1>1, <2>1 DEF n
<1>6. (n + 1) + l = n + (l + 1)
  BY <1>1
<1>7. \A k \in 1 .. (n + 1) + l : (a \o b)[k] = (q \o r)[k]
  <2> TAKE k \in 1 .. (n + 1) + l
  <2>1. CASE k <= n
    <3>1. k \in 1 .. n /\ k <= n + 1
      BY <1>1, <2>1
    <3> QED
      BY <1>3, <1>4, <1>5, <1>6, <2>1, <3>1
  <2>2. CASE k = n + 1
    <3>1. k <= n + 1 /\ ~(k <= n) /\ k - n = 1
      BY <1>1, <2>2
    <3> QED
      BY <1>3, <1>4, <1>5, <1>6, <2>2, <3>1
  <2>3. CASE ~(k <= n + 1)
    <3>1. ~(k <= n) /\ k - (n + 1) \in 1 .. l /\ (k - (n + 1)) + 1 = k - n
      BY <1>1, <2>3
    <3> QED
      BY <1>2, <1>4, <1>5, <1>6, <2>3, <3>1
  <2>4. k <= n \/ k = n + 1 \/ ~(k <= n + 1)
    BY <1>1
  <2> QED
    BY <2>1, <2>2, <2>3, <2>4
<1>8. a \o b = q \o r
  BY <1>4, <1>5, <1>6, <1>7, SeqEqual
<1> QED
  BY <1>2, <1>3, <1>8 DEF a, b

LEMMA Taken ==
  ASSUME NEW q \in Seq(Message), q # << >>
  PROVE  /\ Head(q) \in Message /\ Tail(q) \in Seq(Message) /\ In(q, Head(q))
         /\ \A x : In(q, x) <=> (In(Tail(q), x) \/ x = Head(q))
         /\ Ordered(q) => /\ Ordered(Tail(q))
                          /\ \A m \in Motions : Head(q).type = "delete" /\ Head(q).mc = m => ~In(Tail(q), AddMessage(m))
<1> DEFINE n == Len(q) - 1
<1>1. /\ Len(q) \in Nat /\ n \in Nat /\ Len(q) = n + 1 /\ Head(q) = q[1] /\ Head(q) \in Message
      /\ Tail(q) \in Seq(Message) /\ Len(Tail(q)) = n /\ \A k \in 1 .. n : Tail(q)[k] = q[k + 1]
  <2>1. Len(q) \in Nat /\ Len(q) # 0
    BY LenProperties, EmptySeq
  <2> QED
    BY <2>1, HeadTailProperties
<1> HIDE DEF n
<1>2. \A k \in 1 .. Len(q) : k = 1 \/ (k - 1 \in 1 .. n /\ (k - 1) + 1 = k)
  BY <1>1
<1>3. 1 \in 1 .. Len(q) /\ \A k \in 1 .. n : k + 1 \in 1 .. Len(q) /\ 1 < k + 1
  BY <1>1
<1>4. \A x : In(q, x) <=> (In(Tail(q), x) \/ x = Head(q))
  <2>1. ASSUME NEW x, In(q, x) PROVE In(Tail(q), x) \/ x = Head(q)
    <3>1. PICK k \in 1 .. Len(q) : q[k] = x
      BY <2>1 DEF In
    <3>2. CASE k = 1
      BY <1>1, <3>1, <3>2
    <3>3. CASE k # 1
      <4>1. k - 1 \in 1 .. n /\ Tail(q)[k - 1] = x
        BY <1>1, <1>2, <3>1, <3>3
      <4> QED
        BY <1>1, <4>1 DEF In
    <3> QED
      BY <3>2, <3>3
  <2>2. ASSUME NEW x, In(Tail(q), x) PROVE In(q, x)
    BY <1>1, <1>3, <2>2 DEF In
  <2>3. In(q, Head(q))
    BY <1>1, <1>3 DEF In
  <2> QED
    BY <2>1, <2>2, <2>3
<1>5. ASSUME Ordered(q) PROVE Ordered(Tail(q))
  <2> SUFFICES ASSUME NEW k \in 1 .. n, NEW l \in 1 .. n, k < l,
                      Tail(q)[k].type = "delete", Tail(q)[l].type = "add"
               PROVE  Tail(q)[k].mc # Tail(q)[l].mc
    BY <1>1 DEF Ordered
  <2>1. Tail(q)[k] = q[k + 1] /\ Tail(q)[l] = q[l + 1] /\ k + 1 < l + 1
    BY <1>1
  <2> QED
    BY <1>3, <1>5, <2>1 DEF Ordered
<1>6. ASSUME Ordered(q), NEW m \in Motions, Head(q).type = "delete", Head(q).mc = m, In(Tail(q), AddMessage(m))
      PROVE  FALSE
  <2>1. PICK k \in 1 .. n : Tail(q)[k] = AddMessage(m)
    BY <1>1, <1>6 DEF In
  <2>2. q[k + 1] = AddMessage(m) /\ k + 1 \in 1 .. Len(q) /\ 1 < k + 1 /\ 1 \in 1 .. Len(q)
    BY <1>1, <1>3, <2>1
  <2>3. AddMessage(m).type = "add" /\ AddMessage(m).mc = m
    BY Kinds
  <2> QED
    BY <1>1, <1>6, <2>2, <2>3 DEF Ordered
<1> QED
  BY <1>1, <1>4, <1>5, <1>6

-------------------------------------------------------------------------------
(* The invariant                                                           *)

\* Who is at work, on what.
WorkInv == /\ MMlock = "Motion" <=> motion.at # "idle"
           /\ MMlock = "Main" <=> unsent # << >>
           /\ motion.at = "idle" => motion = Idle
           /\ motion.at \in {"start", "drop", "update", "prune"} => motion.id \in IDs
           /\ motion.at = "prune" => Has("Motion", motion.id)
           /\ main.at = "idle" => main = Idle
           /\ main.at \in {"waiting", "holding"} => main.id \in IDs
           /\ main.at = "message" => inbox["Main"] # << >> /\ unsent = << >>

Doing ==
  /\ main.at = "holding" => entries[main.id].owner = "Main" /\ ~Dead(main.id)
  /\ motion.at = "start" => ~Dead(motion.id) /\ Has("Motion", motion.id)
  /\ motion.at = "drop" => Dead(motion.id) /\ Has("Motion", motion.id)
  /\ motion.at = "update" => /\ entries[motion.id].owner = "Motion" /\ ~Dead(motion.id)
                             /\ Has("Motion", motion.id) /\ mc[entries[motion.id].rcr["Motion"]].started
  /\ motion.at = "prune" => ~Dead(motion.id) /\ Has("Motion", motion.id) /\ motion.id \notin motion.todo
  /\ motion.at \in {"cycle", "update", "prune"} => \A j \in motion.todo : Has("Motion", j)

\* Motion waits for the lock of entry i to let go of it.
AtDrop(i) == motion.at = "drop" /\ motion.id = i

\* What the id in the region of a command says.
IdInv ==
  \A m \in Motions, i \in IDs :
    /\ entries[i].rcr["Motion"] = m => mc[m].id = i
    /\ mc[m].id = i =>
         /\ \A n \in Motions : mc[n].id = i => n = m
         /\ entries[i].rcr["Motion"] = m \/ In(Coming("Motion"), AddMessage(m))
         /\ Dead(i) => /\ In(Coming("Motion"), DeleteMessage(m, i)) \/ AtDrop(i)
                       /\ In(Coming("Main"), AddMessage(m)) => In(Coming("Main"), DeleteMessage(m, i))

\* An entry that is alive is in Main's hands, one that is dead will be put back.
EntryInv ==
  \A i \in IDs :
    /\ ~Active(i) => Dead(i)
    /\ ~Dead(i) => \E m \in Motions : entries[i].rcr["Main"] = m /\ mc[m].id = i
    /\ ~Dead(i) /\ Has("Motion", i) =>
         mc[entries[i].rcr["Motion"]].started \/ (motion.at = "start" /\ motion.id = i)
    /\ Active(i) /\ Dead(i) /\ Has("Main", i) => \E m \in Motions : In(Coming("Main"), DeleteMessage(m, i))
    /\ Active(i) /\ Dead(i) /\ ~Has("Main", i) => \E m \in Motions : mc[m].id = i

MsgInv ==
  \A a \in Accessors : /\ Ordered(Coming(a))
                       /\ \A m \in Motions, i \in IDs : In(Coming(a), DeleteMessage(m, i)) => Dead(i)

Linked == Doing /\ IdInv /\ EntryInv /\ MsgInv

IInv == /\ TypeOK /\ Sound(cmdlist) /\ WorkInv
        /\ ~overtaken => Linked

-------------------------------------------------------------------------------
(* Steps of one entry                                                      *)

Entry == [rcr : [Accessors -> Motions \cup {NoMotion}],
          lastAccessor : Accessors \cup {Nobody}, owner : Accessors \cup {Nobody}]
MC == [id : IDs \cup {invalid_MC_ID}, started : BOOLEAN]
Process(places) == [at : places, id : IDs \cup {invalid_MC_ID}, todo : SUBSET IDs]

LEMMA Typed ==
  ASSUME TypeOK
  PROVE  /\ cmdlist \in Pool(IDs) /\ entries \in [IDs -> Entry] /\ mc \in [Motions -> MC]
         /\ \A i \in IDs : /\ entries[i] \in Entry /\ entries[i].rcr["Main"] \in Motions \cup {NoMotion}
                           /\ entries[i].rcr["Motion"] \in Motions \cup {NoMotion}
                           /\ Has("Main", i) <=> entries[i].rcr["Main"] \in Motions
                           /\ Has("Motion", i) <=> entries[i].rcr["Motion"] \in Motions
         /\ \A m \in Motions : mc[m] \in MC /\ mc[m].id \in IDs \cup {invalid_MC_ID}
         /\ inbox \in [Accessors -> Seq(Message)] /\ unsent \in Seq(Message)
         /\ \A a \in Accessors : inbox[a] \in Seq(Message) /\ Coming(a) \in Seq(Message)
         /\ UsedSlots(cmdlist) \in SUBSET IDs
<1>1. cmdlist \in Pool(IDs) /\ entries \in [IDs -> Entry] /\ mc \in [Motions -> MC]
  BY DEF TypeOK, Pool, Entry, MC
<1>2. \A i \in IDs : /\ entries[i] \in Entry /\ entries[i].rcr["Main"] \in Motions \cup {NoMotion}
                     /\ entries[i].rcr["Motion"] \in Motions \cup {NoMotion}
                     /\ Has("Main", i) <=> entries[i].rcr["Main"] \in Motions
                     /\ Has("Motion", i) <=> entries[i].rcr["Motion"] \in Motions
  BY <1>1, Parameters DEF Entry, Accessors, Has
<1>3. \A m \in Motions : mc[m] \in MC /\ mc[m].id \in IDs \cup {invalid_MC_ID}
  BY <1>1 DEF MC
<1>4. /\ inbox \in [Accessors -> Seq(Message)] /\ unsent \in Seq(Message)
      /\ \A a \in Accessors : inbox[a] \in Seq(Message) /\ Coming(a) \in Seq(Message)
  <2>1. inbox \in [Accessors -> Seq(Message)] /\ unsent \in Seq(Message)
    BY DEF TypeOK
  <2>2. \A a \in Accessors : inbox[a] \in Seq(Message)
    BY <2>1
  <2>3. \A a \in Accessors : Coming(a) \in Seq(Message)
    BY <2>1, <2>2, ConcatProperties DEF Coming
  <2> QED
    BY <2>1, <2>2, <2>3
<1>5. UsedSlots(cmdlist) \in SUBSET IDs
  BY <1>1, Members DEF Pool, UsedSlots
<1> QED
  BY <1>1, <1>2, <1>3, <1>4, <1>5

LEMMA EntryStep ==
  ASSUME TypeOK, NEW i \in IDs, NEW e \in Entry, entries' = [entries EXCEPT ![i] = e]
  PROVE  /\ entries' \in [IDs -> Entry] /\ entries'[i] = e
         /\ \A j \in IDs : j # i => entries'[j] = entries[j]
<1>1. entries \in [IDs -> Entry]
  BY Typed
<1> QED
  BY <1>1

\* Nothing changes but locks, who was there last, and what the processes do.
LEMMA Keep ==
  ASSUME IInv, ~overtaken, cmdlist' = cmdlist, \A a \in Accessors : Coming(a)' = Coming(a),
         \A m \in Motions : mc'[m].id = mc[m].id,
         \A i \in IDs : entries'[i].rcr = entries[i].rcr /\ (entries'[i].lastAccessor = Nobody <=> Dead(i)),
         \A i \in IDs : AtDrop(i) => motion'.at = "drop" /\ motion'.id = i,
         \A i \in IDs : ~Dead(i) /\ Has("Motion", i) =>
             mc'[entries[i].rcr["Motion"]].started \/ (motion'.at = "start" /\ motion'.id = i)
  PROVE  IdInv' /\ EntryInv' /\ MsgInv'
<1>1. /\ IdInv /\ EntryInv /\ MsgInv
      /\ Coming("Main")' = Coming("Main") /\ Coming("Motion")' = Coming("Motion")
  BY DEF IInv, Linked, Accessors
<1>2. IdInv'
  BY <1>1 DEF IdInv, Dead, AtDrop
<1>3. EntryInv'
  BY <1>1 DEF EntryInv, Dead, Has, Active
<1>4. MsgInv'
  BY <1>1 DEF MsgInv, Dead
<1> QED
  BY <1>2, <1>3, <1>4

-------------------------------------------------------------------------------
(* Taking and giving back the lock of an entry                             *)

LEMMA CheckoutStep ==
  ASSUME IInv, NEW m \in Motions, checkoutMotion(m)
  PROVE  IInv'
<1>1. /\ main = Idle /\ mc_id[m] # invalid_MC_ID /\ main' = [Idle EXCEPT !.at = "waiting", !.id = mc_id[m]]
      /\ UNCHANGED <<MMlock, motion, cmdlist, entries, mc, inbox, unsent, mc_id, adds, overtaken>>
  BY DEF checkoutMotion
<1>2. mc_id[m] \in IDs
  BY <1>1 DEF IInv, TypeOK
<1>3. main'.at = "waiting" /\ main'.id = mc_id[m] /\ main' \in Process({"idle", "waiting", "holding", "message"})
  BY <1>1, <1>2 DEF Idle, Process
<1>4. TypeOK' /\ Sound(cmdlist)'
  BY <1>1, <1>3 DEF IInv, TypeOK, Process, Sound, Injective, Message
<1>5. WorkInv'
  BY <1>1, <1>2, <1>3 DEF IInv, WorkInv, Has
<1>6. ASSUME ~overtaken PROVE Linked'
  <2>1. IdInv' /\ EntryInv' /\ MsgInv'
    BY <1>1, <1>6, Keep DEF Coming, AtDrop, IInv, Linked, EntryInv, Dead
  <2>2. Doing'
    BY <1>1, <1>3, <1>6 DEF IInv, Linked, Doing, Dead, Has
  <2> QED
    BY <2>1, <2>2 DEF Linked
<1> QED
  BY <1>1, <1>4, <1>5, <1>6 DEF IInv

LEMMA ReceivedStep ==
  ASSUME IInv, receivedMsg
  PROVE  IInv'
<1>1. /\ main = Idle /\ inbox["Main"] # << >> /\ unsent = << >> /\ main' = [Idle EXCEPT !.at = "message"]
      /\ UNCHANGED <<MMlock, motion, cmdlist, entries, mc, inbox, unsent, mc_id, adds, overtaken>>
  BY DEF receivedMsg
<1>2. main'.at = "message" /\ main' \in Process({"idle", "waiting", "holding", "message"})
  BY <1>1 DEF Idle, Process
<1>3. TypeOK' /\ Sound(cmdlist)'
  BY <1>1, <1>2, ZenonT(60) DEF IInv, TypeOK, Process, Sound, Injective, Message
<1>4. WorkInv'
  BY <1>1, <1>2 DEF IInv, WorkInv, Has
<1>5. ASSUME ~overtaken PROVE Linked'
  <2>1. IdInv' /\ EntryInv' /\ MsgInv'
    BY <1>1, <1>5, Keep DEF Coming, AtDrop, IInv, Linked, EntryInv, Dead
  <2>2. Doing'
    BY <1>1, <1>2, <1>5 DEF IInv, Linked, Doing, Dead, Has
  <2> QED
    BY <2>1, <2>2 DEF Linked
<1> QED
  BY <1>1, <1>3, <1>4, <1>5 DEF IInv

LEMMA GotLockStep ==
  ASSUME IInv, gotLock
  PROVE  IInv'
<1> DEFINE i == main.id
           e == [entries[i] EXCEPT !.owner = "Main", !.lastAccessor = "Main"]
<1>1. /\ main.at = "waiting" /\ Unlocked(i) /\ i \in IDs
      /\ UNCHANGED <<MMlock, motion, cmdlist, mc, inbox, unsent, mc_id, adds, overtaken>>
  BY DEF gotLock, IInv, WorkInv
<1>2. CASE ~Dead(i)
  <2>1. entries' = [entries EXCEPT ![i] = e] /\ main' = [main EXCEPT !.at = "holding"]
    BY <1>2 DEF gotLock, StillThere
  <2>2. e \in Entry /\ e.owner = "Main" /\ e.lastAccessor = "Main" /\ e.rcr = entries[i].rcr
    <3>1. entries[i] \in Entry
      BY <1>1, Typed DEF IInv
    <3> QED
      BY <3>1 DEF Entry, Accessors
  <2> HIDE DEF e
  <2>3. /\ entries' \in [IDs -> Entry] /\ entries'[i] = e
        /\ \A j \in IDs : j # i => entries'[j] = entries[j]
    BY <1>1, <2>1, <2>2, EntryStep DEF IInv
  <2>4. main'.at = "holding" /\ main'.id = i /\ main' \in Process({"idle", "waiting", "holding", "message"})
    BY <2>1 DEF IInv, TypeOK, Process
  <2>5. TypeOK' /\ Sound(cmdlist)'
    BY <1>1, <2>3, <2>4 DEF IInv, TypeOK, Process, Sound, Injective, Message, Entry
  <2>6. \A j \in IDs : /\ entries'[j].rcr = entries[j].rcr
                       /\ entries'[j].lastAccessor = Nobody <=> Dead(j)
                       /\ j # i => entries'[j].owner = entries[j].owner
    BY <1>2, <2>2, <2>3 DEF Dead, Nobody
  <2>7. WorkInv'
    BY <1>1, <2>4, <2>6 DEF IInv, WorkInv, Has
  <2> HIDE DEF i
  <2>8. ASSUME ~overtaken PROVE Linked'
    <3>1. IdInv' /\ EntryInv' /\ MsgInv'
      BY <1>1, <2>6, <2>8, Keep DEF Coming, AtDrop, IInv, Linked, EntryInv
    <3>2. Doing /\ WorkInv /\ motion' = motion /\ mc' = mc
      BY <1>1, <2>8 DEF IInv, Linked
    <3>3. motion.at = "update" => motion.id # i
      BY <1>1, <3>2 DEF Doing, Unlocked, Nobody
    <3>4. motion.at = "prune" \/ motion.at = "update" \/ motion.at = "start" \/ motion.at = "drop" => motion.id \in IDs
      BY <3>2 DEF WorkInv
    <3>5. \A j \in motion.todo : j \in IDs
      BY DEF IInv, TypeOK
    <3>6. main'.at = "holding" => entries'[main'.id].owner = "Main" /\ entries'[main'.id].lastAccessor # Nobody
      BY <2>2, <2>3, <2>4 DEF Nobody
    <3>7. Doing'
      BY <2>6, <3>2, <3>3, <3>4, <3>5, <3>6 DEF Doing, Dead, Has
    <3> QED
      BY <3>1, <3>7 DEF Linked
  <2> QED
    BY <1>1, <2>5, <2>7, <2>8 DEF IInv
<1>3. CASE Dead(i)
  <2>1. entries' = entries /\ main' = Idle
    BY <1>3 DEF gotLock, StillThere
  <2>2. main'.at = "idle" /\ main' \in Process({"idle", "waiting", "holding", "message"})
    BY <2>1 DEF Idle, Process
  <2>3. TypeOK' /\ Sound(cmdlist)'
    BY <1>1, <2>1, <2>2 DEF IInv, TypeOK, Process, Sound, Injective, Message
  <2>4. WorkInv'
    BY <1>1, <2>1, <2>2 DEF IInv, WorkInv, Has
  <2>5. ASSUME ~overtaken PROVE Linked'
    <3>1. IdInv' /\ EntryInv' /\ MsgInv'
      BY <1>1, <2>1, <2>5, Keep DEF Coming, AtDrop, IInv, Linked, EntryInv, Dead
    <3>2. Doing'
      BY <1>1, <2>1, <2>2, <2>5 DEF IInv, Linked, Doing, Dead, Has
    <3> QED
      BY <3>1, <3>2 DEF Linked
  <2> QED
    BY <1>1, <2>3, <2>4, <2>5 DEF IInv
<1> QED
  BY <1>2, <1>3

LEMMA CheckinStep ==
  ASSUME IInv, checkinMotion
  PROVE  IInv'
<1> DEFINE i == main.id
           e == [entries[i] EXCEPT !.owner = Nobody]
<1>1. /\ main.at = "holding" /\ i \in IDs /\ main' = Idle /\ entries' = [entries EXCEPT ![i] = e]
      /\ UNCHANGED <<MMlock, motion, cmdlist, mc, inbox, unsent, mc_id, adds, overtaken>>
  BY DEF checkinMotion, IInv, WorkInv
<1>2. e \in Entry /\ e.owner = Nobody /\ e.lastAccessor = entries[i].lastAccessor /\ e.rcr = entries[i].rcr
  <2>1. entries[i] \in Entry
    BY <1>1, Typed DEF IInv
  <2> QED
    BY <2>1 DEF Entry
<1> HIDE DEF e
<1>3. /\ entries' \in [IDs -> Entry] /\ entries'[i] = e
      /\ \A j \in IDs : j # i => entries'[j] = entries[j]
  BY <1>1, <1>2, EntryStep DEF IInv
<1>4. main'.at = "idle" /\ main' \in Process({"idle", "waiting", "holding", "message"})
  BY <1>1 DEF Idle, Process
<1>5. TypeOK' /\ Sound(cmdlist)'
  BY <1>1, <1>3, <1>4 DEF IInv, TypeOK, Process, Sound, Injective, Message, Entry
<1>6. \A j \in IDs : /\ entries'[j].rcr = entries[j].rcr
                     /\ entries'[j].lastAccessor = Nobody <=> Dead(j)
                     /\ j # i => entries'[j].owner = entries[j].owner
  BY <1>2, <1>3 DEF Dead
<1>7. WorkInv'
  BY <1>1, <1>4, <1>6 DEF IInv, WorkInv, Has
<1> HIDE DEF i
<1>8. ASSUME ~overtaken PROVE Linked'
  <2>1. IdInv' /\ EntryInv' /\ MsgInv'
    BY <1>1, <1>6, <1>8, Keep DEF Coming, AtDrop, IInv, Linked, EntryInv
  <2>2. Doing /\ WorkInv /\ motion' = motion /\ mc' = mc
    BY <1>1, <1>8 DEF IInv, Linked
  <2>3. motion.at = "update" => motion.id # i
    BY <1>1, <2>2 DEF Doing, i
  <2>4. motion.at = "prune" \/ motion.at = "update" \/ motion.at = "start" \/ motion.at = "drop" => motion.id \in IDs
    BY <2>2 DEF WorkInv
  <2>5. \A j \in motion.todo : j \in IDs
    BY DEF IInv, TypeOK
  <2>6. Doing'
    BY <1>4, <1>6, <2>2, <2>3, <2>4, <2>5 DEF Doing, Dead, Has
  <2> QED
    BY <2>1, <2>6 DEF Linked
<1> QED
  BY <1>1, <1>5, <1>7, <1>8 DEF IInv

-------------------------------------------------------------------------------
(* A cycle of Motion                                                       *)

LEMMA GetOutputsStep ==
  ASSUME IInv, getOutputs
  PROVE  IInv'
<1>1. /\ motion = Idle /\ MMlock = Nobody /\ MMlock' = "Motion" /\ motion' = [Idle EXCEPT !.at = "cycle", !.todo = Updatable]
      /\ UNCHANGED <<cmdlist, entries, mc, inbox, unsent, main, mc_id, adds, overtaken>>
  BY DEF getOutputs
<1>2. Updatable \in SUBSET IDs /\ \A j \in Updatable : Has("Motion", j)
  BY Typed DEF Updatable, IInv
<1>3. /\ motion'.at = "cycle" /\ motion'.todo = Updatable
      /\ motion' \in Process({"idle", "start", "drop", "cycle", "update", "prune"})
  BY <1>1, <1>2 DEF Idle, Process
<1>4. TypeOK' /\ Sound(cmdlist)'
  BY <1>1, <1>3 DEF IInv, TypeOK, Accessors, Process, Sound, Injective, Message
<1>5. WorkInv'
  BY <1>1, <1>3 DEF IInv, WorkInv, Nobody, Idle
<1>6. ASSUME ~overtaken PROVE Linked'
  <2>1. motion.at = "idle"
    BY <1>1 DEF Idle
  <2>2. IdInv' /\ EntryInv' /\ MsgInv'
    BY <1>1, <1>6, <2>1, Keep DEF Coming, AtDrop, IInv, Linked, EntryInv, Dead
  <2>3. Doing'
    BY <1>1, <1>2, <1>3, <1>6 DEF IInv, Linked, Doing, Dead, Has
  <2> QED
    BY <2>2, <2>3 DEF Linked
<1> QED
  BY <1>1, <1>4, <1>5, <1>6 DEF IInv

LEMMA EndOutputsStep ==
  ASSUME IInv, endOutputs
  PROVE  IInv'
<1>1. /\ motion.at = "cycle" /\ MMlock' = Nobody /\ motion' = Idle
      /\ UNCHANGED <<cmdlist, entries, mc, inbox, unsent, main, mc_id, adds, overtaken>>
  BY DEF endOutputs, MotionDone
<1>2. /\ motion'.at = "idle"
      /\ motion' \in Process({"idle", "start", "drop", "cycle", "update", "prune"})
  BY <1>1 DEF Idle, Process
<1>3. TypeOK' /\ Sound(cmdlist)'
  BY <1>1, <1>2, ZenonT(60) DEF IInv, TypeOK, Process, Sound, Injective, Message
<1>4. WorkInv'
  BY <1>1, <1>2 DEF IInv, WorkInv, Nobody
<1>5. ASSUME ~overtaken PROVE Linked'
  <2>1. IdInv' /\ EntryInv' /\ MsgInv'
    BY <1>1, <1>5, Keep DEF Coming, AtDrop, IInv, Linked, EntryInv, Dead
  <2>2. Doing'
    BY <1>1, <1>2, <1>5 DEF IInv, Linked, Doing, Dead, Has
  <2> QED
    BY <2>1, <2>2 DEF Linked
<1> QED
  BY <1>1, <1>3, <1>4, <1>5 DEF IInv

LEMMA TryCheckoutStep ==
  ASSUME IInv, NEW i \in IDs, tryCheckout(i)
  PROVE  IInv'
<1> DEFINE e == [entries[i] EXCEPT !.owner = "Motion", !.lastAccessor = "Motion"]
<1>1. /\ motion.at = "cycle" /\ i \in motion.todo /\ ~Dead(i) /\ Unlocked(i)
      /\ entries' = [entries EXCEPT ![i] = e]
      /\ MMlock' = "Motion" /\ motion' = [motion EXCEPT !.at = "update", !.id = i]
      /\ UNCHANGED <<cmdlist, mc, inbox, unsent, main, mc_id, adds, overtaken>>
  BY DEF tryCheckout, MotionAt
<1>2. e \in Entry /\ e.owner = "Motion" /\ e.lastAccessor = "Motion" /\ e.rcr = entries[i].rcr
  <2>1. entries[i] \in Entry
    BY Typed DEF IInv
  <2> QED
    BY <2>1 DEF Entry, Accessors
<1> HIDE DEF e
<1>3. /\ entries' \in [IDs -> Entry] /\ entries'[i] = e
      /\ \A j \in IDs : j # i => entries'[j] = entries[j]
  BY <1>1, <1>2, EntryStep DEF IInv
<1>4. /\ motion'.at = "update" /\ motion'.id = i /\ motion'.todo = motion.todo
      /\ motion' \in Process({"idle", "start", "drop", "cycle", "update", "prune"})
      /\ \A j \in motion.todo : j \in IDs
  BY <1>1 DEF IInv, TypeOK, Process
<1>5. TypeOK' /\ Sound(cmdlist)'
  BY <1>1, <1>3, <1>4 DEF IInv, TypeOK, Accessors, Process, Sound, Injective, Message, Entry
<1>6. WorkInv'
  BY <1>1, <1>4 DEF IInv, WorkInv
<1>7. \A j \in IDs : /\ entries'[j].rcr = entries[j].rcr
                     /\ entries'[j].lastAccessor = Nobody <=> Dead(j)
                     /\ j # i => entries'[j].owner = entries[j].owner
  BY <1>1, <1>2, <1>3 DEF Dead, Nobody
<1>8. ASSUME ~overtaken PROVE Linked'
  <2>1. \A j \in IDs : ~Dead(j) /\ Has("Motion", j) => mc[entries[j].rcr["Motion"]].started
    BY <1>1, <1>8 DEF IInv, Linked, EntryInv
  <2>2. IdInv' /\ EntryInv' /\ MsgInv'
    BY <1>1, <1>7, <1>8, <2>1, Keep DEF Coming, AtDrop, IInv
  <2>3. Doing /\ WorkInv /\ mc' = mc /\ main' = main
    BY <1>1, <1>8 DEF IInv, Linked
  <2>4. Has("Motion", i)
    BY <1>1, <2>3 DEF Doing
  <2>5. main.at = "holding" => main.id # i /\ main.id \in IDs
    BY <1>1, <2>3 DEF Doing, Unlocked, Nobody, WorkInv
  <2>6. main'.at = "holding" => entries'[main'.id].owner = "Main" /\ entries'[main'.id].lastAccessor # Nobody
    BY <1>7, <2>3, <2>5 DEF Doing, Dead
  <2>7. entries'[i].owner = "Motion" /\ entries'[i].lastAccessor # Nobody /\ mc'[entries'[i].rcr["Motion"]].started
    BY <1>1, <1>2, <1>3, <2>1, <2>3, <2>4 DEF Nobody
  <2>8. \A j \in motion'.todo : entries'[j].rcr["Motion"] # NoMotion
    BY <1>1, <1>4, <1>7, <2>3 DEF Doing, Has
  <2>9. entries'[i].rcr["Motion"] # NoMotion
    BY <1>7, <2>4 DEF Has
  <2>10. Doing'
    BY <1>4, <2>6, <2>7, <2>8, <2>9 DEF Doing, Dead, Has
  <2> QED
    BY <2>2, <2>10 DEF Linked
<1> QED
  BY <1>1, <1>5, <1>6, <1>8 DEF IInv

LEMMA CheckinUpdatedStep ==
  ASSUME IInv, checkinUpdated
  PROVE  IInv'
<1> DEFINE i == motion.id
           e == [entries[i] EXCEPT !.owner = Nobody]
<1>1. /\ motion.at = "update" /\ i \in IDs /\ entries' = [entries EXCEPT ![i] = e]
      /\ UNCHANGED <<cmdlist, MMlock, mc, inbox, unsent, main, mc_id, adds, overtaken>>
  BY DEF checkinUpdated, IInv, WorkInv
<1>2. e \in Entry /\ e.owner = Nobody /\ e.lastAccessor = entries[i].lastAccessor /\ e.rcr = entries[i].rcr
  <2>1. entries[i] \in Entry
    BY <1>1, Typed DEF IInv
  <2> QED
    BY <2>1 DEF Entry
<1> HIDE DEF e
<1>3. /\ entries' \in [IDs -> Entry] /\ entries'[i] = e
      /\ \A j \in IDs : j # i => entries'[j] = entries[j]
  BY <1>1, <1>2, EntryStep DEF IInv
<1>4. PICK at \in {"prune", "cycle"} : /\ motion' = [at |-> at, id |-> i, todo |-> motion.todo \ {i}]
                                       /\ at = "prune" => entries[i].rcr["Motion"] \in Prunable
  BY DEF checkinUpdated
<1>5. /\ motion'.at \in {"prune", "cycle"} /\ motion'.id = i
      /\ motion'.at = "prune" => entries'[i].rcr["Motion"] # NoMotion
      /\ motion'.todo = motion.todo \ {i}
      /\ motion' \in Process({"idle", "start", "drop", "cycle", "update", "prune"})
      /\ \A j \in motion.todo : j \in IDs
  <2>1. entries[i].rcr["Motion"] \in Prunable => entries'[i].rcr["Motion"] # NoMotion
    BY <1>2, <1>3, Parameters
  <2> QED
    BY <1>1, <1>4, <2>1 DEF IInv, TypeOK, Process
<1>6. TypeOK' /\ Sound(cmdlist)'
  BY <1>1, <1>3, <1>5 DEF IInv, TypeOK, Process, Sound, Injective, Message, Entry
<1>7. WorkInv'
  BY <1>1, <1>5 DEF IInv, WorkInv, Has
<1>8. \A j \in IDs : /\ entries'[j].rcr = entries[j].rcr
                     /\ entries'[j].lastAccessor = Nobody <=> Dead(j)
                     /\ j # i => entries'[j].owner = entries[j].owner
  BY <1>2, <1>3 DEF Dead
<1> HIDE DEF i
<1>9. ASSUME ~overtaken PROVE Linked'
  <2>1. Doing /\ WorkInv /\ mc' = mc /\ main' = main
    BY <1>1, <1>9 DEF IInv, Linked
  <2>2. IdInv' /\ EntryInv' /\ MsgInv'
    BY <1>1, <1>8, <1>9, Keep DEF Coming, AtDrop, IInv, Linked, EntryInv
  <2>3. entries[i].owner = "Motion" /\ ~Dead(i) /\ Has("Motion", i)
    BY <1>1, <2>1 DEF Doing, i
  <2>4. main.at = "holding" => main.id # i /\ main.id \in IDs
    BY <2>1, <2>3 DEF Doing, WorkInv
  <2>5. main'.at = "holding" => entries'[main'.id].owner = "Main" /\ entries'[main'.id].lastAccessor # Nobody
    BY <1>8, <2>1, <2>4 DEF Doing, Dead
  <2>6. \A j \in motion'.todo : entries'[j].rcr["Motion"] # NoMotion
    BY <1>1, <1>5, <1>8, <2>1 DEF Doing, Has
  <2>7. entries'[i].rcr["Motion"] # NoMotion /\ entries'[i].lastAccessor # Nobody /\ i \notin motion'.todo
    BY <1>1, <1>5, <1>8, <2>3 DEF Has
  <2>8. Doing'
    BY <1>5, <2>5, <2>6, <2>7 DEF Doing, Dead, Has
  <2> QED
    BY <2>2, <2>8 DEF Linked
<1> QED
  BY <1>1, <1>6, <1>7, <1>9 DEF IInv

LEMMA DoStartStep ==
  ASSUME IInv, DoStart
  PROVE  IInv'
<1> DEFINE i == motion.id
           n == entries[i].rcr["Motion"]
           e == [entries[i] EXCEPT !.lastAccessor = "Motion"]
<1>1. /\ motion.at = "start" /\ i \in IDs /\ entries' = [entries EXCEPT ![i] = e]
      /\ mc' = [mc EXCEPT ![n].started = TRUE]
      /\ MMlock' = Nobody /\ motion' = Idle
      /\ UNCHANGED <<cmdlist, inbox, unsent, main, mc_id, adds, overtaken>>
  BY DEF DoStart, IInv, WorkInv, MotionDone
<1>2. e \in Entry /\ e.owner = entries[i].owner /\ e.lastAccessor = "Motion" /\ e.rcr = entries[i].rcr
  <2>1. entries[i] \in Entry
    BY <1>1, Typed DEF IInv
  <2> QED
    BY <2>1 DEF Entry, Accessors
<1> HIDE DEF e
<1>3. /\ entries' \in [IDs -> Entry] /\ entries'[i] = e
      /\ \A j \in IDs : j # i => entries'[j] = entries[j]
  BY <1>1, <1>2, EntryStep DEF IInv
<1>4. mc' \in [Motions -> MC] /\ \A m \in Motions : mc'[m].id = mc[m].id /\ (mc[m].started => mc'[m].started)
  <2>1. mc \in [Motions -> MC]
    BY Typed DEF IInv
  <2> HIDE DEF n
  <2> QED
    BY <1>1, <2>1 DEF MC
<1>5. n \in Motions => mc'[n].started
  <2>1. mc \in [Motions -> MC]
    BY Typed DEF IInv
  <2> HIDE DEF n
  <2> QED
    BY <1>1, <2>1 DEF MC
<1>6. /\ motion'.at = "idle"
      /\ motion' \in Process({"idle", "start", "drop", "cycle", "update", "prune"})
  BY <1>1 DEF Idle, Process
<1>7. TypeOK' /\ Sound(cmdlist)'
  <2>1. TypeOK'
    BY <1>1, <1>3, <1>4, <1>6 DEF IInv, TypeOK, Process, Message, Entry, MC
  <2>2. Sound(cmdlist)'
    BY <1>1 DEF IInv, Sound, Injective
  <2> QED
    BY <2>1, <2>2
<1>8. WorkInv'
  BY <1>1, <1>6 DEF IInv, WorkInv, Nobody
<1> HIDE DEF i
<1>9. ASSUME ~overtaken PROVE Linked'
  <2>1. Doing /\ WorkInv /\ EntryInv /\ main' = main
    BY <1>1, <1>9 DEF IInv, Linked
  <2>2. ~Dead(i)
    BY <1>1, <2>1 DEF Doing, i
  <2>3. \A j \in IDs : /\ entries'[j].rcr = entries[j].rcr
                       /\ entries'[j].lastAccessor = Nobody <=> Dead(j)
                       /\ entries'[j].owner = entries[j].owner
    BY <1>2, <1>3, <2>2 DEF Dead, Nobody
  <2>4. \A j \in IDs : ~Dead(j) /\ Has("Motion", j) => mc'[entries[j].rcr["Motion"]].started
    <3> SUFFICES ASSUME NEW j \in IDs, ~Dead(j), Has("Motion", j)
                 PROVE  mc'[entries[j].rcr["Motion"]].started
      OBVIOUS
    <3>1. entries[j].rcr["Motion"] \in Motions
      BY Typed DEF IInv
    <3>2. CASE j = i
      BY <1>5, <3>1, <3>2
    <3>3. CASE j # i
      BY <1>4, <2>1, <3>1, <3>3 DEF EntryInv, i
    <3> QED
      BY <3>2, <3>3
  <2>5. IdInv' /\ EntryInv' /\ MsgInv'
    BY <1>1, <1>4, <1>9, <2>3, <2>4, Keep DEF Coming, AtDrop
  <2>6. main.at = "holding" => main.id \in IDs
    BY <2>1 DEF WorkInv
  <2>7. main'.at = "holding" => entries'[main'.id].owner = "Main" /\ entries'[main'.id].lastAccessor # Nobody
    BY <2>1, <2>3, <2>6 DEF Doing, Dead
  <2>8. Doing'
    BY <1>6, <2>7 DEF Doing, Dead
  <2> QED
    BY <2>5, <2>8 DEF Linked
<1> QED
  BY <1>1, <1>7, <1>8, <1>9 DEF IInv

-------------------------------------------------------------------------------
(* Removing a command                                                      *)

LEMMA RemovedFacts ==
  ASSUME TypeOK, NEW a \in Accessors, NEW i \in IDs, Has(a, i), Removed(a, i)
  PROVE  /\ entries' \in [IDs -> Entry]
         /\ \A j \in IDs : j # i => entries'[j] = entries[j]
         /\ entries'[i].lastAccessor = Nobody /\ entries'[i].owner = entries[i].owner
         /\ entries'[i].rcr[a] = NoMotion
         /\ \A b \in Accessors : b # a => entries'[i].rcr[b] = entries[i].rcr[b]
         /\ entries[i].rcr[a] \in Motions
<1> DEFINE n == entries[i].rcr[a]
           e == [entries[i] EXCEPT !.lastAccessor = Nobody, !.rcr = [@ EXCEPT ![a] = NoMotion]]
<1>1. entries[i] \in Entry /\ entries \in [IDs -> Entry] /\ n \in Motions
  <2>1. entries[i] \in Entry /\ entries \in [IDs -> Entry]
    BY Typed
  <2>2. n \in Motions \cup {NoMotion} /\ n # NoMotion
    BY <2>1 DEF Entry, Has
  <2> QED
    BY <2>1, <2>2
<1>2. entries' = [entries EXCEPT ![i] = e]
  BY <1>1 DEF Removed
<1>3. /\ e \in Entry /\ e.lastAccessor = Nobody /\ e.owner = entries[i].owner
      /\ e.rcr[a] = NoMotion
      /\ \A b \in Accessors : b # a => e.rcr[b] = entries[i].rcr[b]
  BY <1>1 DEF Entry
<1> HIDE DEF e, n
<1>4. /\ entries' \in [IDs -> Entry] /\ entries'[i] = e
      /\ \A j \in IDs : j # i => entries'[j] = entries[j]
  BY <1>2, <1>3, EntryStep
<1> QED
  BY <1>1, <1>3, <1>4 DEF n

\* A message Main has to send once the listeners return.
LEMMA PostFacts ==
  ASSUME TypeOK, NEW y \in Message, Post(y), inbox' = inbox
  PROVE  /\ unsent' \in Seq(Message) /\ unsent' # << >> /\ MMlock' = "Main"
         /\ \A a \in Accessors :
              /\ \A x : In(Coming(a)', x) <=> (In(Coming(a), x) \/ x = y)
              /\ /\ Ordered(Coming(a))
                 /\ y.type = "add" => \A k \in 1 .. Len(inbox[a]) : inbox[a][k].mc # y.mc
                 /\ y.type = "delete" => ~In(unsent, AddMessage(y.mc))
                 => Ordered(Coming(a)')
<1>1. unsent' = <<y>> \o unsent /\ MMlock' = "Main"
  BY DEF Post
<1>2. unsent \in Seq(Message)
  BY Typed
<1>3. unsent' \in Seq(Message)
  BY <1>1, <1>2, EmptySeq, Between
<1>4. unsent' # << >>
  <2>1. <<y>> \in Seq(Message) /\ <<y>> # << >>
    OBVIOUS
  <2> QED
    BY <1>1, <1>2, <2>1, ConcatEqualIffEmpty
<1>5. ASSUME NEW a \in Accessors
      PROVE  /\ \A x : In(Coming(a)', x) <=> (In(Coming(a), x) \/ x = y)
             /\ /\ Ordered(Coming(a))
                /\ y.type = "add" => \A k \in 1 .. Len(inbox[a]) : inbox[a][k].mc # y.mc
                /\ y.type = "delete" => ~In(unsent, AddMessage(y.mc))
                => Ordered(Coming(a)')
  <2> DEFINE q == inbox[a]
  <2>1. q \in Seq(Message) /\ Coming(a) = q \o unsent /\ Coming(a)' = q \o (<<y>> \o unsent)
    BY <1>1, Typed DEF Coming
  <2> HIDE DEF q
  <2>2. /\ \A x : In(q \o (<<y>> \o unsent), x) <=> (In(q \o unsent, x) \/ x = y)
        /\ /\ Ordered(q \o unsent)
           /\ y.type = "add" => \A k \in 1 .. Len(q) : q[k].mc # y.mc
           /\ y.type = "delete" => ~In(unsent, AddMessage(y.mc))
           => Ordered(q \o (<<y>> \o unsent))
    BY <1>2, <2>1, Between, Zenon
  <2> QED
    BY <2>1, <2>2, Zenon DEF q
<1> QED
  BY <1>1, <1>3, <1>4, <1>5

LEMMA RemoveStep ==
  ASSUME IInv, NEW m \in Motions, removeMotion(m)
  PROVE  IInv'
<1> DEFINE i == mc_id[m]
           n == entries[i].rcr["Main"]
<1>1. /\ main = Idle /\ MMlock # "Motion" /\ i \in IDs /\ mc_id' = [mc_id EXCEPT ![m] = invalid_MC_ID]
      /\ UNCHANGED <<motion, cmdlist, mc, inbox, main, adds>>
  BY DEF removeMotion, IInv, TypeOK
<1>2. motion.at = "idle" /\ main.at = "idle"
  BY <1>1 DEF IInv, WorkInv, Idle
<1>3. mc_id' \in [Motions -> IDs \cup {invalid_MC_ID}]
  BY <1>1 DEF IInv, TypeOK
<1>4. Sound(cmdlist)'
  BY <1>1 DEF IInv, Sound, Injective
<1>5. Doing'
  BY <1>1, <1>2 DEF Doing
<1>6. CASE UNCHANGED <<entries, MMlock, unsent, overtaken>>
  <2>1. TypeOK' /\ WorkInv'
    BY <1>1, <1>2, <1>3, <1>6 DEF IInv, TypeOK, Message, WorkInv
  <2>2. ASSUME ~overtaken PROVE IdInv' /\ EntryInv' /\ MsgInv'
    BY <1>1, <1>6, <2>2, Keep DEF Coming, AtDrop, IInv, Linked, EntryInv, Dead
  <2> QED
    BY <1>4, <1>5, <1>6, <2>1, <2>2 DEF IInv, Linked
<1>7. CASE /\ ~Dead(i) /\ Has("Main", i) /\ Removed("Main", i) /\ Post(DeleteMessage(n, i))
           /\ overtaken' = (overtaken \/ Unannounced(n))
  <2> HIDE DEF i
  <2>1. "Main" \in Accessors /\ "Motion" \in Accessors /\ "Main" # "Motion" /\ TypeOK
    BY DEF Accessors, IInv
  <2>2. /\ entries' \in [IDs -> Entry]
        /\ \A j \in IDs : j # i => entries'[j] = entries[j]
        /\ entries'[i].lastAccessor = Nobody
        /\ entries'[i].rcr["Main"] = NoMotion
        /\ entries'[i].rcr["Motion"] = entries[i].rcr["Motion"]
        /\ n \in Motions
    <3> HIDE DEF n
    <3>1. /\ entries' \in [IDs -> Entry]
          /\ \A j \in IDs : j # i => entries'[j] = entries[j]
          /\ entries'[i].lastAccessor = Nobody
          /\ entries'[i].rcr["Main"] = NoMotion
          /\ \A b \in Accessors : b # "Main" => entries'[i].rcr[b] = entries[i].rcr[b]
          /\ entries[i].rcr["Main"] \in Motions
      BY <1>1, <1>7, <2>1, RemovedFacts, ZenonT(40)
    <3> QED
      BY <2>1, <3>1 DEF n
  <2> HIDE DEF n
  <2> DEFINE y == DeleteMessage(n, i)
  <2>3. y \in Message /\ y.type = "delete" /\ y.mc = n /\ Post(y) /\ inbox' = inbox
    BY <1>1, <1>7, <2>2, Kinds
  <2> HIDE DEF y
  <2>4. /\ unsent' \in Seq(Message) /\ unsent' # << >> /\ MMlock' = "Main"
        /\ \A a \in Accessors : /\ \A x : In(Coming(a)', x) <=> (In(Coming(a), x) \/ x = y)
                                /\ Ordered(Coming(a)) /\ ~In(unsent, AddMessage(n)) => Ordered(Coming(a)')
    <3>1. y.type # "add"
      BY <2>3
    <3>2. /\ unsent' \in Seq(Message) /\ unsent' # << >> /\ MMlock' = "Main"
          /\ \A a \in Accessors :
               /\ \A x : In(Coming(a)', x) <=> (In(Coming(a), x) \/ x = y)
               /\ /\ Ordered(Coming(a))
                  /\ y.type = "add" => \A k \in 1 .. Len(inbox[a]) : inbox[a][k].mc # y.mc
                  /\ y.type = "delete" => ~In(unsent, AddMessage(y.mc))
                  => Ordered(Coming(a)')
      BY <2>1, <2>3, PostFacts, Zenon
    <3> QED
      BY <2>3, <3>1, <3>2
  <2>5. overtaken' \in BOOLEAN
    <3> DEFINE o == overtaken \/ Unannounced(n)
    <3>1. overtaken' = o /\ o \in BOOLEAN
      BY <1>7, Zenon
    <3> HIDE DEF o
    <3> QED
      BY <3>1
  <2>6. TypeOK'
    BY <1>1, <1>3, <2>2, <2>4, <2>5 DEF IInv, TypeOK, Entry, Message, Accessors
  <2>7. WorkInv'
    BY <1>1, <1>2, <2>4 DEF IInv, WorkInv
  <2>8. ASSUME ~overtaken' PROVE IdInv' /\ EntryInv' /\ MsgInv'
    <3>0. ~overtaken /\ ~In(unsent, AddMessage(n))
      <4>1. ~overtaken /\ ~Unannounced(n)
        BY <1>7, <2>8, Zenon
      <4>2. DOMAIN unsent = 1 .. Len(unsent)
        BY <2>1, Typed, LenProperties
      <4> QED
        BY <4>1, <4>2 DEF Unannounced, In
    <3>1. IdInv /\ EntryInv /\ MsgInv
      BY <3>0 DEF IInv, Linked
    <3>2. mc[n].id = i /\ \A k \in Motions : mc[k].id = i => k = n
      BY <1>1, <1>7, <2>2, <3>1 DEF EntryInv, IdInv, n
    <3>4. /\ \A j \in IDs : entries'[j].rcr["Motion"] = entries[j].rcr["Motion"] /\ (Dead(j) => entries'[j].lastAccessor = Nobody)
          /\ \A j \in IDs : j # i => /\ entries'[j].rcr["Main"] = entries[j].rcr["Main"]
                                     /\ entries'[j].lastAccessor = Nobody => Dead(j)
      BY <2>2 DEF Dead
    <3>5. \A b \in Accessors : /\ \A k : In(Coming(b)', AddMessage(k)) <=> In(Coming(b), AddMessage(k))
                               /\ \A k, j : In(Coming(b)', DeleteMessage(k, j)) <=> (In(Coming(b), DeleteMessage(k, j)) \/ (k = n /\ j = i))
      BY <2>4, Kinds DEF y
    <3>6. IdInv'
      BY <1>1, <1>2, <2>1, <3>1, <3>2, <3>4, <3>5 DEF IdInv, Dead, AtDrop
    <3>7. EntryInv'
      BY <1>1, <1>2, <2>1, <2>2, <3>1, <3>2, <3>4, <3>5 DEF EntryInv, Dead, Has, Active
    <3>8. MsgInv'
      BY <2>2, <2>4, <3>0, <3>1, <3>4, <3>5 DEF MsgInv, Dead
    <3> QED
      BY <3>6, <3>7, <3>8
  <2> QED
    BY <1>4, <1>5, <2>6, <2>7, <2>8 DEF IInv, Linked
<1> QED
  BY <1>6, <1>7 DEF removeMotion

\* The message of the innermost call goes out: what is to come stays the same.
LEMMA CallbackStep ==
  ASSUME IInv, callbackReturns
  PROVE  IInv'
<1>1. /\ main = Idle /\ unsent # << >> /\ unsent' = Tail(unsent)
      /\ inbox' = [a \in Accessors |-> Append(inbox[a], Head(unsent))]
      /\ MMlock' = IF Len(unsent) = 1 THEN Nobody ELSE "Main"
      /\ UNCHANGED <<cmdlist, entries, mc, main, motion, mc_id, adds, overtaken>>
  BY DEF callbackReturns, Send
<1>2. motion.at = "idle" /\ main.at = "idle"
  BY <1>1 DEF IInv, WorkInv, Idle
<1>3. unsent \in Seq(Message) /\ Len(unsent) \in Nat
  BY Typed, LenProperties DEF IInv
<1>4. unsent' \in Seq(Message) /\ (unsent' = << >> <=> Len(unsent) = 1)
  <2>1. Tail(unsent) \in Seq(Message) /\ Len(Tail(unsent)) = Len(unsent) - 1
    BY <1>1, <1>3, HeadTailProperties
  <2>2. Tail(unsent) = << >> <=> Len(Tail(unsent)) = 0
    BY <2>1, EmptySeq
  <2> QED
    BY <1>1, <1>3, <2>1, <2>2
<1>5. \A a \in Accessors : inbox'[a] \in Seq(Message) /\ Coming(a)' = Coming(a)
  <2> TAKE a \in Accessors
  <2> DEFINE q == inbox[a]
  <2>1. q \in Seq(Message) /\ inbox'[a] = Append(q, Head(unsent))
    BY <1>1, Typed DEF IInv
  <2>2. Coming(a) = q \o unsent /\ Coming(a)' = Append(q, Head(unsent)) \o Tail(unsent)
    BY <1>1, <2>1 DEF Coming
  <2> HIDE DEF q
  <2> QED
    BY <1>1, <1>3, <2>1, <2>2, Moved
<1>6. inbox' \in [Accessors -> Seq(Message)]
  BY <1>1, <1>5
<1>7. TypeOK' /\ Sound(cmdlist)'
  BY <1>1, <1>4, <1>6 DEF IInv, TypeOK, Message, Sound, Injective, Accessors
<1>8. WorkInv'
  BY <1>1, <1>2, <1>4 DEF IInv, WorkInv, Nobody
<1>9. Doing'
  BY <1>1, <1>2 DEF Doing
<1>10. ASSUME ~overtaken PROVE IdInv' /\ EntryInv' /\ MsgInv'
  BY <1>1, <1>5, <1>10, Keep DEF AtDrop, IInv, Linked, EntryInv, Dead
<1> QED
  BY <1>1, <1>7, <1>8, <1>9, <1>10 DEF IInv, Linked

LEMMA PruneStep ==
  ASSUME IInv, prune
  PROVE  IInv'
<1> DEFINE i == motion.id
           n == entries[i].rcr["Motion"]
<1>1. /\ motion.at = "prune" /\ Unlocked(i) /\ i \in IDs
      /\ mc' = [mc EXCEPT ![n] = [id |-> invalid_MC_ID, started |-> FALSE]]
      /\ motion' = [motion EXCEPT !.at = "cycle"] /\ Send(DeleteMessage(n, i))
      /\ UNCHANGED <<cmdlist, MMlock, unsent, main, mc_id, adds, overtaken>>
      /\ unsent = << >> /\ MMlock = "Motion"
  BY DEF prune, DoStop, IInv, WorkInv
<1>2. Removed("Motion", i)
  BY DEF prune
<1>3. /\ motion'.at = "cycle" /\ motion'.todo = motion.todo
      /\ motion' \in Process({"idle", "start", "drop", "cycle", "update", "prune"})
      /\ \A j \in motion.todo : j \in IDs
  BY <1>1 DEF IInv, TypeOK, Process
<1>4. Sound(cmdlist)'
  BY <1>1 DEF IInv, Sound, Injective
<1>5. mc' \in [Motions -> MC] /\ \A k \in Motions : k # n => mc'[k] = mc[k]
  <2>1. mc \in [Motions -> MC] /\ [id |-> invalid_MC_ID, started |-> FALSE] \in MC
    BY Typed DEF IInv, MC
  <2> HIDE DEF n
  <2> QED
    BY <1>1, <2>1
<1> HIDE DEF i
<1>6. Has("Motion", i)
  BY <1>1 DEF IInv, WorkInv, i
<1> HIDE DEF n
<1>7. /\ entries' \in [IDs -> Entry]
      /\ \A j \in IDs : j # i => entries'[j] = entries[j]
      /\ entries'[i].lastAccessor = Nobody /\ entries'[i].owner = entries[i].owner
      /\ entries'[i].rcr["Motion"] = NoMotion
      /\ entries'[i].rcr["Main"] = entries[i].rcr["Main"]
      /\ n \in Motions
  <2>1. "Main" \in Accessors /\ "Motion" \in Accessors /\ "Main" # "Motion" /\ TypeOK
    BY DEF Accessors, IInv
  <2>2. /\ entries' \in [IDs -> Entry]
        /\ \A j \in IDs : j # i => entries'[j] = entries[j]
        /\ entries'[i].lastAccessor = Nobody /\ entries'[i].owner = entries[i].owner
        /\ entries'[i].rcr["Motion"] = NoMotion
        /\ \A b \in Accessors : b # "Motion" => entries'[i].rcr[b] = entries[i].rcr[b]
        /\ entries[i].rcr["Motion"] \in Motions
    BY <1>1, <1>2, <1>6, <2>1, RemovedFacts, ZenonT(40)
  <2> QED
    BY <2>1, <2>2 DEF n
<1>71. /\ inbox' \in [Accessors -> Seq(Message)]
       /\ \A b \in Accessors : /\ inbox'[b] = Coming(b)'
                               /\ \A x : In(Coming(b)', x) <=> (In(Coming(b), x) \/ x = DeleteMessage(n, i))
                               /\ Ordered(Coming(b)) => Ordered(Coming(b)')
  <2> DEFINE y == DeleteMessage(n, i)
  <2>1. y \in Message /\ y.type # "add" /\ inbox' = [b \in Accessors |-> Append(inbox[b], y)]
    BY <1>1, <1>7, Kinds DEF Send
  <2> HIDE DEF y
  <2>2. ASSUME NEW b \in Accessors
        PROVE  /\ inbox'[b] \in Seq(Message) /\ inbox'[b] = Coming(b)'
               /\ \A x : In(Coming(b)', x) <=> (In(Coming(b), x) \/ x = y)
               /\ Ordered(Coming(b)) => Ordered(Coming(b)')
    <3> DEFINE q == inbox[b]
    <3>1. q \in Seq(Message) /\ inbox'[b] = Append(q, y)
      BY <2>1, Typed DEF IInv
    <3>2. Coming(b) = q \o << >> /\ Coming(b)' = Append(q, y) \o << >>
      BY <1>1, <3>1 DEF Coming
    <3> HIDE DEF q
    <3>3. /\ Append(q, y) \in Seq(Message) /\ \A x : In(Append(q, y), x) <=> (In(q, x) \/ x = y)
          /\ Ordered(q) => Ordered(Append(q, y))
      BY <2>1, <3>1, Sent
    <3>4. Coming(b) = q /\ Coming(b)' = Append(q, y)
      BY <3>1, <3>2, <3>3, ConcatEmptySeq
    <3> QED
      BY <3>1, <3>3, <3>4
  <2>3. inbox' \in [Accessors -> Seq(Message)]
    BY <2>1, <2>2
  <2> QED
    BY <2>2, <2>3 DEF y
<1>8. TypeOK'
  BY <1>1, <1>3, <1>5, <1>7, <1>71 DEF IInv, TypeOK, Process, Entry, Message, MC
<1>9. WorkInv'
  <2>1. inbox'["Main"] # << >>
    <3>1. In(inbox'["Main"], DeleteMessage(n, i))
      BY <1>71 DEF Accessors
    <3> QED
      BY <3>1, Empty
  <2> QED
    BY <1>1, <1>3, <2>1 DEF IInv, WorkInv
<1>10. ASSUME ~overtaken PROVE Linked'
  <2>1. IdInv /\ EntryInv /\ MsgInv /\ Doing /\ WorkInv
    BY <1>10 DEF IInv, Linked
  <2>2. ~Dead(i) /\ i \notin motion.todo
    BY <1>1, <2>1 DEF Doing, i
  <2>3. mc[n].id = i /\ \A k \in Motions : mc[k].id = i => k = n
    BY <1>1, <1>7, <2>1 DEF IdInv, n
  <2>4. entries[i].rcr["Main"] = n
    BY <1>1, <2>1, <2>2, <2>3 DEF EntryInv
  <2>5. mc'[n].id = invalid_MC_ID /\ n \in Motions
    <3>1. mc \in [Motions -> MC]
      BY Typed DEF IInv
    <3> HIDE DEF n
    <3> QED
      BY <1>1, <1>7, <3>1
  <2>6. "Main" \in Accessors /\ "Motion" \in Accessors /\ invalid_MC_ID \notin IDs
    BY NoID DEF Accessors
  <2> HIDE DEF n
  <2>7. /\ \A j \in IDs : j # i => /\ entries'[j].rcr = entries[j].rcr
                                   /\ (entries'[j].lastAccessor = Nobody <=> Dead(j))
        /\ \A j \in IDs : Dead(j) => entries'[j].lastAccessor = Nobody
    BY <1>7 DEF Dead
  <2>8. \A b \in Accessors : /\ \A k : In(Coming(b)', AddMessage(k)) <=> In(Coming(b), AddMessage(k))
                             /\ \A k, j : In(Coming(b)', DeleteMessage(k, j)) <=> (In(Coming(b), DeleteMessage(k, j)) \/ (k = n /\ j = i))
    BY <1>71, Kinds
  <2>9. \A k \in Motions, j \in IDs : mc'[k].id = j <=> (mc[k].id = j /\ j # i)
    BY <1>5, <2>3, <2>5, <2>6
  <2>10. IdInv'
    <3> SUFFICES ASSUME NEW k \in Motions, NEW j \in IDs
                 PROVE  /\ entries'[j].rcr["Motion"] = k => mc'[k].id = j
                        /\ mc'[k].id = j =>
                             /\ \A l \in Motions : mc'[l].id = j => l = k
                             /\ entries'[j].rcr["Motion"] = k \/ In(Coming("Motion")', AddMessage(k))
                             /\ entries'[j].lastAccessor = Nobody =>
                                  /\ In(Coming("Motion")', DeleteMessage(k, j)) \/ AtDrop(j)'
                                  /\ In(Coming("Main")', AddMessage(k)) => In(Coming("Main")', DeleteMessage(k, j))
      BY DEF IdInv, Dead
    <3>1. ~AtDrop(j)
      BY <1>1 DEF AtDrop
    <3>2. CASE j = i
      <4>1. entries'[j].rcr["Motion"] # k
        BY <1>7, <3>2, Parameters
      <4> QED
        BY <2>9, <3>2, <4>1
    <3>3. CASE j # i
      BY <2>1, <2>6, <2>7, <2>8, <2>9, <3>1, <3>3 DEF IdInv
    <3> QED
      BY <3>2, <3>3
  <2>11. EntryInv'
    <3> SUFFICES ASSUME NEW j \in IDs
                 PROVE  /\ ~Active(j) => entries'[j].lastAccessor = Nobody
                        /\ entries'[j].lastAccessor # Nobody => \E k \in Motions : entries'[j].rcr["Main"] = k /\ mc'[k].id = j
                        /\ entries'[j].lastAccessor # Nobody /\ entries'[j].rcr["Motion"] # NoMotion => mc'[entries'[j].rcr["Motion"]].started
                        /\ Active(j) /\ entries'[j].lastAccessor = Nobody /\ entries'[j].rcr["Main"] # NoMotion =>
                             \E k \in Motions : In(Coming("Main")', DeleteMessage(k, j))
                        /\ Active(j) /\ entries'[j].lastAccessor = Nobody /\ ~ entries'[j].rcr["Main"] # NoMotion =>
                             \E k \in Motions : mc'[k].id = j
      BY <1>1 DEF EntryInv, Dead, Has, Active
    <3>1. CASE j = i
      <4>1. entries'[i].rcr["Main"] # NoMotion
        BY <1>7, <2>4, Parameters
      <4>2. In(Coming("Main")', DeleteMessage(n, i))
        BY <2>6, <2>8
      <4> QED
        BY <1>7, <2>5, <3>1, <4>1, <4>2
    <3>2. CASE j # i
      <4>1. entries'[j].rcr = entries[j].rcr /\ (entries'[j].lastAccessor = Nobody <=> Dead(j))
        BY <2>7, <3>2
      <4>2. ~Dead(j) /\ Has("Motion", j) => mc'[entries[j].rcr["Motion"]].started
        <5> SUFFICES ASSUME ~Dead(j), Has("Motion", j) PROVE mc'[entries[j].rcr["Motion"]].started
          OBVIOUS
        <5> DEFINE k == entries[j].rcr["Motion"]
        <5>1. k \in Motions
          BY Typed DEF IInv
        <5>2. mc[k].id = j /\ k # n
          BY <2>1, <2>3, <3>2, <5>1 DEF IdInv
        <5>3. mc[k].started
          BY <1>1, <2>1 DEF EntryInv
        <5> HIDE DEF k
        <5>4. mc'[k].started
          BY <1>5, <5>1, <5>2, <5>3
        <5> QED
          BY <5>4 DEF k
      <4>3. /\ ~Active(j) => Dead(j)
            /\ ~Dead(j) => \E k \in Motions : entries[j].rcr["Main"] = k /\ mc[k].id = j
            /\ Active(j) /\ Dead(j) /\ Has("Main", j) => \E k \in Motions : In(Coming("Main"), DeleteMessage(k, j))
            /\ Active(j) /\ Dead(j) /\ ~Has("Main", j) => \E k \in Motions : mc[k].id = j
        BY <2>1 DEF EntryInv
      <4> QED
        BY <2>6, <2>8, <2>9, <3>2, <4>1, <4>2, <4>3 DEF Has
    <3> QED
      BY <3>1, <3>2
  <2>12. MsgInv'
    BY <1>7, <1>71, <2>1, <2>7, <2>8 DEF MsgInv, Dead
  <2>13. main.at = "holding" => main.id # i /\ main.id \in IDs
    BY <1>1, <2>1 DEF Doing, Unlocked, Nobody, WorkInv, i
  <2>14. main'.at = "holding" => entries'[main'.id].owner = "Main" /\ entries'[main'.id].lastAccessor # Nobody
    BY <1>1, <1>7, <2>1, <2>13 DEF Doing, Dead
  <2>15. \A j \in motion'.todo : entries'[j].rcr["Motion"] # NoMotion
    BY <1>1, <1>3, <1>7, <2>1, <2>2 DEF Doing, Has
  <2>16. Doing'
    BY <1>3, <2>14, <2>15 DEF Doing, Dead, Has
  <2> QED
    BY <2>10, <2>11, <2>12, <2>16 DEF Linked
<1> QED
  BY <1>1, <1>4, <1>8, <1>9, <1>10 DEF IInv

-------------------------------------------------------------------------------
(* Letting go of a command                                                 *)

LEMMA LetGoFacts ==
  ASSUME TypeOK, Sound(cmdlist), NEW a \in Accessors, NEW i \in IDs, LetGo(a, i)
  PROVE  /\ entries' \in [IDs -> Entry] /\ cmdlist' \in Pool(IDs) /\ Sound(cmdlist)'
         /\ \A j \in IDs : j # i => entries'[j] = entries[j]
         /\ entries'[i].owner = Nobody
         /\ entries'[i].lastAccessor = IF a = "Motion" THEN Nobody ELSE entries[i].lastAccessor
         /\ entries'[i].rcr[a] = NoMotion
         /\ \A b \in Accessors : b # a => entries'[i].rcr[b] = entries[i].rcr[b]
         /\ UsedSlots(cmdlist)' = IF LastOne(a, i) THEN UsedSlots(cmdlist) \ {i} ELSE UsedSlots(cmdlist)
<1> DEFINE last == IF a = "Motion" THEN Nobody ELSE entries[i].lastAccessor
           e == [entries[i] EXCEPT !.rcr = [@ EXCEPT ![a] = NoMotion], !.owner = Nobody, !.lastAccessor = last]
<1>1. entries[i] \in Entry /\ entries \in [IDs -> Entry] /\ cmdlist \in Pool(IDs)
  BY Typed
<1>2. last \in Accessors \cup {Nobody}
  BY <1>1 DEF Entry
<1> HIDE DEF last
<1>3. /\ e \in Entry /\ e.owner = Nobody /\ e.lastAccessor = last
      /\ e.rcr[a] = NoMotion
      /\ \A b \in Accessors : b # a => e.rcr[b] = entries[i].rcr[b]
  BY <1>1, <1>2 DEF Entry
<1>4. entries' = [entries EXCEPT ![i] = e]
  BY <1>1 DEF LetGo, last
<1> HIDE DEF e
<1>5. /\ entries' \in [IDs -> Entry] /\ entries'[i] = e
      /\ \A j \in IDs : j # i => entries'[j] = entries[j]
  BY <1>3, <1>4, EntryStep
<1>6. /\ cmdlist' \in Pool(IDs) /\ Sound(cmdlist')
      /\ UsedSlots(cmdlist') = IF LastOne(a, i) THEN UsedSlots(cmdlist) \ {i} ELSE UsedSlots(cmdlist)
  <2>1. CASE LastOne(a, i) /\ Active(i)
    <3>1. cmdlist' = Erase(cmdlist, i) /\ i \in UsedSlots(cmdlist)
      BY <2>1 DEF LetGo, Active
    <3> QED
      BY <1>1, <2>1, <3>1, EraseFacts
  <2>2. CASE ~(LastOne(a, i) /\ Active(i))
    <3>1. cmdlist' = cmdlist /\ ~(LastOne(a, i) /\ i \in UsedSlots(cmdlist))
      BY <2>2 DEF LetGo, Active
    <3>2. i \notin UsedSlots(cmdlist) => UsedSlots(cmdlist) \ {i} = UsedSlots(cmdlist)
      OBVIOUS
    <3> QED
      BY <1>1, <3>1, <3>2
  <2> QED
    BY <2>1, <2>2
<1>7. Sound(cmdlist)' /\ UsedSlots(cmdlist)' = UsedSlots(cmdlist')
  BY <1>6 DEF Sound, Injective, UsedSlots
<1> QED
  BY <1>3, <1>5, <1>6, <1>7 DEF last

LEMMA DropStep ==
  ASSUME IInv, drop
  PROVE  IInv'
<1> DEFINE i == motion.id
           n == entries[i].rcr["Motion"]
<1>1. /\ motion.at = "drop" /\ Unlocked(i) /\ i \in IDs
      /\ mc' = [mc EXCEPT ![n] = [id |-> invalid_MC_ID, started |-> FALSE]]
      /\ MMlock' = Nobody /\ motion' = Idle
      /\ UNCHANGED <<inbox, unsent, main, mc_id, adds, overtaken>>
  BY DEF drop, DoStop, MotionDone, IInv, WorkInv
<1>2. LetGo("Motion", i)
  BY DEF drop
<1>3. /\ motion'.at = "idle"
      /\ motion' \in Process({"idle", "start", "drop", "cycle", "update", "prune"})
  BY <1>1 DEF Idle, Process
<1>4. WorkInv'
  BY <1>1, <1>3 DEF IInv, WorkInv, Nobody, Idle
<1>5. mc' \in [Motions -> MC] /\ \A k \in Motions : k # n => mc'[k] = mc[k]
  <2>1. mc \in [Motions -> MC] /\ [id |-> invalid_MC_ID, started |-> FALSE] \in MC
    BY Typed DEF IInv, MC
  <2> HIDE DEF n
  <2> QED
    BY <1>1, <2>1
<1> HIDE DEF i
<1>6. /\ entries' \in [IDs -> Entry] /\ cmdlist' \in Pool(IDs) /\ Sound(cmdlist)'
      /\ \A j \in IDs : j # i => entries'[j] = entries[j]
      /\ entries'[i].lastAccessor = Nobody
      /\ entries'[i].rcr["Motion"] = NoMotion
      /\ entries'[i].rcr["Main"] = entries[i].rcr["Main"]
      /\ \A j \in IDs : j # i => (j \in UsedSlots(cmdlist)' <=> Active(j))
      /\ i \in UsedSlots(cmdlist)' => Active(i) /\ Has("Main", i)
  <2>1. "Main" \in Accessors /\ "Motion" \in Accessors /\ "Main" # "Motion"
    BY DEF Accessors
  <2>2. TypeOK /\ Sound(cmdlist)
    BY DEF IInv
  <2>3. /\ entries' \in [IDs -> Entry] /\ cmdlist' \in Pool(IDs) /\ Sound(cmdlist)'
        /\ \A j \in IDs : j # i => entries'[j] = entries[j]
        /\ entries'[i].lastAccessor = Nobody
        /\ entries'[i].rcr["Motion"] = NoMotion
        /\ \A b \in Accessors : b # "Motion" => entries'[i].rcr[b] = entries[i].rcr[b]
        /\ UsedSlots(cmdlist)' = IF LastOne("Motion", i) THEN UsedSlots(cmdlist) \ {i} ELSE UsedSlots(cmdlist)
    BY <1>1, <1>2, <2>1, <2>2, LetGoFacts
  <2>4. LastOne("Motion", i) <=> ~Has("Main", i)
    BY DEF LastOne, Accessors
  <2> QED
    BY <2>1, <2>3, <2>4 DEF Active
<1>7. TypeOK'
  BY <1>1, <1>3, <1>5, <1>6 DEF IInv, TypeOK, Process, Entry, Message, MC, Pool
<1>8. ASSUME ~overtaken PROVE Linked'
  <2>1. IdInv /\ EntryInv /\ MsgInv /\ Doing /\ WorkInv
    BY <1>8 DEF IInv, Linked
  <2>2. Dead(i) /\ Has("Motion", i)
    BY <1>1, <2>1 DEF Doing, i
  <2>3. n \in Motions
    BY <1>1, <2>2, Typed DEF IInv
  <2>4. mc[n].id = i /\ \A k \in Motions : mc[k].id = i => k = n
    BY <1>1, <2>1, <2>3 DEF IdInv
  <2>5. mc'[n].id = invalid_MC_ID /\ n \in Motions
    <3>1. mc \in [Motions -> MC]
      BY Typed DEF IInv
    <3> HIDE DEF n
    <3> QED
      BY <1>1, <2>3, <3>1
  <2>6. "Main" \in Accessors /\ "Motion" \in Accessors /\ invalid_MC_ID \notin IDs
    BY NoID DEF Accessors
  <2> HIDE DEF n
  <2>7. /\ \A j \in IDs : j # i => entries'[j].rcr = entries[j].rcr
        /\ \A j \in IDs : entries'[j].lastAccessor = Nobody <=> Dead(j)
    BY <1>6, <2>2 DEF Dead
  <2>8. \A k \in Motions, j \in IDs : mc'[k].id = j <=> (mc[k].id = j /\ j # i)
    BY <1>5, <2>4, <2>5, <2>6
  <2>9. IdInv'
    <3> SUFFICES ASSUME NEW k \in Motions, NEW j \in IDs
                 PROVE  /\ entries'[j].rcr["Motion"] = k => mc'[k].id = j
                        /\ mc'[k].id = j =>
                             /\ \A l \in Motions : mc'[l].id = j => l = k
                             /\ entries'[j].rcr["Motion"] = k \/ In(Coming("Motion"), AddMessage(k))
                             /\ entries'[j].lastAccessor = Nobody =>
                                  /\ In(Coming("Motion"), DeleteMessage(k, j))
                                  /\ In(Coming("Main"), AddMessage(k)) => In(Coming("Main"), DeleteMessage(k, j))
      BY <1>1 DEF IdInv, Dead, Coming
    <3>1. CASE j = i
      <4>1. entries'[j].rcr["Motion"] # k
        BY <1>6, <3>1, Parameters
      <4> QED
        BY <2>8, <3>1, <4>1
    <3>2. CASE j # i
      <4>1. ~AtDrop(j)
        BY <3>2 DEF AtDrop, i
      <4> QED
        BY <2>1, <2>6, <2>7, <2>8, <3>2, <4>1 DEF IdInv
    <3> QED
      BY <3>1, <3>2
  <2>10. EntryInv'
    <3> SUFFICES ASSUME NEW j \in IDs
                 PROVE  /\ j \notin UsedSlots(cmdlist)' => Dead(j)
                        /\ ~Dead(j) => \E k \in Motions : entries'[j].rcr["Main"] = k /\ mc'[k].id = j
                        /\ ~Dead(j) /\ entries'[j].rcr["Motion"] # NoMotion => mc'[entries'[j].rcr["Motion"]].started
                        /\ j \in UsedSlots(cmdlist)' /\ Dead(j) /\ entries'[j].rcr["Main"] # NoMotion =>
                             \E k \in Motions : In(Coming("Main"), DeleteMessage(k, j))
                        /\ j \in UsedSlots(cmdlist)' /\ Dead(j) /\ ~ entries'[j].rcr["Main"] # NoMotion =>
                             \E k \in Motions : mc'[k].id = j
      BY <1>1, <2>7 DEF EntryInv, Dead, Has, Active, Coming
    <3>1. CASE j = i
      <4>1. Active(i) /\ Has("Main", i) => \E k \in Motions : In(Coming("Main"), DeleteMessage(k, i))
        BY <1>1, <2>1, <2>2 DEF EntryInv
      <4>2. entries'[i].rcr["Main"] # NoMotion <=> Has("Main", i)
        BY <1>6 DEF Has
      <4> QED
        BY <1>6, <2>2, <3>1, <4>1, <4>2
    <3>2. CASE j # i
      <4>1. entries'[j].rcr = entries[j].rcr /\ (j \in UsedSlots(cmdlist)' <=> Active(j))
        BY <1>6, <2>7, <3>2
      <4>2. ~Dead(j) /\ Has("Motion", j) => mc'[entries[j].rcr["Motion"]].started
        <5> SUFFICES ASSUME ~Dead(j), Has("Motion", j) PROVE mc'[entries[j].rcr["Motion"]].started
          OBVIOUS
        <5> DEFINE k == entries[j].rcr["Motion"]
        <5>1. k \in Motions
          BY Typed DEF IInv
        <5>2. mc[k].id = j /\ k # n
          BY <2>1, <2>4, <3>2, <5>1 DEF IdInv
        <5>3. mc[k].started
          BY <1>1, <2>1 DEF EntryInv
        <5> HIDE DEF k
        <5>4. mc'[k].started
          BY <1>5, <5>1, <5>2, <5>3
        <5> QED
          BY <5>4 DEF k
      <4>3. /\ ~Active(j) => Dead(j)
            /\ ~Dead(j) => \E k \in Motions : entries[j].rcr["Main"] = k /\ mc[k].id = j
            /\ Active(j) /\ Dead(j) /\ Has("Main", j) => \E k \in Motions : In(Coming("Main"), DeleteMessage(k, j))
            /\ Active(j) /\ Dead(j) /\ ~Has("Main", j) => \E k \in Motions : mc[k].id = j
        BY <2>1 DEF EntryInv
      <4> QED
        BY <2>8, <3>2, <4>1, <4>2, <4>3 DEF Has
    <3> QED
      BY <3>1, <3>2
  <2>11. MsgInv'
    BY <1>1, <2>1, <2>7 DEF MsgInv, Dead, Coming
  <2>12. main.at = "holding" => main.id # i /\ main.id \in IDs
    BY <1>1, <2>1 DEF Doing, Unlocked, Nobody, WorkInv, i
  <2>13. main'.at = "holding" => entries'[main'.id].owner = "Main" /\ entries'[main'.id].lastAccessor # Nobody
    BY <1>1, <1>6, <2>1, <2>12 DEF Doing, Dead
  <2>14. Doing'
    BY <1>3, <2>13 DEF Doing, Dead
  <2> QED
    BY <2>9, <2>10, <2>11, <2>14 DEF Linked
<1> QED
  BY <1>1, <1>4, <1>6, <1>7, <1>8 DEF IInv

-------------------------------------------------------------------------------
(* Processing a message                                                    *)

LEMMA HeardFacts ==
  ASSUME TypeOK, unsent = << >>, unsent' = << >>, NEW a \in Accessors, inbox[a] # << >>, Heard(a)
  PROVE  /\ inbox' \in [Accessors -> Seq(Message)]
         /\ \A b \in Accessors : b # a => inbox'[b] = inbox[b] /\ Coming(b)' = Coming(b)
         /\ Head(inbox[a]) \in Message
         /\ \A x : In(Coming(a), x) <=> (In(Coming(a)', x) \/ x = Head(inbox[a]))
         /\ Ordered(Coming(a)) =>
              /\ Ordered(Coming(a)')
              /\ \A m \in Motions, i \in IDs : Head(inbox[a]) = DeleteMessage(m, i) => ~In(Coming(a)', AddMessage(m))
<1> DEFINE q == inbox[a]
<1>1. inbox \in [Accessors -> Seq(Message)] /\ q \in Seq(Message)
  BY Typed
<1>2. inbox' = [inbox EXCEPT ![a] = Tail(q)]
  BY DEF Heard
<1>3. q # << >>
  OBVIOUS
<1> HIDE DEF q
<1>4. /\ Head(q) \in Message /\ Tail(q) \in Seq(Message)
      /\ \A x : In(q, x) <=> (In(Tail(q), x) \/ x = Head(q))
      /\ Ordered(q) => /\ Ordered(Tail(q))
                       /\ \A m \in Motions : Head(q).type = "delete" /\ Head(q).mc = m => ~In(Tail(q), AddMessage(m))
  BY <1>1, <1>3, Taken
<1>5. inbox' \in [Accessors -> Seq(Message)] /\ inbox'[a] = Tail(q) /\ \A b \in Accessors : b # a => inbox'[b] = inbox[b]
  BY <1>1, <1>2, <1>4
<1>6. \A m \in Motions, i \in IDs : Head(q) = DeleteMessage(m, i) => Head(q).type = "delete" /\ Head(q).mc = m
  BY Kinds
<1>7. \A b \in Accessors : Coming(b) = inbox[b] /\ Coming(b)' = inbox'[b]
  <2> TAKE b \in Accessors
  <2>1. inbox[b] \in Seq(Message) /\ inbox'[b] \in Seq(Message)
    BY <1>1, <1>5
  <2>2. Coming(b) = inbox[b] \o << >> /\ Coming(b)' = inbox'[b] \o << >>
    BY DEF Coming
  <2> QED
    BY <2>1, <2>2, ConcatEmptySeq
<1>8. Coming(a) = q /\ Coming(a)' = Tail(q) /\ \A b \in Accessors : b # a => Coming(b)' = Coming(b)
  BY <1>5, <1>7 DEF q
<1>9. Ordered(q) => \A m \in Motions, i \in IDs : Head(q) = DeleteMessage(m, i) => ~In(Tail(q), AddMessage(m))
  BY <1>4, <1>6
<1> QED
  BY <1>4, <1>5, <1>8, <1>9 DEF q

LEMMA MainMsgStep ==
  ASSUME IInv, MainMsg
  PROVE  IInv'
<1> DEFINE x == Head(inbox["Main"])
<1>1. /\ main.at = "message" /\ MMlock = Nobody /\ inbox["Main"] # << >>
      /\ main' = Idle /\ Heard("Main") /\ unsent = << >>
      /\ UNCHANGED <<MMlock, motion, mc, unsent, adds, overtaken>>
  BY DEF MainMsg, IInv, WorkInv
<1>2. motion.at = "idle"
  BY <1>1 DEF IInv, WorkInv, Nobody
<1>3. main'.at = "idle" /\ main' \in Process({"idle", "waiting", "holding", "message"})
  BY <1>1 DEF Idle, Process
<1>4. WorkInv'
  BY <1>1, <1>2, <1>3 DEF IInv, WorkInv
<1>5. Doing'
  BY <1>1, <1>2, <1>3 DEF Doing
<1>6. "Main" \in Accessors /\ "Motion" \in Accessors /\ "Main" # "Motion" /\ TypeOK
  BY DEF Accessors, IInv
<1>7. /\ inbox' \in [Accessors -> Seq(Message)]
      /\ inbox'["Motion"] = inbox["Motion"] /\ Coming("Motion")' = Coming("Motion")
      /\ x \in Message
      /\ \A y : In(Coming("Main"), y) <=> (In(Coming("Main")', y) \/ y = x)
      /\ Ordered(Coming("Main")) =>
              /\ Ordered(Coming("Main")')
              /\ \A m \in Motions, i \in IDs : x = DeleteMessage(m, i) => ~In(Coming("Main")', AddMessage(m))
  <2>1. /\ inbox' \in [Accessors -> Seq(Message)]
        /\ \A b \in Accessors : b # "Main" => inbox'[b] = inbox[b] /\ Coming(b)' = Coming(b)
        /\ Head(inbox["Main"]) \in Message
        /\ \A y : In(Coming("Main"), y) <=> (In(Coming("Main")', y) \/ y = Head(inbox["Main"]))
        /\ Ordered(Coming("Main")) =>
              /\ Ordered(Coming("Main")')
              /\ \A m \in Motions, i \in IDs : Head(inbox["Main"]) = DeleteMessage(m, i) => ~In(Coming("Main")', AddMessage(m))
    BY <1>1, <1>6, HeardFacts, Zenon
  <2> QED
    BY <1>6, <2>1
\* What is left of Main's messages says the same of every command but the one of x.
<1>8. ASSUME ~overtaken, \A i \in IDs : entries'[i].lastAccessor = Nobody <=> Dead(i),
             \A i \in IDs : entries'[i].rcr["Motion"] = entries[i].rcr["Motion"]
      PROVE  IdInv' /\ MsgInv'
  <2>1. IdInv /\ MsgInv
    BY <1>1, <1>8 DEF IInv, Linked
  <2>2. \A m \in Motions, i \in IDs :
          In(Coming("Main"), AddMessage(m)) => In(Coming("Main"), DeleteMessage(m, i)) \/ ~Dead(i) \/ mc[m].id # i
    BY <2>1 DEF IdInv
  <2>3. \A m \in Motions, i \in IDs :
          In(Coming("Main")', AddMessage(m)) => In(Coming("Main")', DeleteMessage(m, i)) \/ ~Dead(i) \/ mc[m].id # i
    BY <1>6, <1>7, <2>1, <2>2 DEF MsgInv
  <2>4. IdInv'
    <3> SUFFICES ASSUME NEW m \in Motions, NEW i \in IDs
                 PROVE  /\ entries[i].rcr["Motion"] = m => mc[m].id = i
                        /\ mc[m].id = i =>
                             /\ \A n \in Motions : mc[n].id = i => n = m
                             /\ entries[i].rcr["Motion"] = m \/ In(Coming("Motion"), AddMessage(m))
                             /\ Dead(i) => /\ In(Coming("Motion"), DeleteMessage(m, i))
                                           /\ In(Coming("Main")', AddMessage(m)) => In(Coming("Main")', DeleteMessage(m, i))
      BY <1>1, <1>7, <1>8 DEF IdInv, Dead
    <3>1. ~AtDrop(i)
      BY <1>2 DEF AtDrop
    <3> QED
      BY <2>1, <2>3, <3>1 DEF IdInv
  <2>5. MsgInv'
    <3>1. \A a \in Accessors : a = "Main" \/ a = "Motion"
      BY DEF Accessors
    <3> QED
      BY <1>6, <1>7, <1>8, <2>1, <3>1 DEF MsgInv, Dead
  <2> QED
    BY <2>4, <2>5
<1>9. CASE UNCHANGED <<cmdlist, entries, mc_id>> /\ (x.type = "add" \/ ~Has("Main", x.id))
  <2>0. TypeOK'
    BY <1>1, <1>3, <1>7, <1>9 DEF IInv, TypeOK, Process, Message
  <2>1. TypeOK' /\ Sound(cmdlist)'
    BY <1>1, <1>9, <2>0 DEF IInv, Sound, Injective
  <2>2. ASSUME ~overtaken PROVE EntryInv'
    <3>1. EntryInv
      BY <2>2 DEF IInv, Linked
    <3>2. \A m \in Motions, i \in IDs : In(Coming("Main"), DeleteMessage(m, i)) /\ Has("Main", i) => In(Coming("Main")', DeleteMessage(m, i))
      BY <1>7, <1>9, Kinds
    <3> QED
      BY <1>1, <1>9, <3>1, <3>2 DEF EntryInv, Dead, Has, Active
  <2> QED
    BY <1>1, <1>4, <1>5, <1>8, <1>9, <2>1, <2>2 DEF IInv, Linked, Dead
<1>10. CASE x.type = "add"
  <2> DEFINE m == x.mc
             i == mc[m].id
             e == [entries[i] EXCEPT !.rcr = [@ EXCEPT !["Main"] = m]]
  <2>1. Receive("Main", m) /\ UNCHANGED <<cmdlist, mc_id>> /\ m \in Motions /\ x = AddMessage(m)
    BY <1>7, <1>10, Kinds DEF MainMsg
  <2>2. i \in IDs \cup {invalid_MC_ID}
    BY <2>1, Typed DEF IInv
  <2>3. CASE i = invalid_MC_ID \/ Has("Main", i)
    BY <1>9, <1>10, <2>1, <2>3 DEF Receive
  <2>4. CASE i \in IDs /\ ~Has("Main", i)
    <3>1. entries[i] \in Entry
      BY <2>4, Typed DEF IInv
    <3>2. entries' = [entries EXCEPT ![i] = e]
      BY <2>1, <2>4, <3>1, NoID DEF Receive
    <3>3. /\ e \in Entry /\ e.lastAccessor = entries[i].lastAccessor
          /\ e.rcr["Main"] = m /\ e.rcr["Motion"] = entries[i].rcr["Motion"]
      BY <2>1, <3>1 DEF Entry, Accessors
    <3>4. i \in IDs
      BY <2>4
    <3> HIDE DEF e, i
    <3>5. /\ entries' \in [IDs -> Entry] /\ entries'[i] = e
          /\ \A j \in IDs : j # i => entries'[j] = entries[j]
      BY <1>6, <3>2, <3>3, <3>4, EntryStep
    <3>6. /\ \A j \in IDs : entries'[j].lastAccessor = Nobody <=> Dead(j)
          /\ \A j \in IDs : entries'[j].rcr["Motion"] = entries[j].rcr["Motion"]
          /\ \A j \in IDs : j # i => entries'[j].rcr["Main"] = entries[j].rcr["Main"]
          /\ entries'[i].rcr["Main"] = m
      BY <3>3, <3>5 DEF Dead
    <3>7. TypeOK' /\ Sound(cmdlist)'
      BY <1>1, <1>3, <1>7, <2>1, <3>5 DEF IInv, TypeOK, Process, Sound, Injective, Message, Entry
    <3>8. ASSUME ~overtaken PROVE EntryInv'
      <4>1. EntryInv /\ IdInv
        BY <3>8 DEF IInv, Linked
      <4>2. Dead(i)
        BY <2>1, <2>4, <3>4, <4>1, Typed DEF EntryInv, Has, IInv
      <4>3. In(Coming("Main"), AddMessage(m)) /\ mc[m].id = i
        BY <1>7, <2>1 DEF i
      <4>4. In(Coming("Main"), DeleteMessage(m, i))
        BY <2>1, <3>4, <4>1, <4>2, <4>3 DEF IdInv
      <4>5. \A k, j : In(Coming("Main")', DeleteMessage(k, j)) <=> In(Coming("Main"), DeleteMessage(k, j))
        BY <1>7, <2>1, Kinds
      <4> HIDE DEF x, m
      <4>6. EntryInv'
        <5> SUFFICES ASSUME NEW j \in IDs
                     PROVE  /\ ~Active(j) => Dead(j)
                            /\ ~Dead(j) => \E k \in Motions : entries'[j].rcr["Main"] = k /\ mc[k].id = j
                            /\ ~Dead(j) /\ entries'[j].rcr["Motion"] # NoMotion => mc[entries'[j].rcr["Motion"]].started
                            /\ Active(j) /\ Dead(j) /\ entries'[j].rcr["Main"] # NoMotion =>
                                 \E k \in Motions : In(Coming("Main")', DeleteMessage(k, j))
                            /\ Active(j) /\ Dead(j) /\ ~ entries'[j].rcr["Main"] # NoMotion =>
                                 \E k \in Motions : mc[k].id = j
          BY <1>1, <2>1, <3>6 DEF EntryInv, Dead, Has, Active
        <5>1. CASE j = i
          BY <2>1, <3>6, <4>1, <4>2, <4>4, <4>5, <5>1, Parameters
        <5>2. CASE j # i
          BY <1>2, <3>6, <4>1, <4>5, <5>2 DEF EntryInv, Has
        <5> QED
          BY <5>1, <5>2
      <4> QED
        BY <4>6
    <3> QED
      BY <1>1, <1>4, <1>5, <1>8, <3>6, <3>7, <3>8 DEF IInv, Linked
  <2> QED
    BY <2>2, <2>3, <2>4
<1>11. CASE x.type = "delete" /\ ~Has("Main", x.id)
  <2>1. UNCHANGED <<cmdlist, entries, mc_id>>
    BY <1>11 DEF MainMsg
  <2> QED
    BY <1>9, <1>11, <2>1
<1>12. CASE x.type = "delete" /\ Has("Main", x.id)
  <2> DEFINE i == x.id
  <2>1. LetGo("Main", i) /\ Deactivated(i) /\ i \in IDs /\ x.mc \in Motions /\ x = DeleteMessage(x.mc, i)
    BY <1>7, <1>12, Kinds DEF MainMsg
  <2> HIDE DEF i
  <2>2. /\ entries' \in [IDs -> Entry] /\ cmdlist' \in Pool(IDs) /\ Sound(cmdlist)'
        /\ \A j \in IDs : j # i => entries'[j] = entries[j]
        /\ entries'[i].lastAccessor = entries[i].lastAccessor
        /\ entries'[i].rcr["Main"] = NoMotion
        /\ entries'[i].rcr["Motion"] = entries[i].rcr["Motion"]
        /\ \A j \in IDs : j # i => (j \in UsedSlots(cmdlist)' <=> Active(j))
        /\ i \in UsedSlots(cmdlist)' => Active(i) /\ Has("Motion", i)
    <3>1. Sound(cmdlist)
      BY DEF IInv
    <3>2. /\ entries' \in [IDs -> Entry] /\ cmdlist' \in Pool(IDs) /\ Sound(cmdlist)'
          /\ \A j \in IDs : j # i => entries'[j] = entries[j]
          /\ entries'[i].lastAccessor = IF "Main" = "Motion" THEN Nobody ELSE entries[i].lastAccessor
          /\ entries'[i].rcr["Main"] = NoMotion
          /\ \A b \in Accessors : b # "Main" => entries'[i].rcr[b] = entries[i].rcr[b]
          /\ UsedSlots(cmdlist)' = IF LastOne("Main", i) THEN UsedSlots(cmdlist) \ {i} ELSE UsedSlots(cmdlist)
      BY <1>6, <2>1, <3>1, LetGoFacts
    <3>3. LastOne("Main", i) <=> ~Has("Motion", i)
      BY DEF LastOne, Accessors
    <3> QED
      BY <1>6, <3>2, <3>3 DEF Active
  <2>3. mc_id' \in [Motions -> IDs \cup {invalid_MC_ID}]
    BY <2>1 DEF Deactivated, IInv, TypeOK
  <2>4. TypeOK'
    BY <1>1, <1>3, <1>7, <2>2, <2>3 DEF IInv, TypeOK, Process, Entry, Message, Pool
  <2>5. /\ \A j \in IDs : entries'[j].lastAccessor = Nobody <=> Dead(j)
        /\ \A j \in IDs : entries'[j].rcr["Motion"] = entries[j].rcr["Motion"]
        /\ \A j \in IDs : j # i => entries'[j].rcr["Main"] = entries[j].rcr["Main"]
    BY <2>2 DEF Dead
  <2>6. ASSUME ~overtaken PROVE EntryInv'
    <3>1. EntryInv /\ IdInv /\ MsgInv
      BY <2>6 DEF IInv, Linked
    <3>2. In(Coming("Main"), DeleteMessage(x.mc, i))
      BY <1>7, <2>1
    <3>3. Dead(i)
      BY <1>6, <2>1, <3>1, <3>2 DEF MsgInv
    <3>4. \A k, j : j # i => (In(Coming("Main")', DeleteMessage(k, j)) <=> In(Coming("Main"), DeleteMessage(k, j)))
      BY <1>7, <2>1, Kinds
    <3>5. Has("Motion", i) => \E k \in Motions : mc[k].id = i
      BY <2>1, <3>1, Typed DEF IInv, IdInv
    <3>6. EntryInv'
      <4> SUFFICES ASSUME NEW j \in IDs
                   PROVE  /\ j \notin UsedSlots(cmdlist)' => Dead(j)
                          /\ ~Dead(j) => \E k \in Motions : entries'[j].rcr["Main"] = k /\ mc[k].id = j
                          /\ ~Dead(j) /\ entries'[j].rcr["Motion"] # NoMotion => mc[entries'[j].rcr["Motion"]].started
                          /\ j \in UsedSlots(cmdlist)' /\ Dead(j) /\ entries'[j].rcr["Main"] # NoMotion =>
                               \E k \in Motions : In(Coming("Main")', DeleteMessage(k, j))
                          /\ j \in UsedSlots(cmdlist)' /\ Dead(j) /\ ~ entries'[j].rcr["Main"] # NoMotion =>
                               \E k \in Motions : mc[k].id = j
        BY <1>1, <2>5 DEF EntryInv, Dead, Has, Active
      <4>1. CASE j = i
        BY <2>2, <3>3, <3>5, <4>1
      <4>2. CASE j # i
        BY <1>2, <2>2, <2>5, <3>1, <3>4, <4>2 DEF EntryInv, Has
      <4> QED
        BY <4>1, <4>2
    <3> QED
      BY <3>6
  <2> QED
    BY <1>1, <1>4, <1>5, <1>8, <2>2, <2>4, <2>5, <2>6 DEF IInv, Linked
<1> QED
  <2>1. x.type \in {"add", "delete"}
    BY <1>7, Kinds
  <2> QED
    BY <1>10, <1>11, <1>12, <2>1

LEMMA MotionMsgStep ==
  ASSUME IInv, MotionMsg
  PROVE  IInv'
<1> DEFINE x == Head(inbox["Motion"])
<1>1. /\ motion = Idle /\ MMlock = Nobody /\ inbox["Motion"] # << >> /\ Heard("Motion")
      /\ UNCHANGED <<cmdlist, mc, unsent, main, mc_id, adds, overtaken>>
      /\ unsent = << >>
  BY DEF MotionMsg, IInv, WorkInv, Nobody
<1>2. motion.at = "idle"
  BY <1>1 DEF Idle
<1>3. "Main" \in Accessors /\ "Motion" \in Accessors /\ "Main" # "Motion" /\ TypeOK
  BY DEF Accessors, IInv
<1>4. /\ inbox' \in [Accessors -> Seq(Message)]
      /\ inbox'["Main"] = inbox["Main"] /\ Coming("Main")' = Coming("Main")
      /\ x \in Message
      /\ \A y : In(Coming("Motion"), y) <=> (In(Coming("Motion")', y) \/ y = x)
      /\ Ordered(Coming("Motion")) =>
              /\ Ordered(Coming("Motion")')
              /\ \A m \in Motions, i \in IDs : x = DeleteMessage(m, i) => ~In(Coming("Motion")', AddMessage(m))
  <2>1. /\ inbox' \in [Accessors -> Seq(Message)]
        /\ \A b \in Accessors : b # "Motion" => inbox'[b] = inbox[b] /\ Coming(b)' = Coming(b)
        /\ Head(inbox["Motion"]) \in Message
        /\ \A y : In(Coming("Motion"), y) <=> (In(Coming("Motion")', y) \/ y = Head(inbox["Motion"]))
        /\ Ordered(Coming("Motion")) =>
              /\ Ordered(Coming("Motion")')
              /\ \A m \in Motions, i \in IDs : Head(inbox["Motion"]) = DeleteMessage(m, i) => ~In(Coming("Motion")', AddMessage(m))
    BY <1>1, <1>3, HeardFacts, Zenon
  <2> QED
    BY <1>3, <2>1
<1>5. ASSUME ~overtaken, \A i \in IDs : entries'[i].lastAccessor = Nobody <=> Dead(i)
      PROVE  MsgInv'
  <2>1. MsgInv
    BY <1>5 DEF IInv, Linked
  <2>2. \A a \in Accessors : a = "Main" \/ a = "Motion"
    BY DEF Accessors
  <2> QED
    BY <1>3, <1>4, <1>5, <2>1, <2>2 DEF MsgInv, Dead
<1>6. CASE x.type = "add"
  <2> DEFINE m == x.mc
             i == mc[m].id
             e == [entries[i] EXCEPT !.rcr = [@ EXCEPT !["Motion"] = m]]
  <2>1. /\ Receive("Motion", m) /\ m \in Motions /\ x = AddMessage(m)
        /\ IF i = invalid_MC_ID \/ Dead(i) THEN MotionDone ELSE MotionAt("start", i)
    BY <1>4, <1>6, Kinds DEF MotionMsg
  <2>2. i \in IDs \cup {invalid_MC_ID}
    BY <2>1, Typed DEF IInv
  <2>3. \A k, j : In(Coming("Motion")', DeleteMessage(k, j)) <=> In(Coming("Motion"), DeleteMessage(k, j))
    BY <1>4, <2>1, Kinds
  <2>4. \A k : k # m => (In(Coming("Motion")', AddMessage(k)) <=> In(Coming("Motion"), AddMessage(k)))
    BY <1>4, <2>1, Kinds
  <2>5. CASE i = invalid_MC_ID
    <3>1. entries' = entries /\ MMlock' = Nobody /\ motion' = Idle
      BY <2>1, <2>5 DEF Receive, MotionDone
    <3>2. TypeOK' /\ Sound(cmdlist)' /\ WorkInv'
      BY <1>1, <1>2, <1>4, <3>1 DEF IInv, TypeOK, Sound, Injective, Message, WorkInv, Has
    <3>3. ASSUME ~overtaken PROVE Doing' /\ IdInv' /\ EntryInv'
      <4>1. Doing /\ IdInv /\ EntryInv
        BY <3>3 DEF IInv, Linked
      <4>2. Doing'
        BY <1>1, <1>2, <3>1, <4>1 DEF Doing, Dead, Has
      <4>3. \A k \in Motions : mc[k].id \in IDs => k # m
        BY <2>5, NoID
      <4> HIDE DEF m, i, x
      <4>4. IdInv'
        <5> SUFFICES ASSUME NEW k \in Motions, NEW j \in IDs
                     PROVE  /\ entries[j].rcr["Motion"] = k => mc[k].id = j
                            /\ mc[k].id = j =>
                                 /\ \A n \in Motions : mc[n].id = j => n = k
                                 /\ entries[j].rcr["Motion"] = k \/ In(Coming("Motion")', AddMessage(k))
                                 /\ Dead(j) => /\ In(Coming("Motion")', DeleteMessage(k, j))
                                               /\ In(Coming("Main"), AddMessage(k)) => In(Coming("Main"), DeleteMessage(k, j))
          BY <1>1, <1>4, <3>1 DEF IdInv, Dead
        <5>1. ~AtDrop(j)
          BY <1>2 DEF AtDrop
        <5> QED
          BY <2>3, <2>4, <4>1, <4>3, <5>1 DEF IdInv
      <4>5. EntryInv'
        BY <1>1, <1>2, <1>4, <3>1, <4>1 DEF EntryInv, Dead, Has, Active
      <4> QED
        BY <4>2, <4>4, <4>5
    <3> QED
      BY <1>1, <1>5, <3>1, <3>2, <3>3 DEF IInv, Linked, Dead
  <2>6. CASE i \in IDs
    \* The command may have been received already.
    <3>1. /\ entries' \in [IDs -> Entry]
          /\ \A j \in IDs : j # i => entries'[j] = entries[j]
          /\ entries'[i].lastAccessor = entries[i].lastAccessor /\ entries'[i].owner = entries[i].owner
          /\ entries'[i].rcr["Main"] = entries[i].rcr["Main"]
          /\ entries'[i].rcr["Motion"] # NoMotion
          /\ ~Has("Motion", i) => entries'[i].rcr["Motion"] = m
          /\ Has("Motion", i) => entries'[i].rcr["Motion"] = entries[i].rcr["Motion"]
      <4>1. CASE Has("Motion", i)
        <5>1. entries' = entries
          BY <2>1, <4>1 DEF Receive
        <5>2. entries \in [IDs -> Entry]
          BY Typed DEF IInv
        <5> HIDE DEF i
        <5> QED
          BY <4>1, <5>1, <5>2 DEF Has
      <4>2. CASE ~Has("Motion", i)
        <5>1. entries[i] \in Entry
          BY <2>6, Typed DEF IInv
        <5>2. entries' = [entries EXCEPT ![i] = e]
          BY <2>1, <2>6, <4>2, <5>1, NoID DEF Receive
        <5>3. /\ e \in Entry /\ e.lastAccessor = entries[i].lastAccessor /\ e.owner = entries[i].owner
              /\ e.rcr["Motion"] = m /\ e.rcr["Main"] = entries[i].rcr["Main"]
          BY <2>1, <5>1 DEF Entry, Accessors
        <5> HIDE DEF e, i
        <5>4. /\ entries' \in [IDs -> Entry] /\ entries'[i] = e
              /\ \A j \in IDs : j # i => entries'[j] = entries[j]
          BY <1>3, <2>6, <5>2, <5>3, EntryStep
        <5> QED
          BY <2>1, <4>2, <5>3, <5>4, Parameters
      <4> QED
        BY <4>1, <4>2
    <3>2. /\ \A j \in IDs : entries'[j].lastAccessor = Nobody <=> Dead(j)
          /\ \A j \in IDs : entries'[j].owner = entries[j].owner
          /\ \A j \in IDs : entries'[j].rcr["Main"] = entries[j].rcr["Main"]
          /\ \A j \in IDs : j # i => entries'[j].rcr["Motion"] = entries[j].rcr["Motion"]
      BY <3>1 DEF Dead
    <3>3. /\ Dead(i) => MMlock' = Nobody /\ motion' = Idle
          /\ ~Dead(i) => MMlock' = "Motion" /\ motion' = [motion EXCEPT !.at = "start", !.id = i]
      BY <2>1, <2>6, NoID DEF MotionDone, MotionAt
    <3> HIDE DEF e, i
    <3>4. /\ Dead(i) => motion'.at = "idle"
          /\ ~Dead(i) => motion'.at = "start" /\ motion'.id = i
          /\ motion' \in Process({"idle", "start", "drop", "cycle", "update", "prune"})
      <4>1. motion' = [motion EXCEPT !.at = "start", !.id = i] => motion' = [at |-> "start", id |-> i, todo |-> {}]
        BY <1>1 DEF Idle
      <4>2. motion' = [at |-> "start", id |-> i, todo |-> {}] =>
              /\ motion'.at = "start" /\ motion'.id = i
              /\ motion' \in Process({"idle", "start", "drop", "cycle", "update", "prune"})
        BY <2>6 DEF Process
      <4>3. motion' = Idle => /\ motion'.at = "idle"
                              /\ motion' \in Process({"idle", "start", "drop", "cycle", "update", "prune"})
        BY DEF Process, Idle
      <4> QED
        BY <3>3, <4>1, <4>2, <4>3
    <3>5. TypeOK' /\ Sound(cmdlist)' /\ WorkInv'
      <4>1. TypeOK' /\ Sound(cmdlist)'
        BY <1>1, <1>4, <3>1, <3>3, <3>4 DEF IInv, TypeOK, Accessors, Sound, Injective, Message, Process, Entry
      <4>2. WorkInv'
        BY <1>1, <1>4, <2>6, <3>3, <3>4 DEF IInv, WorkInv, Nobody
      <4> QED
        BY <4>1, <4>2
    <3>6. ASSUME ~overtaken PROVE Doing' /\ IdInv' /\ EntryInv'
      <4>1. Doing /\ IdInv /\ EntryInv /\ WorkInv
        BY <3>6 DEF IInv, Linked
      <4>2. mc[m].id = i
        BY DEF i
      <4>3. entries'[i].rcr["Motion"] = m
        BY <2>1, <2>6, <3>1, <4>1, <4>2, Typed DEF IInv, IdInv
      <4>4. main'.at = "holding" => entries'[main'.id].owner = "Main" /\ entries'[main'.id].lastAccessor # Nobody
        BY <1>1, <3>2, <4>1 DEF Doing, Dead, WorkInv
      <4> HIDE DEF m, x
      <4>5. Doing'
        BY <2>6, <3>1, <3>2, <3>4, <4>4 DEF Doing, Dead, Has
      <4>6. IdInv'
        <5> SUFFICES ASSUME NEW k \in Motions, NEW j \in IDs
                     PROVE  /\ entries'[j].rcr["Motion"] = k => mc[k].id = j
                            /\ mc[k].id = j =>
                                 /\ \A n \in Motions : mc[n].id = j => n = k
                                 /\ entries'[j].rcr["Motion"] = k \/ In(Coming("Motion")', AddMessage(k))
                                 /\ Dead(j) => /\ In(Coming("Motion")', DeleteMessage(k, j))
                                               /\ In(Coming("Main"), AddMessage(k)) => In(Coming("Main"), DeleteMessage(k, j))
          BY <1>1, <1>4, <3>2 DEF IdInv, Dead
        <5>1. ~AtDrop(j)
          BY <1>2 DEF AtDrop
        <5>2. CASE j = i
          BY <2>1, <2>3, <4>1, <4>2, <4>3, <5>1, <5>2 DEF IdInv
        <5>3. CASE j # i
          BY <2>3, <2>4, <3>2, <4>1, <4>2, <5>1, <5>3 DEF IdInv
        <5> QED
          BY <5>2, <5>3
      <4>7. EntryInv'
        <5> SUFFICES ASSUME NEW j \in IDs
                     PROVE  /\ ~Active(j) => Dead(j)
                            /\ ~Dead(j) => \E k \in Motions : entries[j].rcr["Main"] = k /\ mc[k].id = j
                            /\ ~Dead(j) /\ entries'[j].rcr["Motion"] # NoMotion =>
                                 mc[entries'[j].rcr["Motion"]].started \/ (motion'.at = "start" /\ motion'.id = j)
                            /\ Active(j) /\ Dead(j) /\ Has("Main", j) => \E k \in Motions : In(Coming("Main"), DeleteMessage(k, j))
                            /\ Active(j) /\ Dead(j) /\ ~Has("Main", j) => \E k \in Motions : mc[k].id = j
          BY <1>1, <1>4, <3>2 DEF EntryInv, Dead, Has, Active
        <5>1. CASE j = i
          BY <3>4, <4>1, <5>1 DEF EntryInv
        <5>2. CASE j # i
          BY <1>2, <3>2, <4>1, <5>2 DEF EntryInv, Has
        <5> QED
          BY <5>1, <5>2
      <4> QED
        BY <4>5, <4>6, <4>7
    <3> QED
      BY <1>1, <1>5, <3>2, <3>5, <3>6 DEF IInv, Linked
  <2> QED
    BY <2>2, <2>5, <2>6
<1>7. CASE x.type = "delete"
  <2> DEFINE n == x.mc
             i == x.id
  <2>1. /\ entries' = entries /\ i \in IDs /\ n \in Motions /\ x = DeleteMessage(n, i)
        /\ IF Has("Motion", i) THEN MotionAt("drop", i) ELSE MotionDone
    BY <1>4, <1>7, Kinds DEF MotionMsg
  <2>2. \A k : In(Coming("Motion")', AddMessage(k)) <=> In(Coming("Motion"), AddMessage(k))
    BY <1>4, <2>1, Kinds
  <2>3. \A k, j : k # n \/ j # i => (In(Coming("Motion")', DeleteMessage(k, j)) <=> In(Coming("Motion"), DeleteMessage(k, j)))
    BY <1>4, <2>1, Kinds
  <2>4. In(Coming("Motion"), DeleteMessage(n, i))
    BY <1>4, <2>1
  <2>5. Ordered(Coming("Motion")) => ~In(Coming("Motion")', AddMessage(n))
    BY <1>4, <2>1
  <2> HIDE DEF x, n, i
  <2>6. /\ Has("Motion", i) => MMlock' = "Motion" /\ motion'.at = "drop" /\ motion'.id = i
        /\ ~Has("Motion", i) => MMlock' = Nobody /\ motion'.at = "idle" /\ motion' = Idle
        /\ motion' \in Process({"idle", "start", "drop", "cycle", "update", "prune"})
    <3>1. Has("Motion", i) => MMlock' = "Motion" /\ motion' = [at |-> "drop", id |-> i, todo |-> {}]
      BY <1>1, <2>1 DEF MotionAt, Idle
    <3>2. ~Has("Motion", i) => MMlock' = Nobody /\ motion' = Idle
      BY <2>1 DEF MotionDone
    <3>3. motion' = [at |-> "drop", id |-> i, todo |-> {}] =>
            /\ motion'.at = "drop" /\ motion'.id = i
            /\ motion' \in Process({"idle", "start", "drop", "cycle", "update", "prune"})
      BY <2>1 DEF Process
    <3>4. motion' = Idle => /\ motion'.at = "idle"
                            /\ motion' \in Process({"idle", "start", "drop", "cycle", "update", "prune"})
      BY DEF Process, Idle
    <3> QED
      BY <3>1, <3>2, <3>3, <3>4
  <2>7. TypeOK' /\ Sound(cmdlist)'
    BY <1>1, <1>4, <2>1, <2>6 DEF IInv, TypeOK, Accessors, Sound, Injective, Message, Process
  <2>8. WorkInv'
    BY <1>1, <1>4, <2>1, <2>6 DEF IInv, WorkInv, Nobody
  <2>9. ASSUME ~overtaken PROVE Doing' /\ IdInv' /\ EntryInv'
    <3>1. Doing /\ IdInv /\ EntryInv /\ MsgInv
      BY <2>9 DEF IInv, Linked
    <3>2. Dead(i)
      BY <1>3, <2>1, <2>4, <3>1 DEF MsgInv
    <3>3. Doing'
      BY <1>1, <2>1, <2>6, <3>1, <3>2 DEF Doing, Dead, Has
    <3>4. ~Has("Motion", i) => mc[n].id # i
      BY <1>3, <2>1, <2>2, <2>5, <3>1, Parameters DEF IdInv, MsgInv, Has
    <3>5. IdInv'
      <4> SUFFICES ASSUME NEW k \in Motions, NEW j \in IDs
                   PROVE  /\ entries[j].rcr["Motion"] = k => mc[k].id = j
                          /\ mc[k].id = j =>
                               /\ \A l \in Motions : mc[l].id = j => l = k
                               /\ entries[j].rcr["Motion"] = k \/ In(Coming("Motion")', AddMessage(k))
                               /\ Dead(j) => /\ In(Coming("Motion")', DeleteMessage(k, j)) \/ (motion'.at = "drop" /\ motion'.id = j)
                                             /\ In(Coming("Main"), AddMessage(k)) => In(Coming("Main"), DeleteMessage(k, j))
        BY <1>1, <1>4, <2>1 DEF IdInv, Dead, AtDrop
      <4>1. ~AtDrop(j)
        BY <1>2 DEF AtDrop
      <4>2. CASE k = n /\ j = i
        BY <2>2, <2>6, <3>1, <3>4, <4>2 DEF IdInv
      <4>3. CASE k # n \/ j # i
        BY <2>2, <2>3, <3>1, <4>1, <4>3 DEF IdInv
      <4> QED
        BY <4>2, <4>3
    <3>6. EntryInv'
      BY <1>1, <1>2, <1>4, <2>1, <3>1 DEF EntryInv, Dead, Has, Active
    <3> QED
      BY <3>3, <3>5, <3>6
  <2> QED
    BY <1>1, <1>5, <2>1, <2>7, <2>8, <2>9 DEF IInv, Linked, Dead
<1> QED
  <2>1. x.type \in {"add", "delete"}
    BY <1>4, Kinds
  <2> QED
    BY <1>6, <1>7, <2>1

-------------------------------------------------------------------------------
(* Adding a command                                                        *)

LEMMA AddStep ==
  ASSUME IInv, NEW m \in Motions, doAddMotion(m)
  PROVE  IInv'
<1> DEFINE i == NextSlot(cmdlist)
           e == [NewEntry EXCEPT !.rcr["Main"] = m, !.lastAccessor = "Main"]
<1>1. /\ main = Idle /\ MMlock # "Motion" /\ adds' = adds + 1
      /\ UNCHANGED <<inbox, motion, main>>
  BY DEF doAddMotion
<1>2. motion.at = "idle" /\ main.at = "idle"
  BY <1>1 DEF IInv, WorkInv, Idle
<1>4. Doing'
  BY <1>1, <1>2 DEF Doing
<1>5. adds' \in Nat
  BY <1>1 DEF IInv, TypeOK
<1>6. CASE mc_id' \in [Motions -> IDs \cup {invalid_MC_ID}] /\ UNCHANGED <<cmdlist, entries, MMlock, mc, unsent, overtaken>>
  <2>1. TypeOK' /\ Sound(cmdlist)' /\ WorkInv'
    BY <1>1, <1>2, <1>5, <1>6 DEF IInv, TypeOK, Sound, Injective, Message, WorkInv
  <2>2. ASSUME ~overtaken PROVE IdInv' /\ EntryInv' /\ MsgInv'
    BY <1>1, <1>6, <2>2, Keep DEF Coming, AtDrop, IInv, Linked, EntryInv, Dead
  <2> QED
    BY <1>4, <1>6, <2>1, <2>2 DEF IInv, Linked
<1>7. CASE /\ ~IsFull(cmdlist)
           /\ cmdlist' = PushFront(cmdlist)
           /\ entries' = [entries EXCEPT ![i] = [NewEntry EXCEPT !.rcr["Main"] = m, !.lastAccessor = "Main"]]
           /\ mc' = [mc EXCEPT ![m].id = i]
           /\ mc_id' = [mc_id EXCEPT ![m] = i]
           /\ Post(AddMessage(m))
           /\ overtaken' = (overtaken \/ Overtakes(m, i))
  <2>1. /\ cmdlist' \in Pool(IDs) /\ Sound(cmdlist') /\ i \in IDs /\ ~Active(i)
        /\ UsedSlots(cmdlist') = UsedSlots(cmdlist) \cup {i}
    <3>1. cmdlist \in Pool(IDs) /\ Sound(cmdlist)
      BY Typed DEF IInv
    <3> QED
      BY <1>7, <3>1, PushFrontFacts DEF Active
  <2>2. NewEntry \in Entry /\ NewEntry.rcr["Motion"] = NoMotion
    BY DEF NewEntry, Entry, Accessors
  <2>3. entries' = [entries EXCEPT ![i] = e]
    BY <1>7
  <2>4. /\ e \in Entry /\ e.lastAccessor = "Main"
        /\ e.rcr["Main"] = m /\ e.rcr["Motion"] = NoMotion
    BY <2>2 DEF Entry, Accessors
  <2> HIDE DEF e, i
  <2>5. /\ entries' \in [IDs -> Entry] /\ entries'[i] = e
        /\ \A j \in IDs : j # i => entries'[j] = entries[j]
    BY <2>1, <2>3, <2>4, EntryStep DEF IInv
  <2>6. /\ entries'[i].lastAccessor = "Main" /\ entries'[i].rcr["Main"] = m /\ entries'[i].rcr["Motion"] = NoMotion
        /\ \A j \in IDs : j # i => entries'[j].rcr = entries[j].rcr /\ (entries'[j].lastAccessor = Nobody <=> Dead(j))
    BY <2>4, <2>5 DEF Dead
  <2>7. mc \in [Motions -> MC]
    BY Typed DEF IInv
  <2>8. /\ mc' \in [Motions -> MC] /\ mc'[m].id = i
        /\ \A k \in Motions : k # m => mc'[k] = mc[k]
    BY <1>7, <2>1, <2>7 DEF MC
  <2>9. \A k \in Motions : mc'[k].started = mc[k].started
    BY <1>7, <2>7 DEF MC
  <2>10. mc_id' \in [Motions -> IDs \cup {invalid_MC_ID}]
    BY <1>7, <2>1 DEF IInv, TypeOK
  <2>11. \A a \in Accessors : inbox[a] \in Seq(Message) /\ Coming(a) \in Seq(Message)
    BY Typed DEF IInv
  <2>12. AddMessage(m) \in Message /\ AddMessage(m).mc = m /\ AddMessage(m).type # "delete"
    BY Kinds
  <2>13. /\ unsent' \in Seq(Message) /\ unsent' # << >> /\ MMlock' = "Main"
         /\ \A a \in Accessors : /\ \A x : In(Coming(a)', x) <=> (In(Coming(a), x) \/ x = AddMessage(m))
                                 /\ Ordered(Coming(a)) /\ (\A k \in 1 .. Len(inbox[a]) : inbox[a][k].mc # m) => Ordered(Coming(a)')
    <3> DEFINE y == AddMessage(m)
    <3>1. y \in Message /\ y.mc = m /\ y.type # "delete" /\ Post(y) /\ inbox' = inbox /\ TypeOK
      BY <1>1, <1>7, <2>12 DEF IInv
    <3> HIDE DEF y
    <3>2. /\ unsent' \in Seq(Message) /\ unsent' # << >> /\ MMlock' = "Main"
          /\ \A a \in Accessors :
               /\ \A x : In(Coming(a)', x) <=> (In(Coming(a), x) \/ x = y)
               /\ /\ Ordered(Coming(a))
                  /\ y.type = "add" => \A k \in 1 .. Len(inbox[a]) : inbox[a][k].mc # y.mc
                  /\ y.type = "delete" => ~In(unsent, AddMessage(y.mc))
                  => Ordered(Coming(a)')
      BY <3>1, PostFacts, Zenon
    <3> QED
      BY <3>1, <3>2 DEF y
  <2>14. WorkInv'
    BY <1>1, <1>2, <2>13 DEF IInv, WorkInv
  <2>15. overtaken' \in BOOLEAN
    <3> DEFINE o == overtaken \/ Overtakes(m, i)
    <3>1. overtaken' = o /\ o \in BOOLEAN
      BY <1>7, Zenon DEF i
    <3> HIDE DEF o
    <3> QED
      BY <3>1
  <2>16. TypeOK' /\ Sound(cmdlist)'
    <3>1. Sound(cmdlist)'
      BY <2>1 DEF Sound, Injective
    <3>2. /\ cmdlist' \in [used : Seq(IDs), free : Seq(IDs)]
          /\ entries' \in [IDs -> [rcr : [Accessors -> Motions \cup {NoMotion}],
                            lastAccessor : Accessors \cup {Nobody},
                            owner : Accessors \cup {Nobody}]]
          /\ mc' \in [Motions -> [id : IDs \cup {invalid_MC_ID}, started : BOOLEAN]]
      BY <2>1, <2>5, <2>8 DEF Pool, Entry, MC
    <3>3. /\ MMlock' \in Accessors \cup {Nobody} /\ inbox' \in [Accessors -> Seq(Message)]
          /\ main' \in [at : {"idle", "waiting", "holding", "message"},
                 id : IDs \cup {invalid_MC_ID}, todo : SUBSET IDs]
          /\ motion' \in [at : {"idle", "start", "drop", "cycle", "update", "prune"},
                   id : IDs \cup {invalid_MC_ID}, todo : SUBSET IDs]
      BY <1>1, <2>13 DEF IInv, TypeOK, Accessors, Message
    <3> QED
      BY <1>5, <2>10, <2>13, <2>15, <3>1, <3>2, <3>3 DEF TypeOK, Message
  <2>17. ASSUME ~overtaken' PROVE ~overtaken /\ IdInv' /\ EntryInv' /\ MsgInv'
    <3>1. ~overtaken /\ ~Overtakes(m, i)
      BY <1>7, <2>17, Zenon DEF i
    <3>2. IdInv /\ EntryInv /\ MsgInv
      BY <3>1 DEF IInv, Linked
    <3>3. "Main" \in Accessors /\ "Motion" \in Accessors
      BY DEF Accessors
    \* Nobody holds m, and no message is about m or i.
    <3>4. \A j \in IDs, a \in Accessors : entries[j].rcr[a] # m
      BY <3>1 DEF Overtakes
    <3>5. \A a \in Accessors : \A k \in 1 .. Len(Coming(a)) : Coming(a)[k].mc # m /\ Coming(a)[k].id # i
      <4>1. \A a \in Accessors : DOMAIN Coming(a) = 1 .. Len(Coming(a))
        BY <2>11, LenProperties
      <4> QED
        BY <3>1, <4>1 DEF Overtakes
    <3>51. \A a \in Accessors : \A k \in 1 .. Len(inbox[a]) : inbox[a][k].mc # m
      <4> SUFFICES ASSUME NEW a \in Accessors, NEW k \in 1 .. Len(inbox[a]) PROVE inbox[a][k].mc # m
        OBVIOUS
      <4> DEFINE q == inbox[a]
      <4>1. q \in Seq(Message) /\ unsent \in Seq(Message) /\ Coming(a) = q \o unsent /\ k \in 1 .. Len(q)
        BY Typed DEF Coming, IInv
      <4> HIDE DEF q
      <4>2. Len(q) \in Nat /\ Len(unsent) \in Nat /\ k \in 1 .. Len(q) + Len(unsent) /\ k <= Len(q)
        BY <4>1, LenProperties
      <4>3. Len(q \o unsent) = Len(q) + Len(unsent) /\ (q \o unsent)[k] = q[k]
        BY <4>1, <4>2, ConcatProperties
      <4>4. k \in 1 .. Len(Coming(a)) /\ Coming(a)[k] = inbox[a][k]
        BY <4>1, <4>2, <4>3 DEF q
      <4> QED
        BY <3>5, <4>4
    <3>6. \A a \in Accessors : ~In(Coming(a), AddMessage(m)) /\ \A k \in Motions : ~In(Coming(a), DeleteMessage(k, i))
      BY <2>1, <2>12, <3>5, Kinds DEF In
    <3>7. Dead(i)
      BY <2>1, <3>2 DEF EntryInv
    <3>8. \A k \in Motions : mc[k].id # i
      BY <1>2, <2>1, <3>2, <3>3, <3>6, <3>7 DEF IdInv, AtDrop
    <3>9. \A j \in IDs : mc[m].id # j
      BY <3>2, <3>3, <3>4, <3>6 DEF IdInv
    <3>10. \A a \in Accessors : /\ \A k : In(Coming(a)', AddMessage(k)) <=> (In(Coming(a), AddMessage(k)) \/ k = m)
                                /\ \A k, j : In(Coming(a)', DeleteMessage(k, j)) <=> In(Coming(a), DeleteMessage(k, j))
      <4> TAKE a \in Accessors
      <4>1. \A x : In(Coming(a)', x) <=> (In(Coming(a), x) \/ x = AddMessage(m))
        BY <2>13
      <4>2. \A k : AddMessage(k) = AddMessage(m) <=> k = m
        BY Kinds
      <4>3. \A k, j : DeleteMessage(k, j) # AddMessage(m)
        BY Kinds
      <4> QED
        BY <4>1, <4>2, <4>3
    <3>11. IdInv'
      <4> SUFFICES ASSUME NEW k \in Motions, NEW j \in IDs
                   PROVE  /\ entries'[j].rcr["Motion"] = k => mc'[k].id = j
                          /\ mc'[k].id = j =>
                               /\ \A l \in Motions : mc'[l].id = j => l = k
                               /\ entries'[j].rcr["Motion"] = k \/ In(Coming("Motion")', AddMessage(k))
                               /\ entries'[j].lastAccessor = Nobody =>
                                    /\ In(Coming("Motion")', DeleteMessage(k, j))
                                    /\ In(Coming("Main")', AddMessage(k)) => In(Coming("Main")', DeleteMessage(k, j))
        BY <1>1, <1>2 DEF IdInv, Dead, AtDrop
      <4>1. ~AtDrop(j)
        BY <1>2 DEF AtDrop
      <4>2. CASE j = i
        <5>1. entries'[j].rcr["Motion"] # k /\ entries'[j].lastAccessor # Nobody
          BY <2>6, <4>2, Parameters DEF Nobody
        <5>2. \A l \in Motions : mc'[l].id = j => l = m
          BY <2>8, <3>8, <4>2
        <5>3. In(Coming("Motion")', AddMessage(m))
          BY <3>3, <3>10
        <5> QED
          BY <5>1, <5>2, <5>3
      <4>3. CASE j # i
        <5>1. \A l \in Motions : mc'[l].id = j <=> mc[l].id = j
          BY <2>8, <3>9, <4>3
        <5>2. mc[k].id = j => k # m
          BY <3>9
        <5>3. entries'[j].rcr = entries[j].rcr /\ (entries'[j].lastAccessor = Nobody <=> Dead(j))
          BY <2>6, <4>3
        <5>4. /\ entries[j].rcr["Motion"] = k => mc[k].id = j
              /\ mc[k].id = j =>
                   /\ \A l \in Motions : mc[l].id = j => l = k
                   /\ entries[j].rcr["Motion"] = k \/ In(Coming("Motion"), AddMessage(k))
                   /\ Dead(j) => /\ In(Coming("Motion"), DeleteMessage(k, j))
                                 /\ In(Coming("Main"), AddMessage(k)) => In(Coming("Main"), DeleteMessage(k, j))
          BY <3>2, <4>1 DEF IdInv
        <5> QED
          BY <3>3, <3>10, <5>1, <5>2, <5>3, <5>4
      <4> QED
        BY <4>2, <4>3
    <3>12. EntryInv'
      <4>1. \A j \in IDs : j \in UsedSlots(cmdlist)' <=> (Active(j) \/ j = i)
        BY <2>1 DEF Active, UsedSlots
      <4> SUFFICES ASSUME NEW j \in IDs
                   PROVE  /\ j \notin UsedSlots(cmdlist)' => entries'[j].lastAccessor = Nobody
                          /\ entries'[j].lastAccessor # Nobody => \E k \in Motions : entries'[j].rcr["Main"] = k /\ mc'[k].id = j
                          /\ entries'[j].lastAccessor # Nobody /\ entries'[j].rcr["Motion"] # NoMotion => mc'[entries'[j].rcr["Motion"]].started
                          /\ j \in UsedSlots(cmdlist)' /\ entries'[j].lastAccessor = Nobody /\ entries'[j].rcr["Main"] # NoMotion =>
                               \E k \in Motions : In(Coming("Main")', DeleteMessage(k, j))
                          /\ j \in UsedSlots(cmdlist)' /\ entries'[j].lastAccessor = Nobody /\ ~ entries'[j].rcr["Main"] # NoMotion =>
                               \E k \in Motions : mc'[k].id = j
        BY <1>1 DEF EntryInv, Dead, Has, Active
      <4>2. CASE j = i
        BY <2>6, <2>8, <4>1, <4>2 DEF Nobody
      <4>3. CASE j # i
        <5>1. /\ entries'[j].rcr = entries[j].rcr /\ (entries'[j].lastAccessor = Nobody <=> Dead(j))
              /\ j \in UsedSlots(cmdlist)' <=> Active(j)
          BY <2>6, <4>1, <4>3
        <5>2. \A k \in Motions : mc[k].id = j => mc'[k].id = j
          BY <2>8, <3>9
        <5>3. ~Dead(j) /\ Has("Motion", j) => mc'[entries[j].rcr["Motion"]].started
          BY <1>2, <2>9, <3>2, Typed DEF EntryInv, IInv
        <5>4. /\ ~Active(j) => Dead(j)
              /\ ~Dead(j) => \E k \in Motions : entries[j].rcr["Main"] = k /\ mc[k].id = j
              /\ Active(j) /\ Dead(j) /\ Has("Main", j) => \E k \in Motions : In(Coming("Main"), DeleteMessage(k, j))
              /\ Active(j) /\ Dead(j) /\ ~Has("Main", j) => \E k \in Motions : mc[k].id = j
          BY <3>2 DEF EntryInv
        <5> QED
          BY <3>3, <3>10, <5>1, <5>2, <5>3, <5>4 DEF Has
      <4> QED
        BY <4>2, <4>3
    <3>13. MsgInv'
      <4> SUFFICES ASSUME NEW a \in Accessors
                   PROVE  /\ Ordered(Coming(a)')
                          /\ \A k \in Motions, j \in IDs : In(Coming(a)', DeleteMessage(k, j)) => entries'[j].lastAccessor = Nobody
        BY DEF MsgInv, Dead
      <4>1. Ordered(Coming(a)')
        BY <2>13, <3>2, <3>51 DEF MsgInv
      <4>2. ASSUME NEW k \in Motions, NEW j \in IDs, In(Coming(a)', DeleteMessage(k, j))
            PROVE  entries'[j].lastAccessor = Nobody
        BY <2>6, <3>2, <3>6, <3>10, <4>2 DEF MsgInv
      <4> QED
        BY <4>1, <4>2
    <3> QED
      BY <3>1, <3>11, <3>12, <3>13
  <2> QED
    BY <1>4, <2>14, <2>16, <2>17 DEF IInv, Linked
<1>8. mc_id \in [Motions -> IDs \cup {invalid_MC_ID}] /\ UsedSlots(cmdlist) \in SUBSET IDs
  BY Typed DEF IInv, TypeOK
<1>9. \A j \in Running(m) : j \in IDs
  BY <1>8 DEF Running
<1> HIDE DEF e, i
<1>10. \/ \E j \in Running(m) : mc_id' = [mc_id EXCEPT ![m] = j] /\ UNCHANGED <<cmdlist, entries, MMlock, mc, unsent, overtaken>>
       \/ UNCHANGED <<cmdlist, entries, MMlock, mc, unsent, mc_id, overtaken>>
       \/ /\ ~IsFull(cmdlist)
          /\ cmdlist' = PushFront(cmdlist)
          /\ entries' = [entries EXCEPT ![i] = [NewEntry EXCEPT !.rcr["Main"] = m, !.lastAccessor = "Main"]]
          /\ mc' = [mc EXCEPT ![m].id = i]
          /\ mc_id' = [mc_id EXCEPT ![m] = i]
          /\ Post(AddMessage(m))
          /\ overtaken' = (overtaken \/ Overtakes(m, i))
  BY Zenon DEF doAddMotion, i
<1> QED
  BY <1>6, <1>7, <1>8, <1>9, <1>10

-------------------------------------------------------------------------------
(* The invariant is inductive                                              *)

LEMMA InitOK == Init => IInv
<1> SUFFICES ASSUME Init PROVE IInv
  OBVIOUS
<1>1. cmdlist \in Pool(IDs) /\ Sound(cmdlist) /\ UsedSlots(cmdlist) = {}
  BY EmptyPoolFacts, Parameters DEF Init, IDs
<1>2. << >> \in Seq(Message)
  BY EmptySeq
<1>3. \A i \in IDs : /\ entries[i].rcr["Main"] = NoMotion /\ entries[i].rcr["Motion"] = NoMotion
                     /\ entries[i].lastAccessor = Nobody
  BY DEF Init, NewEntry, Accessors
<1>4. \A m \in Motions : mc[m].id \notin IDs
  BY NoID DEF Init
<1>5. main.at = "idle" /\ motion.at = "idle" /\ MMlock \notin {"Main", "Motion"} /\ unsent = << >>
  BY DEF Init, Idle, Nobody
<1>6. TypeOK
  <2>1. entries \in [IDs -> Entry] /\ mc \in [Motions -> MC]
    BY DEF Init, NewEntry, Entry, MC
  <2>2. inbox \in [Accessors -> Seq(Message)] /\ unsent \in Seq(Message)
    BY <1>2 DEF Init
  <2>3. main \in Process({"idle", "waiting", "holding", "message"})
    BY DEF Init, Idle, Process
  <2>4. motion \in Process({"idle", "start", "drop", "cycle", "update", "prune"})
    BY DEF Init, Idle, Process
  <2>5. mc_id \in [Motions -> IDs \cup {invalid_MC_ID}] /\ adds \in Nat /\ overtaken \in BOOLEAN /\ MMlock \in Accessors \cup {Nobody}
    BY DEF Init
  <2> QED
    BY <1>1, <2>1, <2>2, <2>3, <2>4, <2>5 DEF TypeOK, Pool, Entry, MC, Process
<1>7. WorkInv
  BY <1>5 DEF WorkInv, Init
<1>8. Doing
  BY <1>5 DEF Doing
<1>9. IdInv
  BY <1>3, <1>4, Parameters DEF IdInv
<1>10. EntryInv
  BY <1>1, <1>3 DEF EntryInv, Dead, Has, Active
<1>11. MsgInv
  <2>1. \A a \in Accessors : Coming(a) = << >>
    <3>1. << >> \o << >> = << >>
      BY <1>2, ConcatEmptySeq
    <3> QED
      BY <3>1 DEF Init, Coming
  <2>2. Ordered(<< >>)
    BY EmptySeq DEF Ordered
  <2> QED
    BY <2>1, <2>2, Empty DEF MsgInv
<1> QED
  BY <1>1, <1>6, <1>7, <1>8, <1>9, <1>10, <1>11 DEF IInv, Linked

LEMMA Unchanged == IInv /\ UNCHANGED vars => IInv'
<1> SUFFICES ASSUME IInv, UNCHANGED vars PROVE IInv'
  OBVIOUS
<1>1. TypeOK' /\ Sound(cmdlist)' /\ WorkInv'
  BY DEF vars, IInv, TypeOK, Message, Sound, Injective, WorkInv, Has
<1>2. ASSUME ~overtaken PROVE Doing' /\ IdInv' /\ EntryInv' /\ MsgInv'
  BY <1>2 DEF vars, IInv, Linked, Doing, Dead, Has, IdInv, AtDrop, EntryInv, Active, MsgInv, Coming
<1>3. overtaken' = overtaken
  BY DEF vars
<1> QED
  BY <1>1, <1>2, <1>3 DEF IInv, Linked

LEMMA InductiveStep == IInv /\ [Next]_vars => IInv'
<1> SUFFICES ASSUME IInv, [Next]_vars PROVE IInv'
  OBVIOUS
<1>1. ASSUME NEW m \in Motions, doAddMotion(m) PROVE IInv'
  BY <1>1, AddStep
<1>2. ASSUME NEW m \in Motions, removeMotion(m) PROVE IInv'
  BY <1>2, RemoveStep
<1>3. ASSUME NEW m \in Motions, checkoutMotion(m) PROVE IInv'
  BY <1>3, CheckoutStep
<1>4. ASSUME NEW i \in IDs, tryCheckout(i) PROVE IInv'
  BY <1>4, TryCheckoutStep
<1>5. CASE gotLock
  BY <1>5, GotLockStep
<1>6. CASE checkinMotion
  BY <1>6, CheckinStep
<1>7. CASE receivedMsg
  BY <1>7, ReceivedStep
<1>8. CASE MainMsg
  BY <1>8, MainMsgStep
<1>9. CASE MotionMsg
  BY <1>9, MotionMsgStep
<1>10. CASE DoStart
  BY <1>10, DoStartStep
<1>11. CASE drop
  BY <1>11, DropStep
<1>12. CASE getOutputs
  BY <1>12, GetOutputsStep
<1>13. CASE checkinUpdated
  BY <1>13, CheckinUpdatedStep
<1>14. CASE prune
  BY <1>14, PruneStep
<1>15. CASE endOutputs
  BY <1>15, EndOutputsStep
<1>16. CASE callbackReturns
  BY <1>16, CallbackStep
<1>17. CASE UNCHANGED vars
  BY <1>17, Unchanged
<1> QED
  BY <1>1, <1>2, <1>3, <1>4, <1>5, <1>6, <1>7, <1>8, <1>9, <1>10, <1>11, <1>12, <1>13, <1>14, <1>15, <1>16, <1>17 DEF Next

(* Whatever the behaviors and the two processes do, and in whatever order  *)
(* the messages are read: the list of entries is never corrupted, each     *)
(* process holds MMlock when it must, and as long as no command and no id  *)
(* was used again too early, and no listener removed a command before it   *)
(* was announced, the id in a command's region, the entries and the        *)
(* messages still to come fit together, those included whose calls wait    *)
(* for listeners to return.                                                *)
THEOREM Inductive == Spec => []IInv
<1>1. Init => IInv
  BY InitOK
<1>2. IInv /\ [Next]_vars => IInv'
  BY InductiveStep
<1> QED
  BY <1>1, <1>2, PTL DEF Spec

(* checkoutMotion() gives a behavior a command that stays alive, in the    *)
(* list and its own until it is checked in.                                *)
THEOREM CheckedOut == Spec => []CheckedOutIsAlive
<1>1. IInv => CheckedOutIsAlive
  <2> SUFFICES ASSUME IInv, ~overtaken, main.at = "holding"
               PROVE  /\ Active(main.id) /\ ~Dead(main.id) /\ entries[main.id].owner = "Main"
                      /\ ~ \E k \in DOMAIN Coming("Main") :
                            Coming("Main")[k].type = "delete" /\ Coming("Main")[k].id = main.id
    BY DEF CheckedOutIsAlive
  <2>1. WorkInv /\ Doing /\ EntryInv /\ MsgInv
    BY DEF IInv, Linked
  <2>2. main.id \in IDs /\ ~Dead(main.id) /\ entries[main.id].owner = "Main"
    BY <2>1 DEF WorkInv, Doing
  <2>3. Active(main.id)
    BY <2>1, <2>2 DEF EntryInv
  <2>4. Coming("Main") \in Seq(Message) /\ "Main" \in Accessors
    BY Typed DEF IInv, Accessors
  <2>5. ASSUME NEW k \in DOMAIN Coming("Main"), Coming("Main")[k].type = "delete", Coming("Main")[k].id = main.id
        PROVE  FALSE
    <3> DEFINE q == Coming("Main")
    <3>1. q \in Seq(Message) /\ k \in DOMAIN q /\ q[k].type = "delete" /\ q[k].id = main.id
      BY <2>4, <2>5
    <3> HIDE DEF q
    <3>2. k \in 1 .. Len(q) /\ q[k] \in Message
      BY <3>1, Members
    <3>3. q[k].mc \in Motions /\ q[k] = DeleteMessage(q[k].mc, main.id)
      BY <3>1, <3>2, Kinds
    <3>4. In(q, DeleteMessage(q[k].mc, main.id))
      BY <3>2, <3>3 DEF In
    <3> QED
      BY <2>1, <2>2, <2>4, <3>3, <3>4 DEF MsgInv, q
  <2> QED
    BY <2>2, <2>3, <2>5
<1> QED
  BY <1>1, Inductive, PTL

(* updateOutputs() is called only for commands Motion has received and     *)
(* started and not stopped since.                                          *)
THEOREM Updated == Spec => []UpdatedIsStarted
<1>1. IInv => UpdatedIsStarted
  BY DEF IInv, Linked, Doing, UpdatedIsStarted
<1> QED
  BY <1>1, Inductive, PTL

(* When every message is processed and nobody is at work, the entries in   *)
(* use are the commands that are alive, and both processes have attached   *)
(* the same region to each: none leaks, none is missing.                   *)
THEOREM Agree == Spec => []AgreeWhenQuiet
<1>1. IInv => AgreeWhenQuiet
  <2> SUFFICES ASSUME IInv, ~overtaken, Quiet, NEW i \in UsedSlots(cmdlist)
               PROVE  ~Dead(i) /\ Has("Main", i) /\ entries[i].rcr["Main"] = entries[i].rcr["Motion"]
    BY DEF AgreeWhenQuiet
  <2>1. IdInv /\ EntryInv
    BY DEF IInv, Linked
  <2>2. i \in IDs /\ Active(i)
    BY Typed DEF IInv, Active
  <2>3. motion.at = "idle" /\ \A a \in Accessors : \A x : ~In(Coming(a), x)
    BY Empty DEF Quiet, Idle
  <2>4. "Main" \in Accessors /\ "Motion" \in Accessors /\ ~AtDrop(i)
    BY <2>3 DEF Accessors, AtDrop
  <2>5. \A m \in Motions : mc[m].id = i => ~Dead(i) /\ entries[i].rcr["Motion"] = m
    BY <2>1, <2>2, <2>3, <2>4 DEF IdInv
  <2>6. ~Dead(i)
    BY <2>1, <2>2, <2>3, <2>4, <2>5 DEF EntryInv
  <2>7. PICK m \in Motions : entries[i].rcr["Main"] = m /\ mc[m].id = i
    BY <2>1, <2>2, <2>6 DEF EntryInv
  <2> QED
    BY <2>5, <2>6, <2>7, Parameters DEF Has
<1> QED
  BY <1>1, Inductive, PTL
===============================================================================
