--------------------------- MODULE ListMemBufProofs ---------------------------
(***************************************************************************)
(* The linked list of ListMemBuf.h implements the ordered pool of slots,   *)
(* for every capacity.  The invariant names the two sequences the links    *)
(* stand for: the links, with end() as the sentinel between the last and   *)
(* the first element, are exactly the neighbourhoods of the one, and the   *)
(* free queue is a chain through the other.  A call then changes the links *)
(* as it changes the sequences.                                            *)
(***************************************************************************)
EXTENDS ListMemBuf, SequenceTheorems, WellFoundedInduction, TLAPS

Lists == [next : [Slots -> Index], prev : [Slots -> Index],
          alive : SUBSET Slots,
          activeBegin : Index, activeBack : Index,
          freeBegin : Index, freeBack : Index, cursize : 0 .. MAX]

\* The k-th of a sequence of slots, end() before the first and after the last.
At(q, k) == IF k \in 1 .. Len(q) THEN q[k] ELSE End

Injective(q) == \A j, k \in 1 .. Len(q) : q[j] = q[k] => j = k

\* The links are the neighbourhoods of u.
Ring(l, u) ==
    \A k \in 0 .. Len(u) : next(l, At(u, k)) = At(u, k + 1) /\ prev(l, At(u, k + 1)) = At(u, k)

\* The free queue is f.
Queue(l, f) ==
    /\ l.freeBegin = At(f, 1) /\ l.freeBack = At(f, Len(f))
    /\ \A k \in 1 .. Len(f) - 1 : l.next[f[k]] = f[k + 1]

\* Every slot is in exactly one place of one of them.
Apart(u, f) ==
    /\ Injective(u) /\ Injective(f) /\ Len(u) + Len(f) = MAX
    /\ \A j \in 1 .. Len(u), k \in 1 .. Len(f) : u[j] # f[k]
    /\ \A x \in Slots : \/ \E j \in 1 .. Len(u) : x = u[j]
                        \/ \E k \in 1 .. Len(f) : x = f[k]

\* l stands for the used slots u, in order, and the free slots f.
Rep(l, u, f) ==
    /\ l \in Lists /\ u \in Seq(Slots) /\ f \in Seq(Slots)
    /\ Apart(u, f) /\ Ring(l, u) /\ Queue(l, f)
    /\ l.cursize = Len(u) /\ l.alive = Range(u)

(* ------------------------ following the links ---------------------------- *)

LEMMA LeastNat ==
  ASSUME NEW T \in SUBSET Nat, T # {}
  PROVE  \E x \in T : \A y \in T : x <= y
<1>1. IsWellFoundedOn(OpToRel(<, Nat), Nat) /\ T \subseteq Nat
  BY NatLessThanWellFounded, Zenon
<1>2. \E x \in T : \A y \in T : <<y, x>> \notin OpToRel(<, Nat)
  BY <1>1, WFMin, Zenon
<1>3. \E x \in T : \A y \in T : ~(y < x)
  BY <1>2, Zenon DEF OpToRel
<1> QED
  BY <1>3

LEMMA Members ==
  ASSUME NEW S, NEW s \in Seq(S)
  PROVE  /\ Len(s) \in Nat /\ DOMAIN s = 1 .. Len(s) /\ \A k \in 1 .. Len(s) : s[k] \in S
         /\ Range(s) = {s[k] : k \in 1 .. Len(s)}
         /\ s \in [1 .. Len(s) -> S]
  BY LenProperties, ElementOfSeq DEF Range

\* Two sequences of the same length with the same elements are the same.
LEMMA SameSeq ==
  ASSUME NEW S, NEW T, NEW s \in Seq(S), NEW t \in Seq(T), Len(s) = Len(t),
         \A k \in 1 .. Len(s) : s[k] = t[k]
  PROVE  s = t
  BY SeqEqual

\* Walking a chain of links from its first slot gives the sequence.
LEMMA ChainIs ==
  ASSUME NEW q \in Seq(Slots), Len(q) <= MAX, NEW first, NEW link, first = At(q, 1),
         \A k \in 1 .. Len(q) : link[q[k]] = At(q, k + 1)
  PROVE  Chain(first, link) = q
<1> DEFINE N == Len(q)
           Least(n) == IF n <= N THEN n ELSE N
           W == [n \in 0 .. MAX |-> [k \in 1 .. Least(n) |-> q[k]]]
           Grow(s) == LET x == IF s = << >> THEN first ELSE link[s[Len(s)]]
                      IN  IF x = End THEN s ELSE Append(s, x)
           Step(g) == [n \in 0 .. MAX |-> IF n = 0 THEN << >> ELSE Grow(g[n - 1])]
           walk == CHOOSE g : g = Step(g)
<1>1. N \in Nat /\ MAX \in Nat /\ \A k \in 1 .. N : q[k] \in Slots /\ q[k] # End
  BY MaxAssumption, Members DEF Slots, End
<1>2. \A n \in 0 .. MAX : /\ Least(n) \in Nat /\ W[n] \in Seq(Slots) /\ Len(W[n]) = Least(n)
                          /\ \A k \in 1 .. Least(n) : W[n][k] = q[k]
  <2> SUFFICES ASSUME NEW n \in 0 .. MAX
               PROVE  /\ Least(n) \in Nat /\ W[n] \in Seq(Slots) /\ Len(W[n]) = Least(n)
                      /\ \A k \in 1 .. Least(n) : W[n][k] = q[k]
    OBVIOUS
  <2>1. Least(n) \in Nat /\ Least(n) <= N
    BY <1>1
  <2> DEFINE p == [k \in 1 .. Least(n) |-> q[k]]
  <2>2. W[n] = p
    OBVIOUS
  <2> HIDE DEF W
  <2>3. p \in [1 .. Least(n) -> Slots] /\ DOMAIN p = 1 .. Least(n) /\ \A k \in 1 .. Least(n) : p[k] = q[k]
    BY <1>1, <2>1
  <2> HIDE DEF p, Least
  <2>4. p \in Seq(Slots) /\ Len(p) = Least(n)
    BY <2>1, <2>3, SeqDef, LenProperties
  <2> QED
    BY <2>1, <2>2, <2>3, <2>4
<1>3. W[0] = << >>
  <2>1. 0 \in 0 .. MAX /\ Least(0) = 0
    BY <1>1
  <2>2. W[0] \in Seq(Slots) /\ Len(W[0]) = 0
    BY <1>2, <2>1
  <2> HIDE DEF W
  <2> QED
    BY <2>2, EmptySeq
<1>4. ASSUME NEW n \in 0 .. MAX, n # 0
      PROVE  W[n] = Grow(W[n - 1])
  <2> DEFINE m == n - 1
             s == W[m]
             x == IF s = << >> THEN first ELSE link[s[Len(s)]]
  <2>1. m \in 0 .. MAX /\ n = m + 1 /\ m \in Nat
    BY <1>1, <1>4
  <2>2. /\ s \in Seq(Slots) /\ Len(s) = Least(m) /\ \A k \in 1 .. Least(m) : s[k] = q[k]
        /\ W[n] \in Seq(Slots) /\ Len(W[n]) = Least(n) /\ \A k \in 1 .. Least(n) : W[n][k] = q[k]
        /\ Least(m) \in Nat /\ Least(n) \in Nat
    BY <1>2, <2>1
  <2>3. x = At(q, Least(m) + 1)
    <3> HIDE DEF W, m
    <3>1. CASE Least(m) = 0
      <4>1. s = << >>
        BY <2>2, <3>1, EmptySeq
      <4> QED
        BY <3>1, <4>1
    <3>2. CASE Least(m) # 0
      <4>1. Least(m) \in 1 .. N
        BY <1>1, <2>1, <2>2, <3>2
      <4>2. s # << >>
        BY <2>2, <3>2, EmptySeq
      <4>3. s[Len(s)] = q[Least(m)]
        BY <2>2, <4>1
      <4> QED
        BY <4>1, <4>2, <4>3
    <3> QED
      BY <3>1, <3>2
  <2> HIDE DEF W
  <2>4. CASE m < N
    <3>1. Least(m) = m /\ Least(n) = n /\ n \in 1 .. N
      BY <1>1, <2>1, <2>4
    <3>2. x = q[n] /\ x # End
      BY <1>1, <2>1, <2>3, <3>1 DEF At
    <3> HIDE DEF x, Least
    <3>3. /\ Append(s, x) \in Seq(Slots) /\ Len(Append(s, x)) = n
          /\ \A k \in 1 .. m : Append(s, x)[k] = s[k]
          /\ Append(s, x)[n] = x
      <4>1. x \in Slots /\ Len(s) = m
        BY <1>1, <2>2, <3>1, <3>2
      <4> QED
        BY <2>1, <2>2, <4>1, AppendProperties
    <3>4. \A k \in 1 .. n : Append(s, x)[k] = W[n][k]
      BY <2>1, <2>2, <3>1, <3>2, <3>3
    <3>5. Append(s, x) = W[n]
      <4> DEFINE w == W[n]
                 v == Append(s, x)
      <4>1. /\ v \in Seq(Slots) /\ w \in Seq(Slots) /\ Len(v) = n /\ Len(w) = n
            /\ \A k \in 1 .. n : v[k] = w[k]
        BY <2>2, <3>1, <3>3, <3>4
      <4> HIDE DEF v, w
      <4>2. v = w
        BY <4>1, SameSeq
      <4> QED
        BY <4>2 DEF v, w
    <3> QED
      BY <3>2, <3>5 DEF x
  <2>5. CASE ~(m < N)
    <3>1. Least(m) = N /\ Least(n) = N /\ N + 1 \notin 1 .. N
      BY <1>1, <2>1, <2>5
    <3>2. x = End
      BY <2>3, <3>1 DEF At
    <3> HIDE DEF x, Least
    <3>3. s = W[n]
      BY <2>2, <3>1, SameSeq, SMTT(30)
    <3> QED
      BY <3>2, <3>3 DEF x
  <2> QED
    BY <1>1, <2>1, <2>4, <2>5
<1>5. W = Step(W)
  <2>1. \A n \in 0 .. MAX : W[n] = IF n = 0 THEN << >> ELSE Grow(W[n - 1])
    BY <1>3, <1>4
  <2>2. DOMAIN W = 0 .. MAX /\ W = [n \in 0 .. MAX |-> W[n]]
    OBVIOUS
  <2> HIDE DEF W, Grow
  <2> QED
    BY <2>1, <2>2
<1> HIDE DEF W, Grow
<1>6. walk = Step(walk)
  <2> HIDE DEF Step
  <2> QED
    BY <1>5
<1> HIDE DEF walk
<1>7. \A n \in 0 .. MAX : walk[n] = IF n = 0 THEN << >> ELSE Grow(walk[n - 1])
  BY <1>6
<1>8. \A n \in 0 .. MAX : W[n] = IF n = 0 THEN << >> ELSE Grow(W[n - 1])
  BY <1>3, <1>4
<1>9. \A n \in 0 .. MAX : walk[n] = W[n]
  <2> SUFFICES ASSUME NEW n \in 0 .. MAX, walk[n] # W[n]
               PROVE  FALSE
    OBVIOUS
  <2> DEFINE S == {k \in 0 .. MAX : walk[k] # W[k]}
  <2>1. S \in SUBSET Nat /\ S # {}
    OBVIOUS
  <2>2. PICK k \in S : \A j \in S : k <= j
    BY <2>1, LeastNat
  <2>3. k \in 0 .. MAX /\ walk[k] # W[k] /\ k # 0
    BY <1>7, <1>8, <2>2
  <2>4. k - 1 \in 0 .. MAX /\ ~(k <= k - 1)
    BY <1>1, <2>3
  <2>5. walk[k - 1] = W[k - 1]
    BY <2>2, <2>4
  <2> QED
    BY <1>7, <1>8, <2>3, <2>5
<1>10. Chain(first, link) = walk[MAX]
  BY DEF Chain, walk, Step, Grow
<1>11. W[MAX] = q
  <2>1. MAX \in 0 .. MAX /\ Least(MAX) = N
    BY <1>1
  <2> HIDE DEF Least
  <2> QED
    BY <1>2, <2>1, SameSeq
<1> QED
  BY <1>1, <1>9, <1>10, <1>11

LEMMA AtFacts ==
  ASSUME NEW u \in Seq(Slots)
  PROVE  /\ Len(u) \in Nat /\ At(u, 0) = End /\ At(u, Len(u) + 1) = End
         /\ \A k \in 1 .. Len(u) : u[k] \in Slots /\ u[k] # End /\ At(u, k) = u[k]
         /\ \A k \in Nat : At(u, k) \in Index
         /\ Injective(u) => /\ \A j, k \in 0 .. Len(u) : At(u, j) = At(u, k) => j = k
                            /\ \A j, k \in 1 .. Len(u) + 1 : At(u, j) = At(u, k) => j = k
<1>1. Len(u) \in Nat /\ \A k \in 1 .. Len(u) : u[k] \in Slots
  BY Members
<1>2. \A x \in Slots : x # End /\ x \in Int
  BY MaxAssumption DEF Slots, End
<1>3. \A k \in 1 .. Len(u) : At(u, k) = u[k]
  BY DEF At
<1>4. \A k \in Nat : k \notin 1 .. Len(u) => At(u, k) = End
  BY DEF At
<1>5. \A k \in Nat : At(u, k) \in Index
  BY <1>1, <1>3, <1>4 DEF Index
<1>6. 0 \notin 1 .. Len(u) /\ Len(u) + 1 \notin 1 .. Len(u) /\ 0 \in Nat /\ Len(u) + 1 \in Nat
  BY <1>1
<1>7. ASSUME Injective(u)
      PROVE  /\ \A j, k \in 0 .. Len(u) : At(u, j) = At(u, k) => j = k
             /\ \A j, k \in 1 .. Len(u) + 1 : At(u, j) = At(u, k) => j = k
  <2>1. \A j, k \in 1 .. Len(u) : u[j] = u[k] => j = k
    BY <1>7 DEF Injective
  <2>2. /\ \A k \in 0 .. Len(u) : k \in Nat /\ (k \in 1 .. Len(u) \/ k = 0)
        /\ \A k \in 1 .. Len(u) + 1 : k \in Nat /\ (k \in 1 .. Len(u) \/ k = Len(u) + 1)
    BY <1>1
  <2> QED
    BY <1>1, <1>2, <1>3, <1>4, <1>6, <2>1, <2>2
<1> QED
  BY <1>1, <1>2, <1>3, <1>4, <1>5, <1>6, <1>7

Reversed(u) == [k \in 1 .. Len(u) |-> u[Len(u) + 1 - k]]

LEMMA ReverseFacts ==
  ASSUME NEW u \in Seq(Slots)
  PROVE  /\ Reversed(u) \in Seq(Slots) /\ Len(Reversed(u)) = Len(u)
         /\ \A k \in 1 .. Len(u) : Reversed(u)[k] = u[Len(u) - k + 1]
<1> DEFINE n == Len(u)
           r == [k \in 1 .. n |-> u[n + 1 - k]]
<1>1. n \in Nat /\ \A k \in 1 .. n : u[k] \in Slots
  BY Members
<1>2. \A k \in 1 .. n : n - k + 1 \in 1 .. n /\ n + 1 - k = n - k + 1
  BY <1>1
<1>3. Reversed(u) = r
  BY DEF Reversed
<1>4. r \in [1 .. n -> Slots] /\ DOMAIN r = 1 .. n /\ \A k \in 1 .. n : r[k] = u[n - k + 1]
  BY <1>1, <1>2
<1> HIDE DEF r
<1>5. r \in Seq(Slots) /\ Len(r) = n
  BY <1>1, <1>4, SeqDef, LenProperties
<1> QED
  BY <1>3, <1>4, <1>5

LEMMA RingLinks ==
  ASSUME NEW l, NEW u \in Seq(Slots), Ring(l, u)
  PROVE  /\ l.activeBegin = At(u, 1) /\ l.activeBack = At(u, Len(u))
         /\ \A k \in 1 .. Len(u) : l.next[u[k]] = At(u, k + 1) /\ l.prev[u[k]] = At(u, k - 1)
<1>1. /\ Len(u) \in Nat /\ At(u, 0) = End /\ At(u, Len(u) + 1) = End
      /\ \A k \in 1 .. Len(u) : u[k] # End /\ At(u, k) = u[k]
  BY AtFacts
<1>2. /\ 0 \in 0 .. Len(u) /\ Len(u) \in 0 .. Len(u) /\ 0 + 1 = 1
      /\ \A k \in 1 .. Len(u) : k \in 0 .. Len(u) /\ k - 1 \in 0 .. Len(u) /\ (k - 1) + 1 = k
  BY <1>1
<1>3. next(l, End) = At(u, 1) /\ prev(l, End) = At(u, Len(u))
  BY <1>1, <1>2 DEF Ring
<1>4. \A k \in 1 .. Len(u) : next(l, u[k]) = At(u, k + 1) /\ prev(l, u[k]) = At(u, k - 1)
  BY <1>1, <1>2 DEF Ring
<1> QED
  BY <1>1, <1>3, <1>4 DEF next, prev

\* The sequences are what a walk along the links meets.
LEMMA Represented ==
  ASSUME NEW l, NEW u, NEW f, Rep(l, u, f)
  PROVE  /\ Chain(l.activeBegin, l.next) = u
         /\ Chain(l.activeBack, l.prev) = Reversed(u)
         /\ (IF l.freeBegin = End THEN << >>
             ELSE Chain(l.freeBegin, [l.next EXCEPT ![l.freeBack] = End])) = f
         /\ Range(u) \cup Range(f) = Slots
<1>1. /\ l \in Lists /\ u \in Seq(Slots) /\ f \in Seq(Slots) /\ Apart(u, f) /\ Ring(l, u) /\ Queue(l, f)
  BY DEF Rep
<1>2. /\ Len(u) \in Nat /\ At(u, 0) = End /\ At(u, Len(u) + 1) = End
      /\ \A k \in 1 .. Len(u) : u[k] \in Slots /\ u[k] # End /\ At(u, k) = u[k]
  BY <1>1, AtFacts
<1>3. /\ Len(f) \in Nat /\ At(f, Len(f) + 1) = End
      /\ \A k \in 1 .. Len(f) : f[k] \in Slots /\ f[k] # End /\ At(f, k) = f[k]
  BY <1>1, AtFacts
<1>4. Len(u) <= MAX /\ Len(f) <= MAX /\ MAX \in Nat
  BY <1>1, <1>2, <1>3, MaxAssumption DEF Apart
<1>5. /\ l.activeBegin = At(u, 1) /\ l.activeBack = At(u, Len(u))
      /\ \A k \in 1 .. Len(u) : l.next[u[k]] = At(u, k + 1) /\ l.prev[u[k]] = At(u, k - 1)
  BY <1>1, RingLinks
<1>6. Chain(l.activeBegin, l.next) = u
  BY <1>1, <1>4, <1>5, ChainIs
<1>7. Chain(l.activeBack, l.prev) = Reversed(u)
  <2> DEFINE r == Reversed(u)
             n == Len(u)
  <2>1. r \in Seq(Slots) /\ Len(r) = n /\ \A k \in 1 .. n : r[k] = u[n - k + 1]
    BY <1>1, ReverseFacts
  <2>2. \A k \in 1 .. n + 1 : n - k + 1 \in 0 .. n /\ (n - k + 1 \in 1 .. n <=> k \in 1 .. n)
    BY <1>2
  <2>3. \A k \in 1 .. n + 1 : At(r, k) = At(u, n - k + 1)
    <3> HIDE DEF r
    <3> QED
      BY <1>2, <2>1, <2>2 DEF At
  <2>4. 1 \in 1 .. n + 1 /\ n - 1 + 1 = n
    BY <1>2
  <2>5. At(r, 1) = l.activeBack
    BY <1>5, <2>3, <2>4
  <2>6. \A k \in 1 .. n : /\ k + 1 \in 1 .. n + 1 /\ n - (k + 1) + 1 = (n - k + 1) - 1
                          /\ n - k + 1 \in 1 .. n
    BY <1>2
  <2>7. \A k \in 1 .. n : l.prev[r[k]] = At(r, k + 1)
    <3> SUFFICES ASSUME NEW k \in 1 .. n
                 PROVE  l.prev[r[k]] = At(r, k + 1)
      OBVIOUS
    <3> DEFINE j == n - k + 1
    <3>1. j \in 1 .. n /\ k + 1 \in 1 .. n + 1 /\ n - (k + 1) + 1 = j - 1
      BY <2>6
    <3>2. At(r, k + 1) = At(u, n - (k + 1) + 1) /\ r[k] = u[j]
      BY <2>1, <2>3, <3>1
    <3>3. l.prev[u[j]] = At(u, j - 1)
      BY <1>5, <3>1
    <3> HIDE DEF r, n, j
    <3> QED
      BY <3>1, <3>2, <3>3
  <2> HIDE DEF r
  <2>8. Chain(l.activeBack, l.prev) = r
    <3>1. Len(r) <= MAX /\ l.activeBack = At(r, 1) /\ \A k \in 1 .. Len(r) : l.prev[r[k]] = At(r, k + 1)
      BY <1>4, <2>1, <2>5, <2>7
    <3> DEFINE first == l.activeBack
               link == l.prev
    <3>2. /\ r \in Seq(Slots) /\ Len(r) <= MAX /\ first = At(r, 1)
          /\ \A k \in 1 .. Len(r) : link[r[k]] = At(r, k + 1)
      BY <2>1, <3>1
    <3> HIDE DEF first, link
    <3>3. Chain(first, link) = r
      BY <3>2, ChainIs
    <3> QED
      BY <3>3 DEF first, link
  <2> QED
    BY <2>8 DEF r
<1>8. (IF l.freeBegin = End THEN << >>
       ELSE Chain(l.freeBegin, [l.next EXCEPT ![l.freeBack] = End])) = f
  <2>1. l.freeBegin = At(f, 1) /\ l.freeBack = At(f, Len(f)) /\ \A k \in 1 .. Len(f) - 1 : l.next[f[k]] = f[k + 1]
    BY <1>1 DEF Queue
  <2>2. CASE f = << >>
    <3>1. Len(f) = 0 /\ ~(1 \in 1 .. Len(f))
      BY <2>2
    <3> QED
      BY <2>1, <2>2, <3>1 DEF At
  <2>3. CASE f # << >>
    <3> DEFINE n == Len(f)
               link == [l.next EXCEPT ![l.freeBack] = End]
    <3>1. n \in Nat /\ n # 0 /\ 1 \in 1 .. n /\ n \in 1 .. n
      BY <1>1, <1>3, <2>3, EmptySeq
    <3>2. l.freeBegin = f[1] /\ l.freeBegin # End /\ l.freeBack = f[n]
      BY <1>3, <2>1, <3>1
    <3>3. l.next \in [Slots -> Index]
      BY <1>1 DEF Lists
    <3>4. \A x \in Slots : link[x] = IF x = l.freeBack THEN End ELSE l.next[x]
      BY <3>3
    <3> HIDE DEF link, n
    <3>5. \A k \in 1 .. n : link[f[k]] = At(f, k + 1)
      <4> SUFFICES ASSUME NEW k \in 1 .. n
                   PROVE  link[f[k]] = At(f, k + 1)
        OBVIOUS
      <4>1. CASE k = n
        BY <1>3, <3>2, <3>4, <4>1 DEF n
      <4>2. CASE k # n
        <5>1. k \in 1 .. n - 1 /\ k + 1 \in 1 .. n /\ n \in 1 .. n
          BY <3>1, <4>2
        <5>2. f[k] # f[n]
          BY <1>1, <4>2, <5>1 DEF Apart, Injective, n
        <5> QED
          BY <1>3, <2>1, <3>2, <3>4, <5>1, <5>2 DEF n
      <4> QED
        BY <4>1, <4>2
    <3>6. Chain(l.freeBegin, link) = f
      BY <1>1, <1>4, <2>1, <3>5, ChainIs DEF n
    <3> QED
      BY <3>2, <3>6 DEF link
  <2> QED
    BY <2>2, <2>3
<1>9. Range(u) \cup Range(f) = Slots
  <2>1. Range(u) = {u[k] : k \in 1 .. Len(u)} /\ Range(f) = {f[k] : k \in 1 .. Len(f)}
    BY <1>1, Members
  <2>2. \A x \in Slots : x \in Range(u) \/ x \in Range(f)
    BY <1>1, <2>1 DEF Apart
  <2>3. \A x \in Range(u) \cup Range(f) : x \in Slots
    BY <1>2, <1>3, <2>1
  <2> QED
    BY <2>2, <2>3
<1> QED
  BY <1>6, <1>7, <1>8, <1>9

(* ------------------------------ insertion -------------------------------- *)

\* The first free slot comes in between a and b.
Inserted(l, m, a, b) ==
    LET t == l.freeBegin
        last == l.freeBegin = l.freeBack
    IN  /\ m \in Lists
        /\ \A x \in Index :
             /\ next(m, x) = IF x = t THEN b ELSE IF x = a THEN t ELSE next(l, x)
             /\ prev(m, x) = IF x = t THEN a ELSE IF x = b THEN t ELSE prev(l, x)
        /\ m.freeBegin = IF last THEN End ELSE l.next[t]
        /\ m.freeBack = IF last THEN End ELSE l.freeBack
        /\ m.cursize = l.cursize + 1 /\ m.alive = l.alive \cup {t}

\* x comes in at i, the later ones move up by one.
With(s, i, x) == SubSeq(s, 1, i - 1) \o <<x>> \o SubSeq(s, i, Len(s))

LEMMA InsertOne ==
  ASSUME NEW S, NEW s \in Seq(S), NEW x \in S, NEW i \in 1 .. Len(s) + 1
  PROVE  /\ With(s, i, x) \in Seq(S) /\ Len(With(s, i, x)) = Len(s) + 1
         /\ \A k \in 1 .. Len(s) + 1 :
              With(s, i, x)[k] = IF k < i THEN s[k] ELSE IF k = i THEN x ELSE s[k - 1]
<1> DEFINE n == Len(s)
           m == i - 1
           t == SubSeq(s, 1, m)
           u == SubSeq(s, i, n)
           one == <<x>>
<1>1. n \in Nat /\ i \in Nat /\ 1 <= i /\ i <= n + 1 /\ \A k \in 1 .. n : s[k] \in S
  BY Members
<1>2. t \in Seq(S) /\ Len(t) = m /\ \A k \in 1 .. m : t[k] = s[k]
  <2>1. m \in Int /\ m - 1 + 1 = m /\ (IF 1 <= m THEN m - 1 + 1 ELSE 0) = m
    BY <1>1
  <2>2. \A k \in 1 .. m : 1 + k - 1 = k /\ k \in 1 .. n
    BY <1>1
  <2> HIDE DEF m, n
  <2>3. /\ t \in Seq(S) /\ Len(t) = IF 1 <= m THEN m - 1 + 1 ELSE 0
        /\ \A k \in 1 .. m - 1 + 1 : t[k] = s[1 + k - 1]
    BY <1>1, <2>1, <2>2, SubSeqProperties
  <2> HIDE DEF t
  <2> QED
    BY <2>1, <2>2, <2>3
<1>3. u \in Seq(S) /\ Len(u) = n - m /\ \A k \in 1 .. n - m : u[k] = s[m + k]
  <2>1. i \in Int /\ n \in Int /\ n - i + 1 = n - m /\ (IF i <= n THEN n - i + 1 ELSE 0) = n - m
    BY <1>1
  <2>2. \A k \in i .. n : k \in 1 .. n
    BY <1>1
  <2>3. \A k \in 1 .. n - m : i + k - 1 = m + k
    BY <1>1
  <2> HIDE DEF n, m
  <2>4. /\ u \in Seq(S) /\ Len(u) = IF i <= n THEN n - i + 1 ELSE 0
        /\ \A k \in 1 .. n - i + 1 : u[k] = s[i + k - 1]
    BY <1>1, <2>1, <2>2, SubSeqProperties
  <2> HIDE DEF u
  <2> QED
    BY <2>1, <2>3, <2>4
<1>4. With(s, i, x) = t \o one \o u
  BY DEF With
<1>5. one \in Seq(S) /\ Len(one) = 1 /\ one[1] = x
  OBVIOUS
<1> HIDE DEF t, u, one
<1>6. m \in Nat /\ n - m \in Nat /\ m + 1 = i /\ i + (n - m) = n + 1
  BY <1>1
<1> DEFINE v == t \o one
<1>7. /\ v \in Seq(S) /\ Len(v) = i
      /\ \A k \in 1 .. i : v[k] = IF k <= m THEN t[k] ELSE one[k - m]
  <2> HIDE DEF m, n
  <2>1. /\ v \in Seq(S) /\ Len(v) = Len(t) + Len(one)
        /\ \A k \in 1 .. Len(t) + Len(one) : v[k] = IF k <= Len(t) THEN t[k] ELSE one[k - Len(t)]
    BY <1>2, <1>5, ConcatProperties
  <2> HIDE DEF v
  <2> QED
    BY <1>2, <1>5, <1>6, <2>1
<1> HIDE DEF v
<1>8. /\ v \o u \in Seq(S) /\ Len(v \o u) = n + 1
      /\ \A k \in 1 .. n + 1 : (v \o u)[k] = IF k <= i THEN v[k] ELSE u[k - i]
  <2> HIDE DEF m, n
  <2>1. /\ v \o u \in Seq(S) /\ Len(v \o u) = Len(v) + Len(u)
        /\ \A k \in 1 .. Len(v) + Len(u) : (v \o u)[k] = IF k <= Len(v) THEN v[k] ELSE u[k - Len(v)]
    BY <1>3, <1>7, ConcatProperties
  <2> QED
    BY <1>3, <1>6, <1>7, <2>1
<1>9. \A k \in 1 .. n + 1 : /\ k < i => k <= i /\ k <= m /\ k \in 1 .. m /\ k \in 1 .. i
                            /\ k = i => k <= i /\ ~(k <= m) /\ k - m = 1 /\ k \in 1 .. i
                            /\ ~(k < i) /\ k # i => ~(k <= i) /\ k - i \in 1 .. n - m /\ m + (k - i) = k - 1
  BY <1>1
<1> HIDE DEF m, n
<1>10. \A k \in 1 .. n + 1 : (v \o u)[k] = IF k < i THEN s[k] ELSE IF k = i THEN x ELSE s[k - 1]
  BY <1>2, <1>3, <1>5, <1>7, <1>8, <1>9
<1>11. With(s, i, x) = v \o u
  BY <1>4 DEF v
<1> QED
  BY <1>8, <1>10, <1>11 DEF n

LEMMA TailFacts ==
  ASSUME NEW f \in Seq(Slots), f # << >>
  PROVE  /\ Head(f) = f[1] /\ Tail(f) \in Seq(Slots) /\ Len(Tail(f)) = Len(f) - 1 /\ Len(f) \in Nat \ {0}
         /\ \A k \in 1 .. Len(f) - 1 : Tail(f)[k] = f[k + 1]
<1>1. Len(f) \in Nat /\ Len(f) # 0
  BY EmptySeq, LenProperties
<1> QED
  BY <1>1, HeadTailProperties

LEMMA Insertion ==
  ASSUME NEW l, NEW m, NEW u, NEW f, Rep(l, u, f), f # << >>, NEW i \in 1 .. Len(u) + 1,
         Inserted(l, m, At(u, i - 1), At(u, i))
  PROVE  Rep(m, With(u, i, Head(f)), Tail(f))
<1> DEFINE n == Len(u)
           t == Head(f)
           v == With(u, i, t)
           g == Tail(f)
           a == At(u, i - 1)
           b == At(u, i)
<1>1. l \in Lists /\ u \in Seq(Slots) /\ f \in Seq(Slots) /\ Apart(u, f) /\ Ring(l, u) /\ Queue(l, f)
      /\ l.cursize = Len(u) /\ l.alive = Range(u)
  BY DEF Rep
<1>2. /\ n \in Nat /\ At(u, 0) = End /\ At(u, n + 1) = End
      /\ \A k \in 1 .. n : u[k] \in Slots /\ u[k] # End /\ At(u, k) = u[k]
      /\ \A k \in Nat : At(u, k) \in Index
      /\ \A j, k \in 0 .. n : At(u, j) = At(u, k) => j = k
      /\ \A j, k \in 1 .. n + 1 : At(u, j) = At(u, k) => j = k
  BY <1>1, AtFacts DEF Apart
<1>3. /\ t = f[1] /\ g \in Seq(Slots) /\ Len(g) = Len(f) - 1 /\ Len(f) \in Nat \ {0}
      /\ \A k \in 1 .. Len(f) - 1 : g[k] = f[k + 1]
  BY <1>1, TailFacts
<1>4. /\ Len(f) \in Nat /\ At(f, Len(f) + 1) = End
      /\ \A k \in 1 .. Len(f) : f[k] \in Slots /\ f[k] # End /\ At(f, k) = f[k]
  BY <1>1, AtFacts
<1>5. 1 \in 1 .. Len(f) /\ t \in Slots /\ t # End /\ l.freeBegin = t /\ t \in Index
  BY <1>1, <1>3, <1>4 DEF Queue, Index
<1>6. /\ v \in Seq(Slots) /\ Len(v) = n + 1
      /\ \A k \in 1 .. n + 1 : v[k] = IF k < i THEN u[k] ELSE IF k = i THEN t ELSE u[k - 1]
  <2> HIDE DEF t
  <2>1. u \in Seq(Slots) /\ t \in Slots
    BY <1>1, <1>5
  <2>2. v \in Seq(Slots)
    BY <2>1, InsertOne
  <2>3. Len(v) = n + 1
    BY <2>1, InsertOne
  <2>4. \A k \in 1 .. n + 1 : v[k] = IF k < i THEN u[k] ELSE IF k = i THEN t ELSE u[k - 1]
    BY <2>1, InsertOne
  <2> QED
    BY <2>2, <2>3, <2>4
<1>7. /\ m \in Lists
      /\ \A x \in Index :
           /\ next(m, x) = IF x = t THEN b ELSE IF x = a THEN t ELSE next(l, x)
           /\ prev(m, x) = IF x = t THEN a ELSE IF x = b THEN t ELSE prev(l, x)
      /\ m.freeBegin = IF t = l.freeBack THEN End ELSE l.next[t]
      /\ m.freeBack = IF t = l.freeBack THEN End ELSE l.freeBack
      /\ m.cursize = l.cursize + 1 /\ m.alive = l.alive \cup {t}
  BY <1>5 DEF Inserted
<1>8. \A k \in 1 .. n : u[k] # t
  BY <1>1, <1>3, <1>5 DEF Apart
<1>9. \A k \in Nat : At(u, k) # t
  BY <1>5, <1>8 DEF At
<1>10. i \in Nat /\ i - 1 \in 0 .. n /\ i \in 1 .. n + 1 /\ i - 1 \in Nat
  BY <1>2
<1> HIDE DEF v, g, t, a, b, n
<1>11. \A k \in 0 .. n + 2 : At(v, k) = IF k < i THEN At(u, k) ELSE IF k = i THEN t ELSE At(u, k - 1)
  <2> SUFFICES ASSUME NEW k \in 0 .. n + 2
               PROVE  At(v, k) = IF k < i THEN At(u, k) ELSE IF k = i THEN t ELSE At(u, k - 1)
    OBVIOUS
  <2>1. CASE k = 0
    <3>1. k < i /\ k \notin 1 .. Len(v)
      BY <1>10, <2>1
    <3> QED
      BY <1>2, <2>1, <3>1 DEF At
  <2>2. CASE k = n + 2
    <3>1. ~(k < i) /\ k # i /\ k \notin 1 .. Len(v) /\ k - 1 = n + 1
      BY <1>2, <1>6, <1>10, <2>2
    <3> QED
      BY <1>2, <3>1 DEF At
  <2>3. CASE k # 0 /\ k # n + 2
    <3>1. k \in 1 .. n + 1 /\ k \in 1 .. Len(v)
      BY <1>2, <1>6, <2>3
    <3>2. At(v, k) = IF k < i THEN u[k] ELSE IF k = i THEN t ELSE u[k - 1]
      BY <1>6, <3>1 DEF At
    <3>3. (k < i => k \in 1 .. n) /\ (~(k < i) /\ k # i => k - 1 \in 1 .. n)
      BY <1>2, <1>10, <3>1
    <3> QED
      BY <1>2, <3>2, <3>3
  <2> QED
    BY <2>1, <2>2, <2>3
<1>12. Ring(m, v)
  <2> SUFFICES ASSUME NEW k \in 0 .. n + 1
               PROVE  next(m, At(v, k)) = At(v, k + 1) /\ prev(m, At(v, k + 1)) = At(v, k)
    BY <1>6 DEF Ring
  <2>1. k \in 0 .. n + 2 /\ k + 1 \in 0 .. n + 2 /\ k \in Nat
    BY <1>2
  <2>2. /\ At(v, k) = IF k < i THEN At(u, k) ELSE IF k = i THEN t ELSE At(u, k - 1)
        /\ At(v, k + 1) = IF k + 1 < i THEN At(u, k + 1) ELSE IF k + 1 = i THEN t ELSE At(u, k + 1 - 1)
    BY <1>11, <2>1
  <2>3. \A j \in 0 .. n : /\ next(l, At(u, j)) = At(u, j + 1) /\ prev(l, At(u, j + 1)) = At(u, j)
                          /\ At(u, j) \in Index /\ At(u, j + 1) \in Index /\ At(u, j) # t /\ At(u, j + 1) # t
    BY <1>1, <1>2, <1>9 DEF Ring, n
  <2>4. a \in Index /\ b \in Index /\ a # t /\ b # t
    BY <1>2, <1>9, <1>10 DEF a, b
  <2>5. CASE k + 1 < i
    <3>1. k < i /\ k \in 0 .. n /\ k # i - 1 /\ k + 1 \in 1 .. n + 1 /\ k + 1 # i
      BY <1>2, <1>10, <2>5
    <3>2. At(u, k) # a /\ At(u, k + 1) # b
      BY <1>2, <1>10, <3>1 DEF a, b
    <3> QED
      BY <1>7, <2>2, <2>3, <2>5, <3>1, <3>2
  <2>6. CASE k + 1 = i
    <3>1. k < i /\ k \in 0 .. n /\ k = i - 1 /\ ~(k + 1 < i)
      BY <1>2, <1>10, <2>6
    <3>2. At(v, k) = a /\ At(v, k + 1) = t
      BY <2>2, <2>6, <3>1 DEF a
    <3> QED
      BY <1>5, <1>7, <2>4, <3>2
  <2>7. CASE k = i
    <3>1. ~(k < i) /\ ~(k + 1 < i) /\ k + 1 # i /\ k + 1 - 1 = i
      BY <1>10, <2>7
    <3>2. At(v, k) = t /\ At(v, k + 1) = b
      BY <2>2, <2>7, <3>1 DEF b
    <3> QED
      BY <1>5, <1>7, <2>4, <3>2
  <2>8. CASE k > i
    <3> DEFINE j == k - 1
    <3>1. ~(k < i) /\ k # i /\ ~(k + 1 < i) /\ k + 1 # i /\ k + 1 - 1 = j + 1 /\ j \in 0 .. n /\ j # i - 1
          /\ j + 1 \in 1 .. n + 1 /\ j + 1 # i
      BY <1>2, <1>10, <2>8
    <3>2. At(v, k) = At(u, j) /\ At(v, k + 1) = At(u, j + 1)
      BY <2>2, <3>1
    <3> HIDE DEF j
    <3>3. At(u, j) # a /\ At(u, j + 1) # b
      BY <1>2, <1>10, <3>1 DEF a, b
    <3> QED
      BY <1>7, <2>3, <3>1, <3>2, <3>3
  <2> QED
    BY <1>10, <2>1, <2>5, <2>6, <2>7, <2>8
<1>13. Apart(v, g)
  <2>1. Len(v) + Len(g) = MAX
    <3>1. n + Len(f) = MAX /\ Len(v) = n + 1 /\ Len(g) = Len(f) - 1
      BY <1>1, <1>3, <1>6 DEF Apart, n
    <3> QED
      BY <1>2, <1>3, <3>1
  <2>2. Injective(v)
    <3> SUFFICES ASSUME NEW j \in 1 .. n + 1, NEW k \in 1 .. n + 1, v[j] = v[k]
                 PROVE  j = k
      BY <1>6 DEF Injective
    <3>1. \A x \in 1 .. n + 1 : (x < i => x \in 1 .. n) /\ (~(x < i) /\ x # i => x - 1 \in 1 .. n)
      BY <1>2, <1>10
    <3>2. \A x, y \in 1 .. n : u[x] = u[y] => x = y
      BY <1>1 DEF Apart, Injective, n
    <3> QED
      BY <1>6, <1>8, <1>10, <3>1, <3>2
  <2>3. Injective(g)
    <3>1. \A k \in 1 .. Len(f) - 1 : k + 1 \in 1 .. Len(f)
      BY <1>3
    <3>2. \A x, y \in 1 .. Len(f) : f[x] = f[y] => x = y
      BY <1>1 DEF Apart, Injective
    <3> QED
      BY <1>3, <3>1, <3>2 DEF Injective
  <2>4. \A j \in 1 .. Len(v), k \in 1 .. Len(g) : v[j] # g[k]
    <3> SUFFICES ASSUME NEW j \in 1 .. n + 1, NEW k \in 1 .. Len(f) - 1
                 PROVE  v[j] # f[k + 1]
      <4>1. Len(v) = n + 1 /\ Len(g) = Len(f) - 1 /\ \A k \in 1 .. Len(f) - 1 : g[k] = f[k + 1]
        BY <1>3, <1>6
      <4> QED
        BY <4>1, Zenon
    <3>1. k + 1 \in 1 .. Len(f) /\ k + 1 # 1
      BY <1>3
    <3>2. (j < i => j \in 1 .. n) /\ (~(j < i) /\ j # i => j - 1 \in 1 .. n)
      BY <1>2, <1>10
    <3>3. t # f[k + 1]
      BY <1>1, <1>3, <1>5, <3>1 DEF Apart, Injective
    <3>4. \A x \in 1 .. n : u[x] # f[k + 1]
      BY <1>1, <3>1 DEF Apart, n
    <3> QED
      BY <1>6, <3>2, <3>3, <3>4
  <2>5. ASSUME NEW x \in Slots
        PROVE  \/ \E j \in 1 .. Len(v) : x = v[j]
               \/ \E k \in 1 .. Len(g) : x = g[k]
    <3>1. CASE \E j \in 1 .. n : x = u[j]
      <4>1. PICK j \in 1 .. n : x = u[j]
        BY <3>1
      <4>2. j \in 1 .. n + 1 /\ j + 1 \in 1 .. n + 1 /\ j + 1 - 1 = j /\ (~(j < i) => ~(j + 1 < i) /\ j + 1 # i)
        BY <1>2, <1>10
      <4>3. x = v[j] \/ x = v[j + 1]
        BY <1>6, <4>1, <4>2, SMTT(30)
      <4> QED
        BY <1>6, <4>2, <4>3
    <3>2. CASE \E k \in 1 .. Len(f) : x = f[k]
      <4>1. PICK k \in 1 .. Len(f) : x = f[k]
        BY <3>2
      <4>2. CASE k = 1
        <5>1. x = v[i] /\ i \in 1 .. Len(v)
          BY <1>3, <1>6, <1>10, <4>1, <4>2
        <5> QED
          BY <5>1
      <4>3. CASE k # 1
        <5>1. k - 1 \in 1 .. Len(f) - 1 /\ k - 1 + 1 = k
          BY <1>3, <4>1, <4>3
        <5>2. x = g[k - 1] /\ k - 1 \in 1 .. Len(g)
          BY <1>3, <4>1, <5>1
        <5> QED
          BY <5>2
      <4> QED
        BY <4>2, <4>3
    <3> QED
      BY <1>1, <3>1, <3>2 DEF Apart, n
  <2> QED
    BY <2>1, <2>2, <2>3, <2>4, <2>5 DEF Apart
<1>14. Queue(m, g)
  <2> DEFINE p == Len(f)
  <2>1. l.freeBack = f[p] /\ p \in 1 .. p /\ \A k \in 1 .. p - 1 : l.next[f[k]] = f[k + 1]
    BY <1>1, <1>3, <1>4 DEF Queue
  <2>2. t = l.freeBack <=> p = 1
    <3>1. f[1] = f[p] => p = 1
      BY <1>1, <1>5, <2>1 DEF Apart, Injective
    <3> QED
      BY <1>3, <2>1, <3>1
  <2>3. m.freeBegin = At(g, 1)
    <3>1. CASE p = 1
      <4>1. 1 \notin 1 .. Len(g)
        BY <1>3, <3>1
      <4> QED
        BY <1>7, <2>2, <3>1, <4>1 DEF At
    <3>2. CASE p # 1
      <4>1. 1 \in 1 .. p - 1
        BY <1>3, <3>2
      <4>2. At(g, 1) = f[1 + 1] /\ l.next[t] = f[1 + 1]
        BY <1>3, <2>1, <4>1 DEF At
      <4> QED
        BY <1>7, <2>2, <3>2, <4>2
    <3> QED
      BY <3>1, <3>2
  <2>4. m.freeBack = At(g, Len(g))
    <3>1. CASE p = 1
      <4>1. Len(g) \notin 1 .. Len(g)
        BY <1>3, <3>1
      <4> QED
        BY <1>7, <2>2, <3>1, <4>1 DEF At
    <3>2. CASE p # 1
      <4>1. p - 1 \in 1 .. p - 1 /\ p - 1 + 1 = p
        BY <1>3, <3>2
      <4>2. At(g, Len(g)) = f[p]
        BY <1>3, <4>1 DEF At
      <4> QED
        BY <1>7, <2>1, <2>2, <3>2, <4>2
    <3> QED
      BY <3>1, <3>2
  <2>5. ASSUME NEW k \in 1 .. Len(g) - 1
        PROVE  m.next[g[k]] = g[k + 1]
    <3>1. k \in 1 .. p - 1 /\ k + 1 \in 1 .. p - 1 /\ k + 1 \in 1 .. p /\ 1 # k + 1
      BY <1>3
    <3>2. g[k] = f[k + 1] /\ g[k + 1] = f[k + 1 + 1] /\ l.next[f[k + 1]] = f[k + 1 + 1]
      BY <1>3, <2>1, <3>1
    <3>3. f[k + 1] \in Slots /\ f[k + 1] # End /\ f[k + 1] # t
      BY <1>1, <1>3, <1>4, <1>5, <3>1 DEF Apart, Injective
    <3>4. f[k + 1] # a
      <4>1. \A x \in 1 .. n : u[x] # f[k + 1]
        BY <1>1, <3>1 DEF Apart, n
      <4> QED
        BY <3>3, <4>1 DEF a, At, n
    <3>5. next(m, f[k + 1]) = next(l, f[k + 1])
      BY <1>7, <3>3, <3>4 DEF Index
    <3> QED
      BY <3>2, <3>3, <3>5 DEF next
  <2> QED
    BY <2>3, <2>4, <2>5 DEF Queue
<1>15. m.alive = Range(v) /\ m.cursize = Len(v)
  <2>1. /\ Range(u) = {u[k] : k \in 1 .. n} /\ Range(v) = {v[k] : k \in 1 .. n + 1}
    BY <1>1, <1>6, Members DEF n
  <2>2. \A k \in 1 .. n + 1 : (k < i => k \in 1 .. n) /\ (~(k < i) /\ k # i => k - 1 \in 1 .. n)
    BY <1>2, <1>10
  <2>3. \A x : x \in Range(v) => x \in Range(u) \cup {t}
    BY <1>6, <2>1, <2>2
  <2>4. ASSUME NEW k \in 1 .. n
        PROVE  u[k] \in Range(v)
    <3>1. k \in 1 .. n + 1 /\ k + 1 \in 1 .. n + 1 /\ k + 1 - 1 = k /\ (~(k < i) => ~(k + 1 < i) /\ k + 1 # i)
      BY <1>2, <1>10
    <3>2. u[k] = v[k] \/ u[k] = v[k + 1]
      BY <1>6, <3>1
    <3> QED
      BY <2>1, <3>1, <3>2
  <2>5. t \in Range(v)
    <3>1. v[i] = t
      BY <1>6, <1>10
    <3> QED
      BY <1>10, <2>1, <3>1
  <2>6. Range(v) = Range(u) \cup {t}
    BY <2>1, <2>3, <2>4, <2>5
  <2> QED
    BY <1>1, <1>6, <1>7, <2>6 DEF n
<1>16. Rep(m, v, g)
  BY <1>3, <1>6, <1>7, <1>12, <1>13, <1>14, <1>15 DEF Rep
<1> QED
  BY <1>16 DEF v, g, t

SameRest(l, m) == /\ m.freeBegin = l.freeBegin /\ m.freeBack = l.freeBack
                  /\ m.cursize = l.cursize /\ m.alive = l.alive
LEMMA SetPrevFacts ==
  ASSUME NEW l \in Lists, NEW x \in Index, NEW v \in Index
  PROVE  /\ SetPrev(l, x, v) \in Lists /\ SameRest(l, SetPrev(l, x, v))
         /\ \A y \in Index : /\ prev(SetPrev(l, x, v), y) = IF y = x THEN v ELSE prev(l, y)
                             /\ next(SetPrev(l, x, v), y) = next(l, y)
<1> DEFINE m == SetPrev(l, x, v)
<1>1. m \in Lists /\ SameRest(l, m) /\ m.next = l.next /\ m.activeBegin = l.activeBegin
  BY DEF SetPrev, Lists, Index, SameRest
<1>2. \A y \in Index : prev(m, y) = IF y = x THEN v ELSE prev(l, y)
  BY DEF SetPrev, Lists, Index, prev
<1>3. \A y \in Index : next(m, y) = next(l, y)
  BY <1>1 DEF next
<1> QED
  BY <1>1, <1>2, <1>3

LEMMA SetNextFacts ==
  ASSUME NEW l \in Lists, NEW x \in Index, NEW v \in Index
  PROVE  /\ SetNext(l, x, v) \in Lists /\ SameRest(l, SetNext(l, x, v))
         /\ \A y \in Index : /\ next(SetNext(l, x, v), y) = IF y = x THEN v ELSE next(l, y)
                             /\ prev(SetNext(l, x, v), y) = prev(l, y)
<1> DEFINE m == SetNext(l, x, v)
<1>1. m \in Lists /\ SameRest(l, m) /\ m.prev = l.prev /\ m.activeBack = l.activeBack
  BY DEF SetNext, Lists, Index, SameRest
<1>2. \A y \in Index : next(m, y) = IF y = x THEN v ELSE next(l, y)
  BY DEF SetNext, Lists, Index, next
<1>3. \A y \in Index : prev(m, y) = prev(l, y)
  BY <1>1 DEF prev
<1> QED
  BY <1>1, <1>2, <1>3

\* Links at the two ends of different slots are set in either order.
LEMMA SetEither ==
  ASSUME NEW l \in Lists, NEW x \in Index, NEW v \in Index, NEW y \in Index, NEW w \in Index
  PROVE  SetPrev(SetNext(l, x, v), y, w) = SetNext(SetPrev(l, y, w), x, v)
  BY DEF SetPrev, SetNext, Lists, Index

\* t goes in between a and b.
Splice(m, t, a, b) == SetNext(SetPrev(SetNext(SetPrev(m, t, a), t, b), b, t), a, t)

LEMMA SpliceFacts ==
  ASSUME NEW m \in Lists, NEW t \in Slots, NEW a \in Index, NEW b \in Index
  PROVE  /\ Splice(m, t, a, b) \in Lists /\ SameRest(m, Splice(m, t, a, b))
         /\ a # t /\ b # t => \A x \in Index :
              /\ next(Splice(m, t, a, b), x) = IF x = t THEN b ELSE IF x = a THEN t ELSE next(m, x)
              /\ prev(Splice(m, t, a, b), x) = IF x = t THEN a ELSE IF x = b THEN t ELSE prev(m, x)
<1> DEFINE m1 == SetPrev(m, t, a)
           m2 == SetNext(m1, t, b)
           m3 == SetPrev(m2, b, t)
           m4 == SetNext(m3, a, t)
<1>0. t \in Index
  BY DEF Index
<1>1. /\ m1 \in Lists /\ SameRest(m, m1)
      /\ \A y \in Index : prev(m1, y) = (IF y = t THEN a ELSE prev(m, y)) /\ next(m1, y) = next(m, y)
  BY <1>0, SetPrevFacts
<1> HIDE DEF m1
<1>2. /\ m2 \in Lists /\ SameRest(m1, m2)
      /\ \A y \in Index : next(m2, y) = (IF y = t THEN b ELSE next(m1, y)) /\ prev(m2, y) = prev(m1, y)
  BY <1>0, <1>1, SetNextFacts
<1> HIDE DEF m2
<1>3. /\ m3 \in Lists /\ SameRest(m2, m3)
      /\ \A y \in Index : prev(m3, y) = (IF y = b THEN t ELSE prev(m2, y)) /\ next(m3, y) = next(m2, y)
  BY <1>0, <1>2, SetPrevFacts
<1> HIDE DEF m3
<1>4. /\ m4 \in Lists /\ SameRest(m3, m4)
      /\ \A y \in Index : next(m4, y) = (IF y = a THEN t ELSE next(m3, y)) /\ prev(m4, y) = prev(m3, y)
  BY <1>0, <1>3, SetNextFacts
<1> HIDE DEF m4
<1>5. SameRest(m, m4)
  BY <1>1, <1>2, <1>3, <1>4 DEF SameRest
<1>6. Splice(m, t, a, b) = m4
  BY DEF Splice, m1, m2, m3, m4
<1> QED
  BY <1>1, <1>2, <1>3, <1>4, <1>5, <1>6

\* Taking the first slot out of the free queue changes no link.
LEMMA PopFacts ==
  ASSUME NEW l, NEW u, NEW f, Rep(l, u, f), f # << >>
  PROVE  /\ pop_free(l) \in Lists /\ l.freeBegin = Head(f) /\ Head(f) \in Slots
         /\ pop_free(l).next = l.next /\ pop_free(l).prev = l.prev
         /\ pop_free(l).activeBegin = l.activeBegin /\ pop_free(l).activeBack = l.activeBack
         /\ \A x \in Index : next(pop_free(l), x) = next(l, x) /\ prev(pop_free(l), x) = prev(l, x)
         /\ pop_free(l).freeBegin = IF l.freeBegin = l.freeBack THEN End ELSE l.next[l.freeBegin]
         /\ pop_free(l).freeBack = IF l.freeBegin = l.freeBack THEN End ELSE l.freeBack
         /\ pop_free(l).cursize = l.cursize + 1
         /\ pop_free(l).alive = l.alive \cup {l.freeBegin}
         /\ \A k \in Nat : At(u, k) # Head(f)
<1>1. l \in Lists /\ u \in Seq(Slots) /\ f \in Seq(Slots) /\ Apart(u, f) /\ Queue(l, f) /\ l.cursize = Len(u)
  BY DEF Rep
<1>2. f[1] \in Slots /\ f[1] # End /\ 1 \in 1 .. Len(f) /\ Head(f) = f[1] /\ l.freeBegin = f[1]
      /\ Len(f) \in Nat \ {0} /\ Len(u) \in Nat
  <2>1. Len(f) \in Nat \ {0} /\ Head(f) = f[1]
    BY <1>1, TailFacts
  <2>2. 1 \in 1 .. Len(f)
    BY <2>1
  <2> QED
    BY <1>1, <2>1, <2>2, AtFacts DEF Queue
<1>3. l.cursize + 1 \in 0 .. MAX
  <2>1. Len(u) + Len(f) = MAX
    BY <1>1 DEF Apart
  <2> QED
    BY <1>1, <1>2, <2>1
<1> DEFINE m == pop_free(l)
<1>4. m = [l EXCEPT !.freeBegin = IF l.freeBegin = l.freeBack THEN End ELSE l.next[l.freeBegin],
                    !.freeBack = IF l.freeBegin = l.freeBack THEN End ELSE l.freeBack,
                    !.cursize = l.cursize + 1,
                    !.alive = l.alive \cup {l.freeBegin}]
  BY <1>1 DEF pop_free, Lists
<1> HIDE DEF m
<1>5. /\ m.next = l.next /\ m.prev = l.prev
      /\ m.activeBegin = l.activeBegin /\ m.activeBack = l.activeBack
      /\ m.freeBegin = IF l.freeBegin = l.freeBack THEN End ELSE l.next[l.freeBegin]
      /\ m.freeBack = IF l.freeBegin = l.freeBack THEN End ELSE l.freeBack
      /\ m.cursize = l.cursize + 1
      /\ m.alive = l.alive \cup {l.freeBegin}
  BY <1>1, <1>4 DEF Lists
<1>6. m \in Lists
  BY <1>1, <1>2, <1>3, <1>4 DEF Lists, Index
<1>7. \A x \in Index : next(m, x) = next(l, x) /\ prev(m, x) = prev(l, x)
  BY <1>5 DEF next, prev
<1>8. \A k \in Nat : At(u, k) # Head(f)
  BY <1>1, <1>2 DEF Apart, At
<1> QED
  BY <1>2, <1>5, <1>6, <1>7, <1>8 DEF m

\* A free slot spliced in at position i.
LEMMA SplicedIn ==
  ASSUME NEW l, NEW u, NEW f, Rep(l, u, f), f # << >>, NEW i \in 1 .. Len(u) + 1
  PROVE  Rep(Splice(pop_free(l), l.freeBegin, At(u, i - 1), At(u, i)), With(u, i, Head(f)), Tail(f))
<1> DEFINE m == pop_free(l)
           t == l.freeBegin
           a == At(u, i - 1)
           b == At(u, i)
           s == Splice(m, t, a, b)
<1>1. /\ m \in Lists /\ t \in Slots
      /\ \A x \in Index : next(m, x) = next(l, x) /\ prev(m, x) = prev(l, x)
      /\ m.freeBegin = IF t = l.freeBack THEN End ELSE l.next[t]
      /\ m.freeBack = IF t = l.freeBack THEN End ELSE l.freeBack
      /\ m.cursize = l.cursize + 1
      /\ m.alive = l.alive \cup {t}
      /\ \A k \in Nat : At(u, k) # t
  BY PopFacts
<1>2. i \in Nat /\ i - 1 \in Nat
  BY AtFacts DEF Rep
<1>3. a \in Index /\ b \in Index /\ a # t /\ b # t
  BY <1>1, <1>2, AtFacts DEF Rep
<1> HIDE DEF m, a, b, t
<1>4. /\ s \in Lists /\ SameRest(m, s)
      /\ \A x \in Index :
           /\ next(s, x) = IF x = t THEN b ELSE IF x = a THEN t ELSE next(m, x)
           /\ prev(s, x) = IF x = t THEN a ELSE IF x = b THEN t ELSE prev(m, x)
  BY <1>1, <1>3, SpliceFacts
<1> HIDE DEF s
<1>5. Inserted(l, s, a, b)
  BY <1>1, <1>4 DEF Inserted, SameRest, t
<1>6. Rep(s, With(u, i, Head(f)), Tail(f))
  BY <1>5, Insertion DEF a, b
<1> QED
  BY <1>6 DEF s, m, t, a, b

LEMMA NewFront ==
  ASSUME NEW l, NEW u, NEW f, Rep(l, u, f), f # << >>
  PROVE  Rep(new_front(l), With(u, 1, Head(f)), Tail(f))
<1> DEFINE m == pop_free(l)
           t == l.freeBegin
           b == m.activeBegin
           r == SetNext(SetPrev(m, t, End), t, b)
<1>1. m \in Lists /\ t \in Slots /\ b = l.activeBegin
  BY PopFacts
<1>2. u \in Seq(Slots) /\ l.activeBegin = At(u, 1) /\ At(u, 1) \in Index
  BY RingLinks, AtFacts DEF Rep
<1>3. End \in Index /\ b \in Index
  BY <1>1, <1>2 DEF Index
<1> HIDE DEF m, t, b
<1>4. [m EXCEPT !.prev[t] = End, !.next[t] = b] = r
  <2>1. t # End
    BY <1>1, MaxAssumption DEF Slots, End
  <2> QED
    BY <1>1, <1>3, <2>1 DEF SetNext, SetPrev, Lists
<1>5. new_front(l) = [SetPrev([m EXCEPT !.prev[t] = End, !.next[t] = b], b, t) EXCEPT !.activeBegin = t]
  BY DEF new_front, m, t, b
<1>6. new_front(l) = Splice(m, t, End, b)
  BY <1>4, <1>5 DEF Splice, SetNext
<1>7. At(u, 1 - 1) = End /\ At(u, 1) = b /\ 1 \in 1 .. Len(u) + 1
  BY <1>1, <1>2, AtFacts
<1>8. Rep(Splice(m, t, At(u, 1 - 1), At(u, 1)), With(u, 1, Head(f)), Tail(f))
  BY <1>7, SplicedIn DEF m, t
<1> QED
  BY <1>6, <1>7, <1>8

LEMMA NewBack ==
  ASSUME NEW l, NEW u, NEW f, Rep(l, u, f), f # << >>
  PROVE  Rep(new_back(l), With(u, Len(u) + 1, Head(f)), Tail(f))
<1> DEFINE m == pop_free(l)
           t == l.freeBegin
           a == m.activeBack
           r == SetNext(SetPrev(m, t, a), t, End)
<1>1. m \in Lists /\ t \in Slots /\ a = l.activeBack
  BY PopFacts
<1>2. u \in Seq(Slots) /\ l.activeBack = At(u, Len(u)) /\ At(u, Len(u)) \in Index /\ Len(u) \in Nat
  BY RingLinks, AtFacts DEF Rep
<1>3. End \in Index /\ a \in Index /\ t \in Index
  BY <1>1, <1>2 DEF Index
<1> HIDE DEF m, t, a
<1>4. [m EXCEPT !.prev[t] = a, !.next[t] = End] = r
  <2>1. t # End
    BY <1>1, MaxAssumption DEF Slots, End
  <2> QED
    BY <1>1, <1>3, <2>1 DEF SetNext, SetPrev, Lists
<1>5. new_back(l) = [SetNext([m EXCEPT !.prev[t] = a, !.next[t] = End], a, t) EXCEPT !.activeBack = t]
  BY DEF new_back, m, t, a
<1>6. new_back(l) = SetPrev(SetNext(r, a, t), End, t)
  BY <1>4, <1>5 DEF SetPrev
<1>7. SetPrev(m, t, a) \in Lists
  BY <1>1, <1>3, SetPrevFacts
<1>8. r \in Lists
  <2> HIDE DEF r
  <2>1. SetNext(SetPrev(m, t, a), t, End) \in Lists
    BY <1>3, <1>7, SetNextFacts
  <2> QED
    BY <2>1 DEF r
<1> HIDE DEF r
<1>9. SetPrev(SetNext(r, a, t), End, t) = SetNext(SetPrev(r, End, t), a, t)
  BY <1>3, <1>8, SetEither
<1>10. new_back(l) = Splice(m, t, a, End)
  BY <1>6, <1>9 DEF Splice, r
<1> DEFINE i == Len(u) + 1
<1>11. At(u, i - 1) = a /\ At(u, i) = End /\ i \in 1 .. Len(u) + 1
  <2>1. i - 1 = Len(u) /\ i \in 1 .. Len(u) + 1
    BY <1>2
  <2> QED
    BY <1>1, <1>2, <2>1, AtFacts
<1>12. Rep(Splice(m, t, At(u, i - 1), At(u, i)), With(u, i, Head(f)), Tail(f))
  BY <1>11, SplicedIn DEF m, t
<1> QED
  BY <1>10, <1>11, <1>12

\* A slot in the list has its position.
LEMMA PlaceOf ==
  ASSUME NEW l, NEW u, NEW f, Rep(l, u, f), NEW x \in Range(u)
  PROVE  \E i \in 1 .. Len(u) : /\ x = u[i] /\ x = At(u, i) /\ x \in Slots /\ x # End
                                /\ l.prev[x] = At(u, i - 1) /\ l.next[x] = At(u, i + 1)
<1>1. u \in Seq(Slots) /\ Ring(l, u)
  BY DEF Rep
<1>2. PICK i \in 1 .. Len(u) : x = u[i]
  BY <1>1, Members
<1> QED
  BY <1>1, <1>2, RingLinks, AtFacts

\* A position, or that behind the last one, is told from what is there.
LEMMA SamePlace ==
  ASSUME NEW u \in Seq(Slots), Injective(u), NEW i \in 1 .. Len(u) + 1, NEW j \in 1 .. Len(u) + 1,
         At(u, i) = At(u, j)
  PROVE  i = j
<1>1. Len(u) \in Nat /\ \A k \in 1 .. Len(u) : At(u, k) = u[k] /\ u[k] # End
  BY AtFacts
<1>2. \A k \in 1 .. Len(u) + 1 : k \in 1 .. Len(u) \/ k = Len(u) + 1
  BY <1>1
<1>3. At(u, Len(u) + 1) = End
  BY <1>1 DEF At
<1>4. CASE i \in 1 .. Len(u) /\ j \in 1 .. Len(u)
  BY <1>1, <1>4 DEF Injective
<1>5. CASE i = Len(u) + 1 \/ j = Len(u) + 1
  BY <1>1, <1>2, <1>3, <1>5
<1> QED
  BY <1>2, <1>4, <1>5

LEMMA NewBefore ==
  ASSUME NEW l, NEW u, NEW f, Rep(l, u, f), f # << >>, NEW x \in Range(u) \cup {End}
  PROVE  \E i \in 1 .. Len(u) + 1 :
           x = At(u, i) /\ Rep(new_before(l, x), With(u, i, Head(f)), Tail(f))
<1>1. u \in Seq(Slots) /\ Len(u) \in Nat /\ 1 \in 1 .. Len(u) + 1 /\ Len(u) + 1 \in 1 .. Len(u) + 1
  BY AtFacts DEF Rep
<1>2. CASE x = End
  <2>1. At(u, Len(u) + 1) = End
    BY <1>1 DEF At
  <2> QED
    BY <1>1, <1>2, <2>1, NewBack DEF new_before
<1>3. CASE x # End /\ l.prev[x] = End
  <2>1. PICK i \in 1 .. Len(u) : x = At(u, i) /\ l.prev[x] = At(u, i - 1)
    BY <1>3, PlaceOf
  <2>2. i = 1
    <3>1. i # 1 => i - 1 \in 1 .. Len(u) /\ i - 1 \in Nat
      BY <1>1
    <3> QED
      BY <1>1, <1>3, <2>1, <3>1, AtFacts
  <2> QED
    BY <1>1, <1>3, <2>1, <2>2, NewFront DEF new_before
<1>4. CASE x # End /\ l.prev[x] # End
  <2> DEFINE m == pop_free(l)
             t == l.freeBegin
             a == m.prev[x]
  <2>1. m \in Lists /\ t \in Slots /\ a = l.prev[x]
    BY PopFacts
  <2>2. PICK i \in 1 .. Len(u) : x = At(u, i) /\ x \in Slots /\ l.prev[x] = At(u, i - 1)
    BY <1>4, PlaceOf
  <2>3. i \in 1 .. Len(u) + 1 /\ i - 1 \in Nat
    BY <1>1
  <2>4. a \in Index /\ a # End /\ x \in Index
    BY <1>1, <1>4, <2>1, <2>2, <2>3, AtFacts DEF Index
  <2>5. new_before(l, x) = [m EXCEPT !.next[t] = x, !.prev[t] = a, !.prev[x] = t, !.next[a] = t]
    BY <1>4 DEF new_before
  <2>6. t # End
    BY <2>1, MaxAssumption DEF Slots, End
  <2> HIDE DEF m, t, a
  <2>7. new_before(l, x) = Splice(m, t, a, x)
    BY <1>4, <2>1, <2>4, <2>5, <2>6 DEF Splice, SetNext, SetPrev, Lists
  <2>8. Rep(Splice(m, t, At(u, i - 1), At(u, i)), With(u, i, Head(f)), Tail(f))
    BY <2>3, SplicedIn DEF m, t
  <2> QED
    BY <2>1, <2>2, <2>3, <2>7, <2>8
<1> QED
  BY <1>2, <1>3, <1>4

LEMMA NewAfter ==
  ASSUME NEW l, NEW u, NEW f, Rep(l, u, f), f # << >>, NEW x \in Range(u) \cup {End}
  PROVE  \E i \in 1 .. Len(u) + 1 :
           x = At(u, i - 1) /\ Rep(new_after(l, x), With(u, i, Head(f)), Tail(f))
<1>1. u \in Seq(Slots) /\ Ring(l, u) /\ Len(u) \in Nat /\ Injective(u)
  BY AtFacts DEF Rep, Apart
<1>2. \A k \in Nat : At(u, k) \in Range(u) \cup {End}
  BY <1>1, Members DEF At
<1>3. PICK j \in 0 .. Len(u) : x = At(u, j) /\ next(l, x) = At(u, j + 1)
  <2>1. CASE x = End
    <3>1. At(u, 0) = End /\ 0 \in 0 .. Len(u) /\ 0 + 1 = 1
      BY <1>1 DEF At
    <3> QED
      BY <1>1, <2>1, <3>1, RingLinks DEF next
  <2>2. CASE x # End
    <3>1. PICK i \in 1 .. Len(u) : x = At(u, i) /\ l.next[x] = At(u, i + 1)
      BY <2>2, PlaceOf
    <3>2. i \in 0 .. Len(u)
      BY <1>1
    <3> QED
      BY <2>2, <3>1, <3>2 DEF next
  <2> QED
    BY <2>1, <2>2
<1>4. j + 1 \in Nat /\ next(l, x) \in Range(u) \cup {End}
  BY <1>1, <1>2, <1>3
<1>5. PICK i \in 1 .. Len(u) + 1 : /\ next(l, x) = At(u, i)
                                  /\ Rep(new_after(l, x), With(u, i, Head(f)), Tail(f))
  BY <1>4, NewBefore DEF new_after
<1>6. i - 1 = j
  <2>1. j + 1 \in 1 .. Len(u) + 1 /\ At(u, j + 1) = At(u, i)
    BY <1>1, <1>3, <1>5
  <2>2. i = j + 1
    BY <1>1, <2>1, SamePlace
  <2> QED
    BY <1>1, <2>2
<1> QED
  BY <1>3, <1>5, <1>6

(* ------------------------------- removal --------------------------------- *)

\* t goes from between a and b to the back of the free queue.
Removed(l, m, a, b, t) ==
    /\ m \in Lists
    /\ \A x \in Index \ {t} :
         /\ x = End \/ x # l.freeBack => next(m, x) = IF x = a THEN b ELSE next(l, x)
         /\ prev(m, x) = IF x = b THEN a ELSE prev(l, x)
    /\ l.freeBack # End => m.next[l.freeBack] = t
    /\ m.freeBegin = IF l.freeBack = End THEN t ELSE l.freeBegin
    /\ m.freeBack = t
    /\ m.cursize = l.cursize - 1 /\ m.alive = l.alive \ {t}

\* The i-th goes, the later ones move down by one.
Without(s, i) == SubSeq(s, 1, i - 1) \o SubSeq(s, i + 1, Len(s))

LEMMA RemoveOne ==
  ASSUME NEW S, NEW s \in Seq(S), NEW i \in 1 .. Len(s)
  PROVE  /\ Without(s, i) \in Seq(S) /\ Len(Without(s, i)) = Len(s) - 1
         /\ \A k \in 1 .. Len(s) - 1 : Without(s, i)[k] = IF k < i THEN s[k] ELSE s[k + 1]
<1> DEFINE n == Len(s)
           m == i - 1
           j == i + 1
           t == SubSeq(s, 1, m)
           u == SubSeq(s, j, n)
<1>1. n \in Nat /\ i \in Nat /\ 1 <= i /\ i <= n /\ \A k \in 1 .. n : s[k] \in S
  BY Members
<1>2. t \in Seq(S) /\ Len(t) = m /\ \A k \in 1 .. m : t[k] = s[k]
  <2>1. m \in Int /\ m - 1 + 1 = m /\ (IF 1 <= m THEN m - 1 + 1 ELSE 0) = m
    BY <1>1
  <2>2. \A k \in 1 .. m : 1 + k - 1 = k /\ k \in 1 .. n
    BY <1>1
  <2> HIDE DEF m, n
  <2>3. /\ t \in Seq(S) /\ Len(t) = IF 1 <= m THEN m - 1 + 1 ELSE 0
        /\ \A k \in 1 .. m - 1 + 1 : t[k] = s[1 + k - 1]
    BY <1>1, <2>1, <2>2, SubSeqProperties
  <2> HIDE DEF t
  <2> QED
    BY <2>1, <2>2, <2>3
<1>3. u \in Seq(S) /\ Len(u) = n - i /\ \A k \in 1 .. n - i : u[k] = s[i + k]
  <2>1. j \in Int /\ n \in Int /\ n - j + 1 = n - i /\ (IF j <= n THEN n - j + 1 ELSE 0) = n - i
    BY <1>1
  <2>2. \A k \in j .. n : k \in 1 .. n
    BY <1>1
  <2>3. \A k \in 1 .. n - i : j + k - 1 = i + k
    BY <1>1
  <2> HIDE DEF j, n
  <2>4. /\ u \in Seq(S) /\ Len(u) = IF j <= n THEN n - j + 1 ELSE 0
        /\ \A k \in 1 .. n - j + 1 : u[k] = s[j + k - 1]
    BY <1>1, <2>1, <2>2, SubSeqProperties
  <2> HIDE DEF u
  <2> QED
    BY <2>1, <2>3, <2>4
<1>4. Without(s, i) = t \o u
  BY DEF Without
<1> HIDE DEF t, u, j
<1>5. m + (n - i) = n - 1 /\ m \in Nat
  BY <1>1
<1>6. /\ t \o u \in Seq(S) /\ Len(t \o u) = n - 1
      /\ \A k \in 1 .. n - 1 : (t \o u)[k] = IF k <= m THEN t[k] ELSE u[k - m]
  <2> HIDE DEF m, n
  <2>1. /\ t \o u \in Seq(S) /\ Len(t \o u) = Len(t) + Len(u)
        /\ \A k \in 1 .. Len(t) + Len(u) : (t \o u)[k] = IF k <= Len(t) THEN t[k] ELSE u[k - Len(t)]
    BY <1>2, <1>3, ConcatProperties
  <2> QED
    BY <1>2, <1>3, <1>5, <2>1
<1>7. \A k \in 1 .. n - 1 : k < i => k <= m /\ k \in 1 .. m
  BY <1>1
<1>8. \A k \in 1 .. n - 1 : ~(k < i) => ~(k <= m) /\ k - m \in 1 .. n - i /\ i + (k - m) = k + 1
  BY <1>1
<1> HIDE DEF m, n
<1>9. \A k \in 1 .. n - 1 : (t \o u)[k] = IF k < i THEN s[k] ELSE s[k + 1]
  BY <1>2, <1>3, <1>6, <1>7, <1>8
<1> QED
  BY <1>4, <1>6, <1>9 DEF n

LEMMA Removal ==
  ASSUME NEW l, NEW m, NEW u, NEW f, Rep(l, u, f), NEW i \in 1 .. Len(u),
         Removed(l, m, At(u, i - 1), At(u, i + 1), u[i])
  PROVE  Rep(m, Without(u, i), Append(f, u[i]))
<1> DEFINE n == Len(u)
           t == u[i]
           v == Without(u, i)
           g == Append(f, t)
           a == At(u, i - 1)
           b == At(u, i + 1)
<1>1. l \in Lists /\ u \in Seq(Slots) /\ f \in Seq(Slots) /\ Apart(u, f) /\ Ring(l, u) /\ Queue(l, f)
      /\ l.cursize = Len(u) /\ l.alive = Range(u)
  BY DEF Rep
<1>2. /\ n \in Nat /\ At(u, 0) = End /\ At(u, n + 1) = End
      /\ \A k \in 1 .. n : u[k] \in Slots /\ u[k] # End /\ At(u, k) = u[k]
      /\ \A k \in Nat : At(u, k) \in Index
      /\ \A j, k \in 0 .. n : At(u, j) = At(u, k) => j = k
      /\ \A j, k \in 1 .. n + 1 : At(u, j) = At(u, k) => j = k
  BY <1>1, AtFacts DEF Apart
<1>3. /\ Len(f) \in Nat /\ At(f, Len(f) + 1) = End
      /\ \A k \in 1 .. Len(f) : f[k] \in Slots /\ f[k] # End /\ At(f, k) = f[k]
  BY <1>1, AtFacts
<1>4. i \in 1 .. n /\ i \in Nat /\ i - 1 \in 0 .. n /\ i + 1 \in 1 .. n + 1 /\ i - 1 \in Nat /\ i + 1 \in Nat
  BY <1>2
<1>5. t \in Slots /\ t # End /\ t = At(u, i)
  BY <1>2, <1>4
<1>6. /\ g \in Seq(Slots) /\ Len(g) = Len(f) + 1 /\ g[Len(f) + 1] = t
      /\ \A k \in 1 .. Len(f) : g[k] = f[k]
  <2> HIDE DEF t
  <2> QED
    BY <1>1, <1>3, <1>5, AppendProperties
<1>7. v \in Seq(Slots)
  BY <1>1, RemoveOne
<1>8. Len(v) = n - 1
  BY <1>1, RemoveOne
<1>9. \A k \in 1 .. n - 1 : v[k] = IF k < i THEN u[k] ELSE u[k + 1]
  BY <1>1, RemoveOne
<1>10. /\ m \in Lists
       /\ \A x \in Index \ {t} :
            /\ x = End \/ x # l.freeBack => next(m, x) = IF x = a THEN b ELSE next(l, x)
            /\ prev(m, x) = IF x = b THEN a ELSE prev(l, x)
       /\ l.freeBack # End => m.next[l.freeBack] = t
       /\ m.freeBegin = IF l.freeBack = End THEN t ELSE l.freeBegin
       /\ m.freeBack = t
       /\ m.cursize = l.cursize - 1 /\ m.alive = l.alive \ {t}
  BY DEF Removed
<1>11. \A k \in 1 .. n : k # i => u[k] # t
  BY <1>1 DEF Apart, Injective
<1>12. \A k \in Nat : k # i => At(u, k) # t
  BY <1>5, <1>11 DEF At
<1>13. \A j \in 1 .. n, k \in 1 .. Len(f) : u[j] # f[k]
  BY <1>1 DEF Apart
<1>14. \A k \in Nat : At(u, k) = End \/ At(u, k) # l.freeBack
  <2>1. l.freeBack = At(f, Len(f))
    BY <1>1 DEF Queue
  <2>2. l.freeBack = End \/ \E k \in 1 .. Len(f) : l.freeBack = f[k]
    BY <2>1 DEF At
  <2> QED
    BY <1>13, <2>2 DEF At
<1> HIDE DEF v, g, t, a, b, n
<1>15. \A k \in 0 .. n : At(v, k) = IF k < i THEN At(u, k) ELSE At(u, k + 1)
  <2> SUFFICES ASSUME NEW k \in 0 .. n
               PROVE  At(v, k) = IF k < i THEN At(u, k) ELSE At(u, k + 1)
    OBVIOUS
  <2>1. CASE k = 0
    <3>1. k < i /\ k \notin 1 .. Len(v)
      BY <1>4, <2>1
    <3> QED
      BY <1>2, <2>1, <3>1 DEF At
  <2>2. CASE k = n
    <3>1. ~(k < i) /\ k \notin 1 .. Len(v) /\ k + 1 = n + 1
      BY <1>2, <1>4, <1>8, <2>2
    <3> QED
      BY <1>2, <3>1 DEF At
  <2>3. CASE k # 0 /\ k # n
    <3>1. k \in 1 .. n - 1 /\ k \in 1 .. Len(v) /\ k \in 1 .. n /\ k + 1 \in 1 .. n
      BY <1>2, <1>8, <2>3
    <3>2. At(v, k) = IF k < i THEN u[k] ELSE u[k + 1]
      BY <1>9, <3>1 DEF At
    <3> QED
      BY <1>2, <3>1, <3>2
  <2> QED
    BY <2>1, <2>2, <2>3
<1>16. Ring(m, v)
  <2> SUFFICES ASSUME NEW k \in 0 .. n - 1
               PROVE  next(m, At(v, k)) = At(v, k + 1) /\ prev(m, At(v, k + 1)) = At(v, k)
    BY <1>8 DEF Ring
  <2>1. k \in 0 .. n /\ k + 1 \in 0 .. n /\ k \in Nat
    BY <1>2
  <2>2. /\ At(v, k) = IF k < i THEN At(u, k) ELSE At(u, k + 1)
        /\ At(v, k + 1) = IF k + 1 < i THEN At(u, k + 1) ELSE At(u, k + 1 + 1)
    BY <1>15, <2>1
  <2>3. \A j \in 0 .. n : next(l, At(u, j)) = At(u, j + 1) /\ prev(l, At(u, j + 1)) = At(u, j)
    BY <1>1 DEF Ring, n
  <2>4. \A j \in Nat : /\ At(u, j) \in Index
                       /\ j # i => At(u, j) \in Index \ {t} /\ (At(u, j) = End \/ At(u, j) # l.freeBack)
    BY <1>2, <1>12, <1>14
  <2>5. CASE k + 1 < i
    <3>1. k < i /\ k \in 0 .. n /\ k # i - 1 /\ k # i /\ k + 1 \in 1 .. n + 1 /\ k + 1 # i + 1 /\ k + 1 # i
          /\ k + 1 \in Nat
      BY <1>2, <1>4, <2>5
    <3>2. At(u, k) # a /\ At(u, k + 1) # b
      BY <1>2, <1>4, <3>1 DEF a, b
    <3>3. At(v, k) = At(u, k) /\ At(v, k + 1) = At(u, k + 1)
      BY <2>2, <2>5, <3>1
    <3> QED
      BY <1>10, <2>1, <2>3, <2>4, <3>1, <3>2, <3>3
  <2>6. CASE k + 1 = i
    <3>1. k < i /\ k = i - 1 /\ ~(k + 1 < i) /\ k + 1 + 1 = i + 1 /\ k # i /\ i + 1 # i
      BY <1>2, <1>4, <2>6
    <3>2. At(v, k) = a /\ At(v, k + 1) = b
      BY <2>2, <3>1 DEF a, b
    <3>3. a \in Index \ {t} /\ b \in Index \ {t} /\ (a = End \/ a # l.freeBack)
      BY <1>4, <2>4, <3>1 DEF a, b
    <3> QED
      BY <1>10, <3>2, <3>3
  <2>7. CASE k >= i
    <3> DEFINE j == k + 1
    <3>1. ~(k < i) /\ ~(k + 1 < i) /\ k + 1 + 1 = j + 1 /\ j \in 0 .. n /\ j # i - 1 /\ j # i
          /\ j + 1 \in 1 .. n + 1 /\ j + 1 # i + 1 /\ j + 1 # i /\ j \in Nat /\ j + 1 \in Nat
      BY <1>2, <1>4, <2>7
    <3>2. At(v, k) = At(u, j) /\ At(v, k + 1) = At(u, j + 1)
      BY <2>2, <3>1
    <3> HIDE DEF j
    <3>3. At(u, j) # a /\ At(u, j + 1) # b
      BY <1>2, <1>4, <3>1 DEF a, b
    <3> QED
      BY <1>10, <2>3, <2>4, <3>1, <3>2, <3>3
  <2> QED
    BY <1>4, <2>1, <2>5, <2>6, <2>7
<1>17. Apart(v, g)
  <2>1. Len(v) + Len(g) = MAX
    <3>1. n + Len(f) = MAX /\ Len(v) = n - 1 /\ Len(g) = Len(f) + 1
      BY <1>1, <1>6, <1>8 DEF Apart, n
    <3> QED
      BY <1>2, <1>3, <3>1
  <2>2. \A k \in 1 .. n - 1 : k \in 1 .. n /\ k + 1 \in 1 .. n /\ (k < i => k # i) /\ (~(k < i) => k + 1 # i)
    BY <1>2, <1>4
  <2>3. Injective(v)
    <3> SUFFICES ASSUME NEW j \in 1 .. n - 1, NEW k \in 1 .. n - 1, v[j] = v[k]
                 PROVE  j = k
      BY <1>8 DEF Injective
    <3>1. \A x, y \in 1 .. n : u[x] = u[y] => x = y
      BY <1>1 DEF Apart, Injective, n
    <3> QED
      BY <1>4, <1>9, <2>2, <3>1, SMTT(30)
  <2>4. Injective(g)
    <3> SUFFICES ASSUME NEW j \in 1 .. Len(f) + 1, NEW k \in 1 .. Len(f) + 1, g[j] = g[k]
                 PROVE  j = k
      BY <1>6 DEF Injective
    <3>1. \A x, y \in 1 .. Len(f) : f[x] = f[y] => x = y
      BY <1>1 DEF Apart, Injective
    <3>2. \A x \in 1 .. Len(f) : f[x] # t
      BY <1>4, <1>13 DEF t
    <3>3. \A x \in 1 .. Len(f) + 1 : x \in 1 .. Len(f) \/ x = Len(f) + 1
      BY <1>3
    <3> QED
      BY <1>6, <3>1, <3>2, <3>3
  <2>5. \A j \in 1 .. Len(v), k \in 1 .. Len(g) : v[j] # g[k]
    <3>1. ASSUME NEW j \in 1 .. n - 1, NEW k \in 1 .. Len(f) + 1
          PROVE  v[j] # g[k]
      <4>1. PICK x \in 1 .. n : v[j] = u[x] /\ x # i
        BY <1>9, <2>2
      <4>2. k \in 1 .. Len(f) \/ k = Len(f) + 1
        BY <1>3
      <4> QED
        BY <1>6, <1>11, <1>13, <4>1, <4>2
    <3>2. Len(v) = n - 1 /\ Len(g) = Len(f) + 1
      BY <1>6, <1>8
    <3> QED
      BY <3>1, <3>2, Zenon
  <2>6. ASSUME NEW x \in Slots
        PROVE  \/ \E j \in 1 .. Len(v) : x = v[j]
               \/ \E k \in 1 .. Len(g) : x = g[k]
    <3>1. CASE \E j \in 1 .. n : x = u[j]
      <4>1. PICK j \in 1 .. n : x = u[j]
        BY <3>1
      <4>2. CASE j = i
        <5>1. x = g[Len(f) + 1] /\ Len(f) + 1 \in 1 .. Len(g)
          BY <1>3, <1>6, <4>1, <4>2 DEF t
        <5> QED
          BY <5>1
      <4>3. CASE j < i
        <5>1. j \in 1 .. n - 1 /\ j \in 1 .. Len(v)
          BY <1>2, <1>4, <1>8, <4>3
        <5>2. x = v[j]
          BY <1>9, <4>1, <4>3, <5>1
        <5> QED
          BY <5>1, <5>2
      <4>4. CASE j > i
        <5>1. j - 1 \in 1 .. n - 1 /\ j - 1 \in 1 .. Len(v) /\ ~(j - 1 < i) /\ j - 1 + 1 = j
          BY <1>2, <1>4, <1>8, <4>4
        <5>2. x = v[j - 1]
          BY <1>9, <4>1, <5>1
        <5> QED
          BY <5>1, <5>2
      <4> QED
        BY <1>4, <4>2, <4>3, <4>4
    <3>2. CASE \E k \in 1 .. Len(f) : x = f[k]
      <4>1. PICK k \in 1 .. Len(f) : x = f[k]
        BY <3>2
      <4>2. x = g[k] /\ k \in 1 .. Len(g)
        BY <1>3, <1>6, <4>1
      <4> QED
        BY <4>2
    <3> QED
      BY <1>1, <3>1, <3>2 DEF Apart, n
  <2> QED
    BY <2>1, <2>3, <2>4, <2>5, <2>6 DEF Apart
<1>18. Queue(m, g)
  <2> DEFINE p == Len(f)
  <2>1. l.freeBegin = At(f, 1) /\ l.freeBack = At(f, p) /\ \A k \in 1 .. p - 1 : l.next[f[k]] = f[k + 1]
    BY <1>1 DEF Queue
  <2>2. p \in Nat /\ Len(g) = p + 1 /\ At(g, p + 1) = t
    <3>1. p + 1 \in 1 .. Len(g)
      BY <1>3, <1>6
    <3> QED
      BY <1>3, <1>6, <3>1 DEF At
  <2>3. l.freeBack = End <=> p = 0
    <3>1. p = 0 => p \notin 1 .. Len(f)
      OBVIOUS
    <3>2. p # 0 => p \in 1 .. p
      BY <1>3
    <3> QED
      BY <1>3, <2>1, <3>1, <3>2 DEF At
  <2>4. m.freeBegin = At(g, 1)
    <3>1. CASE p = 0
      BY <1>10, <2>2, <2>3, <3>1
    <3>2. CASE p # 0
      <4>1. 1 \in 1 .. Len(f) /\ 1 \in 1 .. Len(g)
        BY <1>3, <1>6, <3>2
      <4> QED
        BY <1>6, <1>10, <2>1, <2>3, <3>2, <4>1 DEF At
    <3> QED
      BY <3>1, <3>2
  <2>5. m.freeBack = At(g, Len(g))
    BY <1>10, <2>2
  <2>6. ASSUME NEW k \in 1 .. p
        PROVE  m.next[g[k]] = g[k + 1]
    <3>1. k \in 1 .. Len(f) /\ g[k] = f[k] /\ f[k] \in Slots /\ f[k] # End /\ f[k] # t /\ f[k] \in Index \ {t}
      BY <1>3, <1>4, <1>6, <1>13 DEF t, Index
    <3>2. CASE k = p
      <4>1. l.freeBack = f[p] /\ g[k + 1] = t
        BY <1>3, <1>6, <2>1, <3>1, <3>2
      <4> QED
        BY <1>10, <3>1, <3>2, <4>1
    <3>3. CASE k # p
      <4>1. k \in 1 .. p - 1 /\ k + 1 \in 1 .. p /\ p \in 1 .. p
        BY <1>3, <3>3
      <4>2. f[k] # l.freeBack
        <5>1. l.freeBack = f[p]
          BY <1>3, <2>1, <4>1
        <5>2. \A x, y \in 1 .. p : f[x] = f[y] => x = y
          BY <1>1 DEF Apart, Injective
        <5> QED
          BY <3>1, <3>3, <4>1, <5>1, <5>2
      <4>3. f[k] # a
        <5>1. \A x \in 1 .. n : u[x] # f[k]
          BY <1>13
        <5> QED
          BY <3>1, <5>1 DEF a, At, n
      <4>4. next(m, f[k]) = next(l, f[k])
        BY <1>10, <3>1, <4>2, <4>3
      <4>5. m.next[f[k]] = f[k + 1]
        BY <2>1, <3>1, <4>1, <4>4 DEF next
      <4> QED
        BY <1>6, <3>1, <4>1, <4>5
    <3> QED
      BY <3>2, <3>3
  <2>7. \A k \in 1 .. Len(g) - 1 : k \in 1 .. p
    BY <2>2
  <2> QED
    BY <2>4, <2>5, <2>6, <2>7 DEF Queue
<1>19. m.alive = Range(v) /\ m.cursize = Len(v)
  <2>1. Range(u) = {u[k] : k \in 1 .. n} /\ Range(v) = {v[k] : k \in 1 .. n - 1}
    <3>1. Range(v) = {v[k] : k \in 1 .. Len(v)}
      BY <1>7, Members
    <3> QED
      BY <1>1, <1>8, <3>1, Members DEF n
  <2>2. \A k \in 1 .. n - 1 : k \in 1 .. n /\ k + 1 \in 1 .. n /\ (k < i => k # i) /\ (~(k < i) => k + 1 # i)
    BY <1>2, <1>4
  <2>3. \A x : x \in Range(v) => x \in Range(u) \ {t}
    BY <1>9, <1>11, <2>1, <2>2
  <2>4. ASSUME NEW k \in 1 .. n, u[k] # t
        PROVE  u[k] \in Range(v)
    <3>1. k # i
      BY <2>4 DEF t
    <3>2. CASE k < i
      <4>1. k \in 1 .. n - 1
        BY <1>2, <1>4, <3>2
      <4> QED
        BY <1>9, <2>1, <3>2, <4>1
    <3>3. CASE k > i
      <4>1. k - 1 \in 1 .. n - 1 /\ ~(k - 1 < i) /\ k - 1 + 1 = k
        BY <1>2, <1>4, <3>3
      <4>2. v[k - 1] = u[k]
        BY <1>9, <4>1
      <4> QED
        BY <2>1, <4>1, <4>2
    <3> QED
      BY <1>4, <3>1, <3>2, <3>3
  <2>5. Range(v) = Range(u) \ {t}
    BY <2>1, <2>3, <2>4
  <2> QED
    BY <1>1, <1>8, <1>10, <2>5 DEF n
<1>20. Rep(m, v, g)
  BY <1>6, <1>7, <1>10, <1>16, <1>17, <1>18, <1>19 DEF Rep
<1> QED
  BY <1>20 DEF v, g, t

\* The neighbours a and b are joined.
Unlink(l, a, b) == SetNext(SetPrev(l, b, a), a, b)

LEMMA UnlinkFacts ==
  ASSUME NEW l \in Lists, NEW a \in Index, NEW b \in Index
  PROVE  /\ Unlink(l, a, b) \in Lists /\ SameRest(l, Unlink(l, a, b))
         /\ \A x \in Index : /\ next(Unlink(l, a, b), x) = IF x = a THEN b ELSE next(l, x)
                             /\ prev(Unlink(l, a, b), x) = IF x = b THEN a ELSE prev(l, x)
<1> DEFINE s == SetPrev(l, b, a)
           m == SetNext(s, a, b)
<1>1. /\ s \in Lists /\ SameRest(l, s)
      /\ \A y \in Index : prev(s, y) = (IF y = b THEN a ELSE prev(l, y)) /\ next(s, y) = next(l, y)
  BY SetPrevFacts
<1> HIDE DEF s
<1>2. /\ m \in Lists /\ SameRest(s, m)
      /\ \A y \in Index : next(m, y) = (IF y = a THEN b ELSE next(s, y)) /\ prev(m, y) = prev(s, y)
  BY <1>1, SetNextFacts
<1> HIDE DEF m
<1>3. SameRest(l, m)
  BY <1>1, <1>2 DEF SameRest
<1>4. Unlink(l, a, b) = m
  BY DEF Unlink, s, m
<1> QED
  BY <1>1, <1>2, <1>3, <1>4

LEMMA PushFreeFacts ==
  ASSUME NEW l \in Lists, NEW t \in Slots, l.cursize # 0
  PROVE  /\ push_free(l, t) \in Lists
         /\ \A x \in Index : /\ x = End \/ x # l.freeBack => next(push_free(l, t), x) = next(l, x)
                             /\ prev(push_free(l, t), x) = prev(l, x)
         /\ l.freeBack # End => push_free(l, t).next[l.freeBack] = t
         /\ push_free(l, t).freeBegin = IF l.freeBack = End THEN t ELSE l.freeBegin
         /\ push_free(l, t).freeBack = t
         /\ push_free(l, t).cursize = l.cursize - 1 /\ push_free(l, t).alive = l.alive \ {t}
<1> DEFINE m == push_free(l, t)
<1>1. m = [l EXCEPT !.freeBegin = IF l.freeBack = End THEN t ELSE l.freeBegin,
                    !.next = IF l.freeBack = End THEN l.next ELSE [l.next EXCEPT ![l.freeBack] = t],
                    !.freeBack = t,
                    !.cursize = l.cursize - 1,
                    !.alive = l.alive \ {t}]
  BY DEF push_free, Lists
<1> HIDE DEF m
<1>2. l.cursize - 1 \in 0 .. MAX
  BY MaxAssumption DEF Lists
<1>3. /\ m.freeBegin = IF l.freeBack = End THEN t ELSE l.freeBegin
      /\ m.next = IF l.freeBack = End THEN l.next ELSE [l.next EXCEPT ![l.freeBack] = t]
      /\ m.freeBack = t /\ m.cursize = l.cursize - 1 /\ m.alive = l.alive \ {t}
      /\ m.prev = l.prev /\ m.activeBegin = l.activeBegin /\ m.activeBack = l.activeBack
  BY <1>1 DEF Lists
<1>4. m \in Lists
  BY <1>1, <1>2 DEF Lists, Index
<1>5. \A x \in Index : prev(m, x) = prev(l, x)
  BY <1>3 DEF prev
<1>6. ASSUME NEW x \in Index, x = End \/ x # l.freeBack
      PROVE  next(m, x) = next(l, x)
  BY <1>3, <1>6 DEF next, Lists, Index
<1>7. l.freeBack # End => m.next[l.freeBack] = t
  BY <1>3 DEF Lists, Index
<1> QED
  BY <1>3, <1>4, <1>5, <1>6, <1>7 DEF m

\* The slot at position i unlinked and freed.
LEMMA TakenOut ==
  ASSUME NEW l, NEW u, NEW f, Rep(l, u, f), NEW i \in 1 .. Len(u)
  PROVE  Rep(push_free(Unlink(l, At(u, i - 1), At(u, i + 1)), u[i]), Without(u, i), Append(f, u[i]))
<1> DEFINE t == u[i]
           a == At(u, i - 1)
           b == At(u, i + 1)
           s == Unlink(l, a, b)
           m == push_free(s, t)
<1>1. l \in Lists /\ u \in Seq(Slots) /\ l.cursize = Len(u)
  BY DEF Rep
<1>2. Len(u) \in Nat /\ t \in Slots /\ \A k \in Nat : At(u, k) \in Index
  BY <1>1, AtFacts
<1>3. a \in Index /\ b \in Index
  <2>1. i - 1 \in Nat /\ i + 1 \in Nat
    BY <1>2
  <2> QED
    BY <1>2, <2>1
<1> HIDE DEF t, a, b
<1>4. /\ s \in Lists /\ SameRest(l, s)
      /\ \A x \in Index : /\ next(s, x) = IF x = a THEN b ELSE next(l, x)
                          /\ prev(s, x) = IF x = b THEN a ELSE prev(l, x)
  BY <1>1, <1>3, UnlinkFacts
<1>5. s.cursize # 0
  <2>1. Len(u) # 0
    BY <1>2
  <2> QED
    BY <1>1, <1>4, <2>1 DEF SameRest
<1> HIDE DEF s
<1>6. /\ m \in Lists
      /\ \A x \in Index : /\ x = End \/ x # s.freeBack => next(m, x) = next(s, x)
                          /\ prev(m, x) = prev(s, x)
      /\ s.freeBack # End => m.next[s.freeBack] = t
      /\ m.freeBegin = IF s.freeBack = End THEN t ELSE s.freeBegin
      /\ m.freeBack = t
      /\ m.cursize = s.cursize - 1 /\ m.alive = s.alive \ {t}
  BY <1>2, <1>4, <1>5, PushFreeFacts
<1> HIDE DEF m
<1>7. Removed(l, m, a, b, t)
  BY <1>4, <1>6 DEF Removed, SameRest
<1>8. Rep(m, Without(u, i), Append(f, u[i]))
  BY <1>7, Removal DEF a, b, t
<1> QED
  BY <1>8 DEF m, s, t, a, b

LEMMA PopsFront ==
  ASSUME NEW l, NEW u, NEW f, Rep(l, u, f), u # << >>
  PROVE  Rep(pop_front(l), Without(u, 1), Append(f, u[1]))
<1> DEFINE t == l.activeBegin
           n == l.next[t]
<1>1. l \in Lists /\ u \in Seq(Slots) /\ Ring(l, u)
  BY DEF Rep
<1>2. Len(u) \in Nat /\ Len(u) # 0 /\ 1 \in 1 .. Len(u)
  <2>1. Len(u) \in Nat /\ Len(u) # 0
    BY <1>1, EmptySeq, LenProperties
  <2> QED
    BY <2>1
<1>3. t = u[1] /\ n = At(u, 1 + 1) /\ At(u, 1 - 1) = End
  BY <1>1, <1>2, RingLinks, AtFacts
<1>4. pop_front(l) = push_free([SetPrev(l, n, End) EXCEPT !.activeBegin = n], t)
  BY DEF pop_front
<1> HIDE DEF t, n
<1>5. pop_front(l) = push_free(Unlink(l, End, n), t)
  BY <1>4 DEF Unlink, SetNext
<1> QED
  BY <1>2, <1>3, <1>5, TakenOut

LEMMA PopsBack ==
  ASSUME NEW l, NEW u, NEW f, Rep(l, u, f), u # << >>
  PROVE  Rep(pop_back(l), Without(u, Len(u)), Append(f, u[Len(u)]))
<1> DEFINE t == l.activeBack
           p == l.prev[t]
           i == Len(u)
<1>1. l \in Lists /\ u \in Seq(Slots) /\ Ring(l, u)
  BY DEF Rep
<1>2. i \in Nat /\ i # 0 /\ i \in 1 .. i /\ i - 1 \in Nat
  <2>1. i \in Nat /\ i # 0
    BY <1>1, EmptySeq, LenProperties
  <2> QED
    BY <2>1
<1>3. t = u[i] /\ p = At(u, i - 1) /\ At(u, i + 1) = End
  BY <1>1, <1>2, RingLinks, AtFacts
<1>4. p \in Index /\ End \in Index
  BY <1>1, <1>2, <1>3, AtFacts DEF Index
<1>5. pop_back(l) = push_free([SetNext(l, p, End) EXCEPT !.activeBack = p], t)
  BY DEF pop_back
<1> HIDE DEF t, p
<1>6. pop_back(l) = push_free(SetPrev(SetNext(l, p, End), End, p), t)
  BY <1>5 DEF SetPrev
<1>7. SetPrev(SetNext(l, p, End), End, p) = SetNext(SetPrev(l, End, p), p, End)
  BY <1>1, <1>4, SetEither
<1>8. pop_back(l) = push_free(Unlink(l, p, End), t)
  BY <1>6, <1>7 DEF Unlink
<1> QED
  BY <1>2, <1>3, <1>8, TakenOut

LEMMA Erases ==
  ASSUME NEW l, NEW u, NEW f, Rep(l, u, f), NEW x \in Range(u)
  PROVE  \E i \in 1 .. Len(u) : x = u[i] /\ Rep(erase(l, x), Without(u, i), Append(f, u[i]))
<1>1. l \in Lists /\ u \in Seq(Slots) /\ Ring(l, u) /\ Apart(u, f)
  BY DEF Rep
<1>2. PICK i \in 1 .. Len(u) : /\ x = u[i] /\ x = At(u, i) /\ x \in Slots /\ x # End
                               /\ l.prev[x] = At(u, i - 1) /\ l.next[x] = At(u, i + 1)
  BY PlaceOf
<1>3. Len(u) \in Nat /\ Len(u) # 0 /\ 1 \in 1 .. Len(u) /\ Len(u) \in 1 .. Len(u) /\ u # << >>
  <2>1. Len(u) \in Nat /\ Len(u) # 0
    BY <1>1, LenProperties
  <2> QED
    BY <2>1, <1>1, EmptySeq
<1>4. CASE x = l.activeBegin
  <2>1. x = u[1]
    BY <1>1, <1>3, <1>4, RingLinks, AtFacts
  <2> QED
    BY <1>3, <1>4, <2>1, PopsFront DEF erase
<1>5. CASE x # l.activeBegin /\ x = l.activeBack
  <2>1. x = u[Len(u)]
    BY <1>1, <1>3, <1>5, RingLinks, AtFacts
  <2> QED
    BY <1>3, <1>5, <2>1, PopsBack DEF erase
<1>6. CASE x # l.activeBegin /\ x # l.activeBack
  <2> DEFINE a == l.prev[x]
             b == l.next[x]
  <2>1. a # End /\ b # End /\ a \in Index /\ b \in Index
    <3>1. i # 1 /\ i # Len(u)
      BY <1>1, <1>2, <1>6, RingLinks
    <3>2. i - 1 \in 1 .. Len(u) /\ i + 1 \in 1 .. Len(u) /\ i - 1 \in Nat /\ i + 1 \in Nat
      BY <1>3, <3>1
    <3> QED
      BY <1>1, <1>2, <3>2, AtFacts
  <2>2. erase(l, x) = push_free([l EXCEPT !.prev[b] = a, !.next[a] = b], x)
    BY <1>6 DEF erase
  <2> HIDE DEF a, b
  <2>3. [l EXCEPT !.prev[b] = a, !.next[a] = b] = Unlink(l, a, b)
    BY <1>1, <2>1 DEF Unlink, SetNext, SetPrev, Lists
  <2>4. erase(l, x) = push_free(Unlink(l, At(u, i - 1), At(u, i + 1)), u[i])
    BY <1>2, <2>2, <2>3 DEF a, b
  <2> QED
    BY <1>2, <2>4, TakenOut
<1> QED
  BY <1>4, <1>5, <1>6

(* -------------------------------- clear ---------------------------------- *)

LEMMA Clears ==
  ASSUME NEW l, NEW u, NEW f, Rep(l, u, f)
  PROVE  Rep(clear(l), << >>, f \o u)
<1> DEFINE n == Len(u)
           p == Len(f)
           g == f \o u
           m == clear(l)
<1>1. l \in Lists /\ u \in Seq(Slots) /\ f \in Seq(Slots) /\ Apart(u, f) /\ Ring(l, u) /\ Queue(l, f)
      /\ l.cursize = n /\ l.alive = Range(u)
  BY DEF Rep
<1>2. /\ n \in Nat /\ p \in Nat
      /\ \A k \in 1 .. n : u[k] \in Slots /\ u[k] # End /\ At(u, k) = u[k]
      /\ \A k \in 1 .. p : f[k] \in Slots /\ f[k] # End /\ At(f, k) = f[k]
  BY <1>1, AtFacts
<1>3. CASE n = 0
  <2>1. u = << >> /\ m = l
    BY <1>1, <1>3, EmptySeq DEF clear
  <2>2. g = f
    BY <1>1, <2>1, ConcatEmptySeq
  <2> HIDE DEF m, g
  <2> QED
    BY <2>1, <2>2 DEF m, g
<1>4. CASE n # 0
  <2>1. 1 \in 1 .. n /\ n \in 1 .. n
    BY <1>2, <1>4
  <2>2. /\ g \in Seq(Slots) /\ Len(g) = p + n
        /\ \A k \in 1 .. p + n : g[k] = IF k <= p THEN f[k] ELSE u[k - p]
    BY <1>1, ConcatProperties
  <2> HIDE DEF g
  <2>3. /\ \A k \in 1 .. p : g[k] = f[k] /\ k \in 1 .. p + n
        /\ \A k \in 1 .. n : g[p + k] = u[k] /\ p + k \in 1 .. p + n
    <3>1. \A k \in 1 .. p : k <= p /\ k \in 1 .. p + n
      BY <1>2
    <3>2. \A k \in 1 .. n : ~(p + k <= p) /\ p + k - p = k /\ p + k \in 1 .. p + n
      BY <1>2
    <3> QED
      BY <2>2, <3>1, <3>2
  <2>4. \A k \in 1 .. p + n : k \in 1 .. p \/ \E j \in 1 .. n : k = p + j
    <3> SUFFICES ASSUME NEW k \in 1 .. p + n
                 PROVE  k \in 1 .. p \/ \E j \in 1 .. n : k = p + j
      OBVIOUS
    <3>1. k \in 1 .. p \/ (k - p \in 1 .. n /\ k = p + (k - p))
      BY <1>2
    <3> QED
      BY <3>1
  <2>5. /\ l.activeBegin = u[1] /\ l.activeBack = u[n]
        /\ \A k \in 1 .. n - 1 : l.next[u[k]] = u[k + 1]
    <3>1. /\ l.activeBegin = At(u, 1) /\ l.activeBack = At(u, n)
          /\ \A k \in 1 .. n : l.next[u[k]] = At(u, k + 1)
      BY <1>1, RingLinks
    <3>2. \A k \in 1 .. n - 1 : k \in 1 .. n /\ k + 1 \in 1 .. n
      BY <1>2
    <3> QED
      BY <1>2, <2>1, <3>1, <3>2
  <2>6. /\ l.freeBegin = At(f, 1) /\ l.freeBack = At(f, p)
        /\ \A k \in 1 .. p - 1 : l.next[f[k]] = f[k + 1]
    BY <1>1 DEF Queue
  <2>7. Chain(l.activeBegin, l.next) = u
    BY Represented
  <2>8. m = [l EXCEPT !.alive = l.alive \ Range(u),
                      !.next = IF l.freeBack = End THEN l.next
                               ELSE [l.next EXCEPT ![l.freeBack] = l.activeBegin],
                      !.freeBegin = IF l.freeBack = End THEN l.activeBegin ELSE l.freeBegin,
                      !.freeBack = l.activeBack,
                      !.activeBegin = End, !.activeBack = End,
                      !.cursize = 0]
    BY <1>1, <1>4, <2>7 DEF clear, Lists
  <2> HIDE DEF m
  <2>9. /\ m.alive = {} /\ m.cursize = 0 /\ m.activeBegin = End /\ m.activeBack = End
        /\ m.freeBack = l.activeBack
        /\ m.freeBegin = IF l.freeBack = End THEN l.activeBegin ELSE l.freeBegin
        /\ m.next = IF l.freeBack = End THEN l.next ELSE [l.next EXCEPT ![l.freeBack] = l.activeBegin]
    BY <1>1, <2>8 DEF Lists
  <2>10. m \in Lists
    <3>1. 0 \in 0 .. MAX
      BY MaxAssumption
    <3> QED
      BY <1>1, <2>8, <3>1, ZenonT(60) DEF Lists, Index
  <2>11. Len(<< >>) = 0 /\ << >> \in Seq(Slots) /\ Range(<< >>) = {}
    <3>1. Len(<< >>) = 0 /\ << >> \in Seq(Slots)
      BY EmptySeq
    <3>2. Range(<< >>) = {}
      BY DEF Range
    <3> QED
      BY <3>1, <3>2
  <2>12. Ring(m, << >>)
    <3>1. \A k \in 0 .. 0 : k = 0
      OBVIOUS
    <3>2. At(<< >>, 0) = End /\ At(<< >>, 0 + 1) = End
      BY <2>11 DEF At
    <3> QED
      BY <2>9, <2>11, <3>1, <3>2 DEF Ring, next, prev
  <2>13. \A j \in 1 .. n, k \in 1 .. p : u[j] # f[k]
    BY <1>1 DEF Apart
  <2>14. /\ \A x, y \in 1 .. n : u[x] = u[y] => x = y
         /\ \A x, y \in 1 .. p : f[x] = f[y] => x = y
    BY <1>1 DEF Apart, Injective
  <2>15. Apart(<< >>, g)
    <3>1. Injective(g)
      <4> SUFFICES ASSUME NEW j \in 1 .. p + n, NEW k \in 1 .. p + n, g[j] = g[k]
                   PROVE  j = k
        BY <2>2 DEF Injective
      <4>1. CASE j \in 1 .. p /\ k \in 1 .. p
        BY <2>3, <2>14, <4>1
      <4>2. CASE j \in 1 .. p /\ ~(k \in 1 .. p)
        <5>1. PICK y \in 1 .. n : k = p + y
          BY <2>4, <4>2
        <5>2. g[j] = f[j] /\ g[k] = u[y] /\ u[y] # f[j]
          BY <2>3, <2>13, <4>2, <5>1
        <5> QED
          BY <5>2
      <4>3. CASE ~(j \in 1 .. p) /\ k \in 1 .. p
        <5>1. PICK x \in 1 .. n : j = p + x
          BY <2>4, <4>3
        <5>2. g[k] = f[k] /\ g[j] = u[x] /\ u[x] # f[k]
          BY <2>3, <2>13, <4>3, <5>1
        <5> QED
          BY <5>2
      <4>4. CASE ~(j \in 1 .. p) /\ ~(k \in 1 .. p)
        <5>1. PICK x \in 1 .. n : j = p + x
          BY <2>4, <4>4
        <5>2. PICK y \in 1 .. n : k = p + y
          BY <2>4, <4>4
        <5>3. x = y
          BY <2>3, <2>14, <5>1, <5>2
        <5> QED
          BY <5>1, <5>2, <5>3
      <4> QED
        BY <4>1, <4>2, <4>3, <4>4
    <3>2. Injective(<< >>)
      BY <2>11 DEF Injective
    <3>3. Len(<< >>) + Len(g) = MAX
      <4>1. n + p = MAX
        BY <1>1 DEF Apart
      <4> QED
        BY <1>2, <2>2, <2>11, <4>1
    <3>4. ASSUME NEW x \in Slots
          PROVE  \E k \in 1 .. Len(g) : x = g[k]
      <4>1. (\E j \in 1 .. n : x = u[j]) \/ (\E k \in 1 .. p : x = f[k])
        BY <1>1 DEF Apart
      <4> QED
        BY <2>2, <2>3, <4>1
    <3> QED
      BY <2>11, <3>1, <3>2, <3>3, <3>4 DEF Apart
  <2>16. \A x \in Slots : m.next[x] = IF x = l.freeBack /\ l.freeBack # End THEN l.activeBegin ELSE l.next[x]
    BY <1>1, <2>9 DEF Lists
  <2>17. l.freeBack = End <=> p = 0
    <3>1. p = 0 => p \notin 1 .. p
      OBVIOUS
    <3>2. p # 0 => p \in 1 .. p
      BY <1>2
    <3> QED
      BY <1>2, <2>6, <3>1, <3>2 DEF At
  <2>18. Queue(m, g)
    <3>1. m.freeBegin = At(g, 1)
      <4>1. CASE p = 0
        <5>1. 1 \in 1 .. Len(g) /\ g[1] = u[1]
          BY <1>2, <2>1, <2>2, <2>3, <4>1
        <5> QED
          BY <2>5, <2>9, <2>17, <4>1, <5>1 DEF At
      <4>2. CASE p # 0
        <5>1. 1 \in 1 .. p
          BY <1>2, <4>2
        <5>2. 1 \in 1 .. Len(g) /\ g[1] = f[1] /\ At(f, 1) = f[1]
          BY <1>2, <2>2, <2>3, <5>1
        <5> QED
          BY <2>6, <2>9, <2>17, <4>2, <5>2 DEF At
      <4> QED
        BY <4>1, <4>2
    <3>2. m.freeBack = At(g, Len(g))
      BY <2>1, <2>2, <2>3, <2>5, <2>9 DEF At
    <3>3. ASSUME NEW k \in 1 .. p + n - 1
          PROVE  m.next[g[k]] = g[k + 1]
      <4>1. k \in 1 .. p - 1 \/ (k = p /\ p # 0) \/ k - p \in 1 .. n - 1
        BY <1>2
      <4>2. CASE k \in 1 .. p - 1
        <5>1. k \in 1 .. p /\ k + 1 \in 1 .. p /\ p \in 1 .. p /\ k # p
          BY <1>2, <4>2
        <5>2. l.freeBack = f[p] /\ f[k] # f[p]
          BY <1>2, <2>6, <2>14, <5>1
        <5> QED
          BY <1>2, <2>3, <2>6, <2>16, <4>2, <5>1, <5>2
      <4>3. CASE k = p /\ p # 0
        <5>1. p \in 1 .. p
          BY <1>2, <4>3
        <5>2. l.freeBack = f[p] /\ f[p] \in Slots /\ f[p] # End
          BY <1>2, <2>6, <5>1
        <5>3. m.next[f[p]] = u[1]
          BY <2>5, <2>16, <5>2
        <5> QED
          BY <2>1, <2>3, <4>3, <5>1, <5>3
      <4>4. CASE k - p \in 1 .. n - 1
        <5> DEFINE j == k - p
        <5>1. j \in 1 .. n - 1 /\ j \in 1 .. n /\ j + 1 \in 1 .. n /\ k = p + j /\ k + 1 = p + (j + 1)
          BY <1>2, <4>4
        <5> HIDE DEF j
        <5>2. g[k] = u[j] /\ g[k + 1] = u[j + 1] /\ l.next[u[j]] = u[j + 1]
          BY <2>3, <2>5, <5>1
        <5>3. u[j] # l.freeBack \/ l.freeBack = End
          <6>1. p # 0 => p \in 1 .. p
            BY <1>2
          <6> QED
            BY <1>2, <2>6, <2>13, <2>17, <5>1, <6>1
        <5> QED
          BY <1>2, <2>16, <5>1, <5>2, <5>3
      <4> QED
        BY <4>1, <4>2, <4>3, <4>4
    <3>4. Len(g) - 1 = p + n - 1
      BY <1>2, <2>2
    <3> QED
      BY <3>1, <3>2, <3>3, <3>4 DEF Queue
  <2> QED
    BY <2>2, <2>9, <2>10, <2>11, <2>12, <2>15, <2>18 DEF Rep, g, m
<1> QED
  BY <1>3, <1>4

(* -------------------------------- swap ----------------------------------- *)

\* a for b and b for a.
Traded(a, b, x) == IF x = a THEN b ELSE IF x = b THEN a ELSE x

\* a and b have traded places in a list of the slots in U.
Swapped(l, m, a, b, U) ==
    /\ m \in Lists /\ SameRest(l, m)
    /\ \A x \in U \cup {End} : /\ next(m, Traded(a, b, x)) = Traded(a, b, next(l, x))
                               /\ prev(m, Traded(a, b, x)) = Traded(a, b, prev(l, x))
    /\ \A x \in Slots \ U : m.next[x] = l.next[x]

LEMMA Swapping ==
  ASSUME NEW l, NEW m, NEW u, NEW f, Rep(l, u, f), NEW j \in 1 .. Len(u), NEW k \in 1 .. Len(u),
         Swapped(l, m, u[j], u[k], Range(u))
  PROVE  Rep(m, [u EXCEPT ![j] = u[k], ![k] = u[j]], f)
<1> DEFINE n == Len(u)
           a == u[j]
           b == u[k]
           U == Range(u)
           v == [u EXCEPT ![j] = b, ![k] = a]
<1>1. l \in Lists /\ u \in Seq(Slots) /\ f \in Seq(Slots) /\ Apart(u, f) /\ Ring(l, u) /\ Queue(l, f)
      /\ l.cursize = n /\ l.alive = U
  BY DEF Rep
<1>2. /\ n \in Nat /\ u \in [1 .. n -> Slots] /\ U = {u[i] : i \in 1 .. n}
      /\ \A i \in 1 .. n : u[i] \in Slots /\ u[i] # End /\ At(u, i) = u[i]
  BY <1>1, AtFacts, Members
<1>3. \A x, y \in 1 .. n : u[x] = u[y] => x = y
  BY <1>1 DEF Apart, Injective
<1>4. v \in [1 .. n -> Slots] /\ \A i \in 1 .. n : v[i] = IF i = k THEN a ELSE IF i = j THEN b ELSE u[i]
  BY <1>2
<1> HIDE DEF v
<1>5. v \in Seq(Slots) /\ Len(v) = n
  <2>1. DOMAIN v = 1 .. n
    BY <1>4
  <2> QED
    BY <1>2, <1>4, <2>1, SeqDef, LenProperties
<1>6. \A i \in 1 .. n : v[i] = Traded(a, b, u[i])
  BY <1>3, <1>4 DEF Traded
<1>7. a \in U /\ b \in U /\ a # End /\ b # End /\ a \in Slots /\ b \in Slots
  BY <1>2
<1> HIDE DEF a, b, U, n
<1>8. \A i \in Nat : At(v, i) = Traded(a, b, At(u, i)) /\ At(u, i) \in U \cup {End}
  <2> SUFFICES ASSUME NEW i \in Nat
               PROVE  At(v, i) = Traded(a, b, At(u, i)) /\ At(u, i) \in U \cup {End}
    OBVIOUS
  <2>1. CASE i \in 1 .. n
    BY <1>2, <1>5, <1>6, <2>1 DEF At, n
  <2>2. CASE i \notin 1 .. n
    BY <1>5, <1>7, <2>2 DEF At, n, Traded
  <2> QED
    BY <2>1, <2>2
<1>9. /\ m \in Lists /\ SameRest(l, m)
      /\ \A x \in U \cup {End} : /\ next(m, Traded(a, b, x)) = Traded(a, b, next(l, x))
                                 /\ prev(m, Traded(a, b, x)) = Traded(a, b, prev(l, x))
      /\ \A x \in Slots \ U : m.next[x] = l.next[x]
  BY DEF Swapped, a, b, U
<1>10. Ring(m, v)
  <2> SUFFICES ASSUME NEW i \in 0 .. n
               PROVE  next(m, At(v, i)) = At(v, i + 1) /\ prev(m, At(v, i + 1)) = At(v, i)
    BY <1>5 DEF Ring
  <2>1. i \in Nat /\ i + 1 \in Nat
    BY <1>2
  <2>2. next(l, At(u, i)) = At(u, i + 1) /\ prev(l, At(u, i + 1)) = At(u, i)
    BY <1>1 DEF Ring, n
  <2> QED
    BY <1>8, <1>9, <2>1, <2>2
<1>11. \A x \in U : \E i \in 1 .. n : x = v[i]
  <2> SUFFICES ASSUME NEW x \in U
               PROVE  \E i \in 1 .. n : x = v[i]
    OBVIOUS
  <2>1. PICK i \in 1 .. n : x = u[i]
    BY <1>2
  <2>2. j \in 1 .. n /\ k \in 1 .. n
    BY DEF n
  <2>3. CASE i = j
    BY <1>4, <2>1, <2>2, <2>3 DEF a
  <2>4. CASE i = k
    <3>1. CASE j = k
      BY <1>4, <2>1, <2>2, <2>4, <3>1 DEF a
    <3>2. CASE j # k
      BY <1>4, <2>1, <2>2, <2>4, <3>2 DEF b
    <3> QED
      BY <3>1, <3>2
  <2>5. CASE i # j /\ i # k
    BY <1>4, <2>1, <2>5
  <2> QED
    BY <2>3, <2>4, <2>5
<1>12. \A i \in 1 .. n : v[i] \in U
  BY <1>2, <1>6, <1>7 DEF Traded
<1>13. Range(v) = U
  <2>1. Range(v) = {v[i] : i \in 1 .. n}
    BY <1>5, Members
  <2> QED
    BY <1>11, <1>12, <2>1
<1>14. \A x \in U, i \in 1 .. Len(f) : x # f[i]
  BY <1>1, <1>2 DEF Apart, n
<1>15. Apart(v, f)
  <2>1. Injective(v)
    <3> SUFFICES ASSUME NEW x \in 1 .. n, NEW y \in 1 .. n, v[x] = v[y]
                 PROVE  x = y
      BY <1>5 DEF Injective
    <3>1. u[x] = u[y]
      BY <1>6 DEF Traded
    <3> QED
      BY <1>3, <3>1
  <2>2. \A i \in 1 .. Len(v), x \in 1 .. Len(f) : v[i] # f[x]
    BY <1>5, <1>12, <1>14
  <2>3. Injective(f) /\ Len(v) + Len(f) = MAX
    BY <1>1, <1>5 DEF Apart, n
  <2>4. ASSUME NEW x \in Slots
        PROVE  (\E i \in 1 .. Len(v) : x = v[i]) \/ (\E i \in 1 .. Len(f) : x = f[i])
    <3>1. x \in U \/ \E i \in 1 .. Len(f) : x = f[i]
      BY <1>1, <1>2 DEF Apart, n
    <3> QED
      BY <1>5, <1>11, <3>1
  <2> QED
    BY <2>1, <2>2, <2>3, <2>4 DEF Apart
<1>16. Queue(m, f)
  <2>1. \A i \in 1 .. Len(f) - 1 : i \in 1 .. Len(f)
    BY <1>1, AtFacts
  <2>2. \A i \in 1 .. Len(f) - 1 : f[i] \in Slots \ U
    BY <1>1, <1>14, <2>1, AtFacts
  <2> QED
    BY <1>1, <1>9, <2>2 DEF Queue, SameRest
<1>17. Rep(m, v, f)
  BY <1>1, <1>5, <1>9, <1>10, <1>13, <1>15, <1>16 DEF Rep, SameRest, n
<1> QED
  BY <1>17 DEF v, a, b

\* In the list, end() included, next and prev are inverse, and nobody's
\* neighbours are equal to it or, but for end(), to each other.
LEMMA Neighbours ==
  ASSUME NEW l, NEW u, NEW f, Rep(l, u, f)
  PROVE  /\ \A x \in Range(u) \cup {End} : /\ next(l, x) \in Range(u) \cup {End} /\ prev(l, next(l, x)) = x
                                           /\ prev(l, x) \in Range(u) \cup {End} /\ next(l, prev(l, x)) = x
         /\ \A x \in Range(u) : /\ next(l, x) # x /\ prev(l, x) # x
                                /\ next(l, x) = prev(l, x) => next(l, x) = End
         /\ Range(u) \cup {End} \subseteq Index /\ Range(u) \subseteq Slots /\ End \notin Range(u)
<1> DEFINE n == Len(u)
           W == Range(u) \cup {End}
<1>1. u \in Seq(Slots) /\ Ring(l, u) /\ Apart(u, f)
  BY DEF Rep
<1>2. /\ n \in Nat /\ At(u, 0) = End /\ At(u, n + 1) = End
      /\ \A k \in 1 .. n : u[k] \in Slots /\ u[k] # End /\ At(u, k) = u[k]
      /\ \A j, k \in 0 .. n : At(u, j) = At(u, k) => j = k
      /\ \A j, k \in 1 .. n + 1 : At(u, j) = At(u, k) => j = k
  BY <1>1, AtFacts DEF Apart
<1>3. Range(u) = {u[k] : k \in 1 .. n}
  BY <1>1, Members
<1>4. \A k \in 0 .. n : next(l, At(u, k)) = At(u, k + 1) /\ prev(l, At(u, k + 1)) = At(u, k)
  BY <1>1 DEF Ring
<1>5. \A k \in 0 .. n : k \in 1 .. n \/ k = 0
  BY <1>2
<1>6. \A k \in 0 .. n + 1 : At(u, k) \in W
  <2> SUFFICES ASSUME NEW k \in 0 .. n + 1
               PROVE  At(u, k) \in W
    OBVIOUS
  <2>1. k = 0 \/ k = n + 1 \/ k \in 1 .. n
    BY <1>2
  <2> QED
    BY <1>2, <1>3, <2>1
<1>7. \A x \in W : (\E k \in 0 .. n : x = At(u, k)) /\ (\E k \in 0 .. n : x = At(u, k + 1))
  <2> SUFFICES ASSUME NEW x \in W
               PROVE  (\E k \in 0 .. n : x = At(u, k)) /\ (\E k \in 0 .. n : x = At(u, k + 1))
    OBVIOUS
  <2>1. CASE x = End
    <3>1. 0 \in 0 .. n /\ n \in 0 .. n
      BY <1>2
    <3> QED
      BY <1>2, <2>1, <3>1
  <2>2. CASE x # End
    <3>1. PICK k \in 1 .. n : x = At(u, k)
      BY <1>2, <1>3, <2>2
    <3>2. k \in 0 .. n /\ k - 1 \in 0 .. n /\ (k - 1) + 1 = k
      BY <1>2
    <3> QED
      BY <3>1, <3>2
  <2> QED
    BY <2>1, <2>2
<1>8. \A k \in 0 .. n : k \in 0 .. n + 1 /\ k + 1 \in 0 .. n + 1
  BY <1>2
<1>9. ASSUME NEW x \in W
      PROVE  next(l, x) \in W /\ prev(l, next(l, x)) = x /\ prev(l, x) \in W /\ next(l, prev(l, x)) = x
  <2>1. PICK k \in 0 .. n : x = At(u, k)
    BY <1>7, <1>9
  <2>2. PICK j \in 0 .. n : x = At(u, j + 1)
    BY <1>7, <1>9
  <2>3. next(l, x) = At(u, k + 1) /\ prev(l, x) = At(u, j)
    BY <1>4, <2>1, <2>2
  <2>4. At(u, k + 1) \in W /\ At(u, j) \in W
    BY <1>6, <1>8
  <2> HIDE DEF W
  <2> QED
    BY <1>4, <2>1, <2>2, <2>3, <2>4
<1>10. ASSUME NEW x \in Range(u)
       PROVE  /\ next(l, x) # x /\ prev(l, x) # x
              /\ next(l, x) = prev(l, x) => next(l, x) = End
  <2>1. PICK k \in 1 .. n : x = At(u, k)
    BY <1>2, <1>3
  <2>2. /\ k \in 0 .. n /\ k - 1 \in 0 .. n /\ (k - 1) + 1 = k /\ k # k - 1 /\ k # k + 1 /\ k - 1 # k + 1
        /\ k \in 1 .. n + 1 /\ k + 1 \in 1 .. n + 1 /\ (k + 1 = n + 1 \/ k + 1 \in 0 .. n)
    BY <1>2
  <2>3. next(l, x) = At(u, k + 1) /\ prev(l, x) = At(u, k - 1)
    BY <1>4, <2>1, <2>2
  <2>4. At(u, k + 1) # At(u, k) /\ At(u, k - 1) # At(u, k)
    BY <1>2, <2>2
  <2>5. At(u, k + 1) = At(u, k - 1) => At(u, k + 1) = End
    BY <1>2, <2>2
  <2> QED
    BY <2>1, <2>3, <2>4, <2>5
<1>11. W \subseteq Index /\ Range(u) \subseteq Slots /\ End \notin Range(u)
  BY <1>2, <1>3 DEF Index
<1> QED
  BY <1>9, <1>10, <1>11

\* b follows a.
LEMMA SwapsNeighbours ==
  ASSUME NEW l, NEW u, NEW f, Rep(l, u, f), NEW a \in Range(u), NEW b \in Range(u), l.next[a] = b
  PROVE  Swapped(l, SwapNeighbours(l, a, b), a, b, Range(u))
<1> DEFINE U == Range(u)
           p == l.prev[a]
           n == l.next[b]
           m == [l EXCEPT !.prev[b] = p, !.next[a] = n, !.next[b] = a, !.prev[a] = b]
           m1 == SetNext(m, p, b)
           m2 == SetPrev(m1, n, a)
<1>1. l \in Lists
  BY DEF Rep
<1>2. /\ \A x \in U \cup {End} : /\ next(l, x) \in U \cup {End} /\ prev(l, next(l, x)) = x
                                 /\ prev(l, x) \in U \cup {End} /\ next(l, prev(l, x)) = x
      /\ \A x \in U : /\ next(l, x) # x /\ prev(l, x) # x
                      /\ next(l, x) = prev(l, x) => next(l, x) = End
      /\ U \cup {End} \subseteq Index /\ U \subseteq Slots /\ End \notin U
  BY Neighbours
<1> HIDE DEF U
<1>3. /\ a \in U /\ b \in U /\ a \in Slots /\ b \in Slots /\ a # End /\ b # End
      /\ p = prev(l, a) /\ n = next(l, b) /\ next(l, a) = b
  BY <1>2 DEF U, next, prev
<1>4. /\ prev(l, b) = a /\ next(l, p) = a /\ prev(l, n) = b
      /\ p \in U \cup {End} /\ n \in U \cup {End} /\ p \in Index /\ n \in Index
  BY <1>2, <1>3
<1>5. a # b /\ p # a /\ p # b /\ n # a /\ n # b
  <2>1. a # b /\ p # a /\ n # b
    BY <1>2, <1>3
  <2>2. p # b
    BY <1>2, <1>3
  <2>3. n # a
    <3>1. next(l, b) = prev(l, b) => next(l, b) = End
      BY <1>2, <1>3
    <3> QED
      BY <1>3, <1>4, <3>1
  <2> QED
    BY <2>1, <2>2, <2>3
<1>6. SwapNeighbours(l, a, b) = m2
  BY DEF SwapNeighbours
<1> HIDE DEF p, n
<1>7. /\ m.next = [[l.next EXCEPT ![a] = n] EXCEPT ![b] = a]
      /\ m.prev = [[l.prev EXCEPT ![b] = p] EXCEPT ![a] = b]
      /\ m.activeBegin = l.activeBegin /\ m.activeBack = l.activeBack /\ SameRest(l, m) /\ m \in Lists
  BY <1>1, <1>3, <1>4 DEF Lists, SameRest, Index
<1> HIDE DEF m
<1>8. /\ \A x \in Index : /\ next(m, x) = IF x = b THEN a ELSE IF x = a THEN n ELSE next(l, x)
                          /\ prev(m, x) = IF x = a THEN b ELSE IF x = b THEN p ELSE prev(l, x)
  BY <1>1, <1>3, <1>7 DEF next, prev, Lists, Index
<1>9. /\ m1 \in Lists /\ SameRest(m, m1)
      /\ \A x \in Index : next(m1, x) = (IF x = p THEN b ELSE next(m, x)) /\ prev(m1, x) = prev(m, x)
  <2>1. b \in Index
    BY <1>2, <1>3
  <2> QED
    BY <1>4, <1>7, <2>1, SetNextFacts
<1> HIDE DEF m1
<1>10. /\ m2 \in Lists /\ SameRest(m1, m2)
       /\ \A x \in Index : prev(m2, x) = (IF x = n THEN a ELSE prev(m1, x)) /\ next(m2, x) = next(m1, x)
  <2>1. a \in Index
    BY <1>2, <1>3
  <2> QED
    BY <1>4, <1>9, <2>1, SetPrevFacts
<1> HIDE DEF m2
<1>11. SameRest(l, m2)
  BY <1>7, <1>9, <1>10 DEF SameRest
<1>12. \A x \in Index : /\ next(m2, x) = IF x = p THEN b ELSE IF x = b THEN a ELSE IF x = a THEN n ELSE next(l, x)
                        /\ prev(m2, x) = IF x = n THEN a ELSE IF x = a THEN b ELSE IF x = b THEN p ELSE prev(l, x)
  BY <1>8, <1>9, <1>10
<1>13. ASSUME NEW x \in U \cup {End}
       PROVE  next(m2, Traded(a, b, x)) = Traded(a, b, next(l, x))
  <2>1. x \in Index /\ a \in Index /\ b \in Index
    BY <1>2, <1>3
  <2>2. CASE x = a \/ x = b
    BY <1>3, <1>5, <1>12, <2>1, <2>2 DEF Traded
  <2>3. CASE x = p
    BY <1>3, <1>4, <1>5, <1>12, <2>1, <2>3 DEF Traded
  <2>4. CASE x # a /\ x # b /\ x # p
    <3>1. next(l, x) # a /\ next(l, x) # b
      BY <1>2, <1>3, <1>4, <2>4
    <3> QED
      BY <1>12, <2>1, <2>4, <3>1 DEF Traded
  <2> QED
    BY <2>2, <2>3, <2>4
<1>14. ASSUME NEW x \in U \cup {End}
       PROVE  prev(m2, Traded(a, b, x)) = Traded(a, b, prev(l, x))
  <2>1. x \in Index /\ a \in Index /\ b \in Index
    BY <1>2, <1>3
  <2>2. CASE x = a \/ x = b
    BY <1>3, <1>4, <1>5, <1>12, <2>1, <2>2 DEF Traded
  <2>3. CASE x = n
    BY <1>3, <1>4, <1>5, <1>12, <2>1, <2>3 DEF Traded
  <2>4. CASE x # a /\ x # b /\ x # n
    <3>1. prev(l, x) # a /\ prev(l, x) # b
      BY <1>2, <1>3, <1>4, <2>4
    <3> QED
      BY <1>12, <2>1, <2>4, <3>1 DEF Traded
  <2> QED
    BY <2>2, <2>3, <2>4
<1>15. ASSUME NEW x \in Slots \ U
       PROVE  m2.next[x] = l.next[x]
  <2>1. x # End /\ x \in Index
    BY MaxAssumption DEF Slots, End, Index
  <2>2. x # a /\ x # b /\ x # p
    BY <1>3, <1>4, <2>1
  <2> QED
    BY <1>12, <2>1, <2>2 DEF next
<1> QED
  BY <1>6, <1>10, <1>11, <1>13, <1>14, <1>15 DEF Swapped, U

\* Neither follows the other.
LEMMA SwapsDistant ==
  ASSUME NEW l, NEW u, NEW f, Rep(l, u, f), NEW a \in Range(u), NEW b \in Range(u),
         a # b, l.next[a] # b, l.prev[a] # b
  PROVE  Swapped(l, SwapDistant(l, a, b), a, b, Range(u))
<1> DEFINE U == Range(u)
           pa == l.prev[a]
           na == l.next[a]
           pb == l.prev[b]
           nb == l.next[b]
           m == [l EXCEPT !.prev[a] = pb, !.next[a] = nb, !.prev[b] = pa, !.next[b] = na]
           m1 == SetNext(m, m.prev[a], a)
           ma == SetPrev(m1, m.next[a], a)
           m2 == SetNext(ma, ma.prev[b], b)
           m3 == SetPrev(m2, ma.next[b], b)
<1>1. l \in Lists
  BY DEF Rep
<1>2. /\ \A x \in U \cup {End} : /\ next(l, x) \in U \cup {End} /\ prev(l, next(l, x)) = x
                                 /\ prev(l, x) \in U \cup {End} /\ next(l, prev(l, x)) = x
      /\ \A x \in U : next(l, x) # x /\ prev(l, x) # x
      /\ U \cup {End} \subseteq Index /\ U \subseteq Slots /\ End \notin U
  BY Neighbours
<1> HIDE DEF U
<1>3. /\ a \in U /\ b \in U /\ a \in Slots /\ b \in Slots /\ a # End /\ b # End
      /\ pa = prev(l, a) /\ na = next(l, a) /\ pb = prev(l, b) /\ nb = next(l, b) /\ a # b
      /\ na # b /\ pa # b /\ a \in Index /\ b \in Index
  BY <1>2 DEF U, next, prev
<1>4. /\ next(l, pa) = a /\ prev(l, na) = a /\ next(l, pb) = b /\ prev(l, nb) = b
      /\ pa \in U \cup {End} /\ na \in U \cup {End} /\ pb \in U \cup {End} /\ nb \in U \cup {End}
      /\ pa \in Index /\ na \in Index /\ pb \in Index /\ nb \in Index
  BY <1>2, <1>3
<1>5. pa # a /\ na # a /\ pb # b /\ nb # b /\ pb # a /\ nb # a /\ pa # pb /\ na # nb
  <2>1. pa # a /\ na # a /\ pb # b /\ nb # b
    BY <1>2, <1>3
  <2>2. pb # a
    BY <1>3, <1>4
  <2>3. nb # a
    BY <1>3, <1>4
  <2> QED
    BY <1>3, <1>4, <2>1, <2>2, <2>3
<1>6. SwapDistant(l, a, b) = m3
  BY DEF SwapDistant
<1> HIDE DEF pa, na, pb, nb
<1>7. /\ m.next = [[l.next EXCEPT ![a] = nb] EXCEPT ![b] = na]
      /\ m.prev = [[l.prev EXCEPT ![a] = pb] EXCEPT ![b] = pa]
      /\ m.activeBegin = l.activeBegin /\ m.activeBack = l.activeBack /\ SameRest(l, m) /\ m \in Lists
  BY <1>1, <1>3, <1>4 DEF Lists, SameRest, Index
<1> HIDE DEF m
<1>8. \A x \in Index : /\ next(m, x) = IF x = b THEN na ELSE IF x = a THEN nb ELSE next(l, x)
                       /\ prev(m, x) = IF x = b THEN pa ELSE IF x = a THEN pb ELSE prev(l, x)
  BY <1>1, <1>3, <1>7 DEF next, prev, Lists, Index
<1>9. m.prev[a] = pb /\ m.next[a] = nb
  BY <1>3, <1>8 DEF next, prev
<1>10. /\ m1 \in Lists /\ SameRest(m, m1)
       /\ \A x \in Index : next(m1, x) = (IF x = pb THEN a ELSE next(m, x)) /\ prev(m1, x) = prev(m, x)
  <2>1. m1 = SetNext(m, pb, a)
    BY <1>9
  <2> HIDE DEF m1
  <2>2. m \in Lists /\ pb \in Index /\ a \in Index
    BY <1>3, <1>4, <1>7
  <2> QED
    BY <2>1, <2>2, SetNextFacts
<1> HIDE DEF m1
<1>11. /\ ma \in Lists /\ SameRest(m1, ma)
       /\ \A x \in Index : prev(ma, x) = (IF x = nb THEN a ELSE prev(m1, x)) /\ next(ma, x) = next(m1, x)
  <2>1. ma = SetPrev(m1, nb, a)
    BY <1>9
  <2> HIDE DEF ma
  <2>2. m1 \in Lists /\ nb \in Index /\ a \in Index
    BY <1>3, <1>4, <1>10
  <2> QED
    BY <2>1, <2>2, SetPrevFacts
<1> HIDE DEF ma
<1>12. ma.prev[b] = pa /\ ma.next[b] = na
  <2>1. prev(ma, b) = pa /\ next(ma, b) = na
    BY <1>3, <1>5, <1>8, <1>10, <1>11
  <2> QED
    BY <1>3, <2>1 DEF next, prev
<1>13. /\ m2 \in Lists /\ SameRest(ma, m2)
       /\ \A x \in Index : next(m2, x) = (IF x = pa THEN b ELSE next(ma, x)) /\ prev(m2, x) = prev(ma, x)
  <2>1. m2 = SetNext(ma, pa, b)
    BY <1>12
  <2> HIDE DEF m2
  <2>2. ma \in Lists /\ pa \in Index /\ b \in Index
    BY <1>3, <1>4, <1>11
  <2> QED
    BY <2>1, <2>2, SetNextFacts
<1> HIDE DEF m2
<1>14. /\ m3 \in Lists /\ SameRest(m2, m3)
       /\ \A x \in Index : prev(m3, x) = (IF x = na THEN b ELSE prev(m2, x)) /\ next(m3, x) = next(m2, x)
  <2>1. m3 = SetPrev(m2, na, b)
    BY <1>12
  <2> HIDE DEF m3
  <2>2. m2 \in Lists /\ na \in Index /\ b \in Index
    BY <1>3, <1>4, <1>13
  <2> QED
    BY <2>1, <2>2, SetPrevFacts
<1> HIDE DEF m3
<1>15. SameRest(l, m3)
  BY <1>7, <1>10, <1>11, <1>13, <1>14 DEF SameRest
<1>16. \A x \in Index :
         /\ next(m3, x) = IF x = pa THEN b ELSE IF x = pb THEN a ELSE IF x = b THEN na
                          ELSE IF x = a THEN nb ELSE next(l, x)
         /\ prev(m3, x) = IF x = na THEN b ELSE IF x = nb THEN a ELSE IF x = b THEN pa
                          ELSE IF x = a THEN pb ELSE prev(l, x)
  BY <1>8, <1>10, <1>11, <1>13, <1>14
<1>17. ASSUME NEW x \in U \cup {End}
       PROVE  next(m3, Traded(a, b, x)) = Traded(a, b, next(l, x))
  <2>1. x \in Index
    BY <1>2
  <2>2. CASE x = a
    BY <1>3, <1>5, <1>16, <2>2 DEF Traded
  <2>3. CASE x = b
    BY <1>3, <1>5, <1>16, <2>3 DEF Traded
  <2>4. CASE x = pa
    BY <1>3, <1>4, <1>5, <1>16, <2>4 DEF Traded
  <2>5. CASE x = pb
    BY <1>3, <1>4, <1>5, <1>16, <2>5 DEF Traded
  <2>6. CASE x # a /\ x # b /\ x # pa /\ x # pb
    <3>1. next(l, x) # a /\ next(l, x) # b
      BY <1>2, <1>3, <2>6
    <3> QED
      BY <1>16, <2>1, <2>6, <3>1 DEF Traded
  <2> QED
    BY <2>2, <2>3, <2>4, <2>5, <2>6
<1>18. ASSUME NEW x \in U \cup {End}
       PROVE  prev(m3, Traded(a, b, x)) = Traded(a, b, prev(l, x))
  <2>1. x \in Index
    BY <1>2
  <2>2. CASE x = a
    BY <1>3, <1>5, <1>16, <2>2 DEF Traded
  <2>3. CASE x = b
    BY <1>3, <1>5, <1>16, <2>3 DEF Traded
  <2>4. CASE x = na
    BY <1>3, <1>4, <1>5, <1>16, <2>4 DEF Traded
  <2>5. CASE x = nb
    BY <1>3, <1>4, <1>5, <1>16, <2>5 DEF Traded
  <2>6. CASE x # a /\ x # b /\ x # na /\ x # nb
    <3>1. prev(l, x) # a /\ prev(l, x) # b
      BY <1>2, <1>3, <2>6
    <3> QED
      BY <1>16, <2>1, <2>6, <3>1 DEF Traded
  <2> QED
    BY <2>2, <2>3, <2>4, <2>5, <2>6
<1>19. ASSUME NEW x \in Slots \ U
       PROVE  m3.next[x] = l.next[x]
  <2>1. x # End /\ x \in Index
    BY MaxAssumption DEF Slots, End, Index
  <2>2. x # a /\ x # b /\ x # pa /\ x # pb
    BY <1>3, <1>4, <2>1
  <2> QED
    BY <1>16, <2>1, <2>2 DEF next
<1> QED
  BY <1>6, <1>14, <1>15, <1>17, <1>18, <1>19 DEF Swapped, U

LEMMA Swaps ==
  ASSUME NEW l, NEW u, NEW f, Rep(l, u, f), NEW a \in Range(u), NEW b \in Range(u)
  PROVE  \E j, k \in 1 .. Len(u) :
           a = u[j] /\ b = u[k] /\ Rep(swap(l, a, b), [u EXCEPT ![j] = u[k], ![k] = u[j]], f)
<1>1. u \in Seq(Slots) /\ Range(u) = {u[i] : i \in 1 .. Len(u)}
  BY Members DEF Rep
<1>2. PICK j \in 1 .. Len(u) : a = u[j]
  BY <1>1
<1>3. PICK k \in 1 .. Len(u) : b = u[k]
  BY <1>1
<1>4. a # End /\ b # End /\ next(l, prev(l, a)) = a
  BY Neighbours
<1>5. CASE a = b
  <2>1. swap(l, a, b) = l
    BY <1>5 DEF swap
  <2>2. [u EXCEPT ![j] = u[j], ![j] = u[j]] = u
    <3>1. u \in [1 .. Len(u) -> Slots]
      BY <1>1, Members
    <3> QED
      BY <3>1
  <2> QED
    BY <1>2, <1>5, <2>1, <2>2
<1>6. CASE a # b /\ l.prev[a] = b
  <2>1. l.next[b] = a
    BY <1>4, <1>6 DEF next, prev
  <2>2. swap(l, a, b) = SwapNeighbours(l, b, a)
    BY <1>4, <1>6 DEF swap
  <2>3. Rep(swap(l, a, b), [u EXCEPT ![k] = u[j], ![j] = u[k]], f)
    BY <1>2, <1>3, <2>1, <2>2, SwapsNeighbours, Swapping
  <2>4. [u EXCEPT ![k] = u[j], ![j] = u[k]] = [u EXCEPT ![j] = u[k], ![k] = u[j]]
    <3>1. u \in [1 .. Len(u) -> Slots] /\ j # k
      BY <1>1, <1>2, <1>3, <1>6, Members
    <3> QED
      BY <3>1
  <2> QED
    BY <1>2, <1>3, <2>3, <2>4
<1>7. CASE a # b /\ l.prev[a] # b /\ l.next[a] = b
  <2>1. swap(l, a, b) = SwapNeighbours(l, a, b)
    BY <1>4, <1>7 DEF swap
  <2>2. Rep(swap(l, a, b), [u EXCEPT ![j] = u[k], ![k] = u[j]], f)
    BY <1>2, <1>3, <1>7, <2>1, SwapsNeighbours, Swapping
  <2> QED
    BY <1>2, <1>3, <2>2
<1>8. CASE a # b /\ l.prev[a] # b /\ l.next[a] # b
  <2>1. swap(l, a, b) = SwapDistant(l, a, b)
    BY <1>4, <1>8 DEF swap
  <2>2. Rep(swap(l, a, b), [u EXCEPT ![j] = u[k], ![k] = u[j]], f)
    BY <1>2, <1>3, <1>8, <2>1, SwapsDistant, Swapping
  <2> QED
    BY <1>2, <1>3, <2>2
<1> QED
  BY <1>5, <1>6, <1>7, <1>8

(* ----------------------------- the theorems ------------------------------ *)

\* The links stand for the sequences that walking along them gives.
Faithful == Rep(list, UsedSeq, FreeSeq)

LEMMA Stands ==
  ASSUME NEW u, NEW f, Rep(list, u, f)
  PROVE  UsedSeq = u /\ FreeSeq = f /\ Faithful
<1>1. UsedSeq = u /\ FreeSeq = f
  BY Represented DEF UsedSeq, FreeSeq
<1> QED
  BY <1>1 DEF Faithful

LEMMA StandsNext ==
  ASSUME NEW u, NEW f, Rep(list', u, f)
  PROVE  UsedSeq' = u /\ FreeSeq' = f /\ Faithful'
<1>1. UsedSeq' = u /\ FreeSeq' = f
  <2>1. /\ Chain(list'.activeBegin, list'.next) = u
        /\ (IF list'.freeBegin = End THEN << >>
            ELSE Chain(list'.freeBegin, [list'.next EXCEPT ![list'.freeBack] = End])) = f
    BY Represented
  <2> QED
    BY <2>1 DEF UsedSeq, FreeSeq
<1> QED
  BY <1>1 DEF Faithful

LEMMA InitRep ==
  ASSUME Init
  PROVE  Rep(list, << >>, [i \in 1 .. MAX |-> i - 1])
<1> DEFINE f == [i \in 1 .. MAX |-> i - 1]
<1>1. MAX \in Nat /\ MAX # 0 /\ 1 \in 1 .. MAX /\ MAX \in 1 .. MAX /\ Slots = 0 .. MAX - 1 /\ End = -1
      /\ 0 \in Slots /\ MAX - 1 \in Slots /\ 0 \in 0 .. MAX
  BY MaxAssumption DEF Slots, End
<1>2. f \in [1 .. MAX -> Slots] /\ DOMAIN f = 1 .. MAX /\ \A i \in 1 .. MAX : f[i] = i - 1
  <2>1. \A i \in 1 .. MAX : i - 1 \in Slots
    BY <1>1
  <2> QED
    BY <2>1
<1> HIDE DEF f
<1>3. f \in Seq(Slots) /\ Len(f) = MAX
  BY <1>1, <1>2, SeqDef, LenProperties
<1>4. << >> \in Seq(Slots) /\ Len(<< >>) = 0 /\ Range(<< >>) = {}
  <2>1. Range(<< >>) = {}
    BY DEF Range
  <2> QED
    BY <2>1, EmptySeq
<1>5. /\ list.next = [x \in Slots |-> IF x + 1 < MAX THEN x + 1 ELSE End]
      /\ list.prev = [x \in Slots |-> End]
      /\ list.activeBegin = End /\ list.activeBack = End
      /\ list.freeBegin = 0 /\ list.freeBack = MAX - 1
      /\ list.cursize = 0 /\ list.alive = {}
  BY DEF Init
<1>6. list \in Lists
  <2>1. \A x \in Slots : x + 1 < MAX => x + 1 \in Slots
    BY <1>1
  <2>2. [x \in Slots |-> IF x + 1 < MAX THEN x + 1 ELSE End] \in [Slots -> Index]
    BY <2>1 DEF Index
  <2>3. [x \in Slots |-> End] \in [Slots -> Index]
    BY DEF Index
  <2> QED
    BY <1>1, <2>2, <2>3 DEF Init, Lists, Index
<1>7. Apart(<< >>, f)
  <2>1. Injective(f)
    BY <1>1, <1>2, <1>3 DEF Injective
  <2>2. ASSUME NEW x \in Slots
        PROVE  \E k \in 1 .. Len(f) : x = f[k]
    <3>1. x + 1 \in 1 .. MAX /\ (x + 1) - 1 = x
      BY <1>1
    <3> QED
      BY <1>2, <1>3, <3>1
  <2> QED
    BY <1>1, <1>3, <1>4, <2>1, <2>2 DEF Apart, Injective
<1>8. Ring(list, << >>)
  <2>1. \A k \in 0 .. 0 : k = 0
    OBVIOUS
  <2>2. At(<< >>, 0) = End /\ At(<< >>, 0 + 1) = End
    BY <1>4 DEF At
  <2> QED
    BY <1>4, <1>5, <2>1, <2>2 DEF Ring, next, prev
<1>9. Queue(list, f)
  <2>1. list.freeBegin = At(f, 1) /\ list.freeBack = At(f, Len(f))
    BY <1>1, <1>2, <1>3, <1>5 DEF At
  <2>2. ASSUME NEW k \in 1 .. MAX - 1
        PROVE  list.next[f[k]] = f[k + 1]
    <3>1. k \in 1 .. MAX /\ k + 1 \in 1 .. MAX /\ k - 1 \in Slots /\ k - 1 + 1 < MAX /\ k - 1 + 1 = k + 1 - 1
      BY <1>1
    <3>2. f[k] = k - 1 /\ f[k + 1] = k + 1 - 1
      BY <1>2, <3>1
    <3> QED
      BY <1>5, <3>1, <3>2
  <2> QED
    BY <1>3, <2>1, <2>2 DEF Queue
<1>10. Rep(list, << >>, f)
  BY <1>3, <1>4, <1>5, <1>6, <1>7, <1>8, <1>9 DEF Rep
<1> QED
  BY <1>10 DEF f

\* The pool the links stand for.
PoolNow == [used |-> UsedSeq, free |-> FreeSeq]

\* What is in a list has one position there.
LEMMA ThePosition ==
  ASSUME NEW u \in Seq(Slots), NEW f, Injective(u), NEW i \in 1 .. Len(u)
  PROVE  Abstract!Position([used |-> u, free |-> f], u[i]) = i
<1>1. DOMAIN u = 1 .. Len(u)
  BY Members
<1>2. \A k \in DOMAIN u : u[k] = u[i] => k = i
  BY <1>1 DEF Injective
<1>3. (CHOOSE k \in DOMAIN u : u[k] = u[i]) = i
  BY <1>1, <1>2
<1> QED
  BY <1>3 DEF Abstract!Position

\* An insertion, and a removal, that the links make are those of the pool.
LEMMA EntersAt ==
  ASSUME NEW k \in 1 .. Len(UsedSeq) + 1, FreeSeq # << >>,
         Rep(list', With(UsedSeq, k, Head(FreeSeq)), Tail(FreeSeq))
  PROVE  Faithful' /\ Abstract!Enter(k)
<1>1. Faithful' /\ UsedSeq' = With(UsedSeq, k, Head(FreeSeq)) /\ FreeSeq' = Tail(FreeSeq)
  BY StandsNext
<1>2. Abstract!Insert(PoolNow, k) = [used |-> With(UsedSeq, k, Head(FreeSeq)), free |-> Tail(FreeSeq)]
  BY DEF Abstract!Insert, With, PoolNow
<1>3. ~Abstract!IsFull(PoolNow)
  BY DEF Abstract!IsFull, PoolNow
<1> QED
  BY <1>1, <1>2, <1>3 DEF Abstract!Enter, PoolNow

LEMMA LeavesAt ==
  ASSUME NEW k \in 1 .. Len(UsedSeq), Rep(list', Without(UsedSeq, k), Append(FreeSeq, UsedSeq[k]))
  PROVE  Faithful' /\ PoolNow' = Abstract!TakeOut(PoolNow, k)
<1>1. Faithful' /\ UsedSeq' = Without(UsedSeq, k) /\ FreeSeq' = Append(FreeSeq, UsedSeq[k])
  BY StandsNext
<1>2. Abstract!TakeOut(PoolNow, k) = [used |-> Without(UsedSeq, k), free |-> Append(FreeSeq, UsedSeq[k])]
  BY DEF Abstract!TakeOut, Without, PoolNow
<1> QED
  BY <1>1, <1>2 DEF PoolNow

LEMMA FaithfulFacts ==
  ASSUME Faithful
  PROVE  /\ Rep(list, UsedSeq, FreeSeq) /\ UsedSeq \in Seq(Slots) /\ Injective(UsedSeq)
         /\ Len(UsedSeq) \in Nat /\ 1 \in 1 .. Len(UsedSeq) + 1
         /\ Len(UsedSeq) + 1 \in 1 .. Len(UsedSeq) + 1
         /\ UsedSeq # << >> => 1 \in 1 .. Len(UsedSeq) /\ Len(UsedSeq) \in 1 .. Len(UsedSeq)
         /\ Used = Range(UsedSeq) /\ (Used # {} => UsedSeq # << >>)
         /\ list.freeBegin # End => FreeSeq # << >>
         /\ Abstract!UsedSlots(PoolNow) = Used
<1>1. /\ Rep(list, UsedSeq, FreeSeq) /\ UsedSeq \in Seq(Slots) /\ Injective(UsedSeq)
      /\ Queue(list, FreeSeq)
  BY DEF Faithful, Rep, Apart
<1>2. Len(UsedSeq) \in Nat /\ (UsedSeq # << >> => Len(UsedSeq) # 0)
  BY <1>1, EmptySeq, LenProperties
<1>3. Used = Range(UsedSeq) /\ (Used # {} => UsedSeq # << >>)
  <2>1. Range(<< >>) = {}
    BY DEF Range
  <2> QED
    BY <2>1 DEF Used
<1>4. list.freeBegin # End => FreeSeq # << >>
  <2>1. Len(<< >>) = 0 /\ 1 \notin 1 .. 0
    BY EmptySeq
  <2> QED
    BY <1>1, <2>1 DEF Queue, At
<1>5. Abstract!UsedSlots(PoolNow) = Used
  BY <1>3 DEF Abstract!UsedSlots, PoolNow, Range, Abstract!Range
<1> QED
  BY <1>1, <1>2, <1>3, <1>4, <1>5

\* Each call keeps the links faithful and is the operation of the pool that
\* it names, on the slot it names.
LEMMA InsertStep ==
  ASSUME Faithful
  PROVE  /\ PushFront => Faithful' /\ Abstract!EntersInFront
         /\ PushBack => Faithful' /\ Abstract!EntersAtBack
         /\ \A x \in Used \cup {End} : /\ PushBefore(x) => Faithful' /\ Abstract!EntersBefore(x)
                                       /\ PushAfter(x) => Faithful' /\ Abstract!EntersBehind(x)
<1> DEFINE u == UsedSeq
           f == FreeSeq
<1>1. /\ Rep(list, u, f) /\ u \in Seq(Slots) /\ Injective(u) /\ Len(u) \in Nat
      /\ 1 \in 1 .. Len(u) + 1 /\ Len(u) + 1 \in 1 .. Len(u) + 1
      /\ Used = Range(u)
      /\ list.freeBegin # End => f # << >>
  BY FaithfulFacts
<1>2. \A k \in 1 .. Len(u) : At(u, k) = u[k] /\ u[k] # End
  BY <1>1, AtFacts
<1>3. \A k \in 1 .. Len(u) : Abstract!Position(PoolNow, u[k]) = k
  BY <1>1, ThePosition DEF PoolNow
<1>4. Len(PoolNow.used) = Len(u)
  BY DEF PoolNow
<1>5. PushFront => Faithful' /\ Abstract!EntersInFront
  <2> SUFFICES ASSUME PushFront PROVE Faithful' /\ Abstract!EntersInFront
    OBVIOUS
  <2>1. f # << >> /\ Rep(list', With(u, 1, Head(f)), Tail(f))
    BY <1>1, NewFront DEF PushFront, Put
  <2>2. Faithful' /\ Abstract!Enter(1)
    BY <1>1, <2>1, EntersAt
  <2> QED
    BY <2>2 DEF Abstract!Enter, Abstract!EntersInFront, Abstract!PushFront
<1>6. PushBack => Faithful' /\ Abstract!EntersAtBack
  <2> SUFFICES ASSUME PushBack PROVE Faithful' /\ Abstract!EntersAtBack
    OBVIOUS
  <2>1. f # << >> /\ Rep(list', With(u, Len(u) + 1, Head(f)), Tail(f))
    BY <1>1, NewBack DEF PushBack, Put
  <2>2. Faithful' /\ Abstract!Enter(Len(u) + 1)
    BY <1>1, <2>1, EntersAt
  <2> QED
    BY <2>2 DEF Abstract!Enter, Abstract!EntersAtBack, Abstract!PushBack
<1>7. ASSUME NEW x \in Used \cup {End}, PushBefore(x)
      PROVE  Faithful' /\ Abstract!EntersBefore(x)
  <2>1. f # << >> /\ list' = new_before(list, x)
    BY <1>1, <1>7 DEF PushBefore, Put
  <2>2. PICK k \in 1 .. Len(u) + 1 : x = At(u, k) /\ Rep(list', With(u, k, Head(f)), Tail(f))
    BY <1>1, <2>1, NewBefore
  <2>3. Faithful' /\ Abstract!Enter(k)
    BY <2>1, <2>2, EntersAt
  <2>4. Abstract!Before(x) = k
    <3>1. CASE k \in 1 .. Len(u)
      BY <1>2, <1>3, <2>2, <3>1 DEF Abstract!Before, Abstract!End, End, PoolNow
    <3>2. CASE k = Len(u) + 1
      <4>1. x = End
        BY <1>1, <2>2, <3>2 DEF At
      <4> QED
        BY <3>2, <4>1 DEF Abstract!Before, Abstract!End, End
    <3> QED
      BY <1>1, <3>1, <3>2
  <2> QED
    BY <2>3, <2>4 DEF Abstract!EntersBefore
<1>8. ASSUME NEW x \in Used \cup {End}, PushAfter(x)
      PROVE  Faithful' /\ Abstract!EntersBehind(x)
  <2>1. f # << >> /\ list' = new_after(list, x)
    BY <1>1, <1>8 DEF PushAfter, Put
  <2>2. PICK k \in 1 .. Len(u) + 1 : x = At(u, k - 1) /\ Rep(list', With(u, k, Head(f)), Tail(f))
    BY <1>1, <2>1, NewAfter
  <2>3. Faithful' /\ Abstract!Enter(k)
    BY <2>1, <2>2, EntersAt
  <2>4. Abstract!Behind(x) = k
    <3>1. CASE k - 1 \in 1 .. Len(u)
      <4>1. x # End /\ Abstract!Position(PoolNow, x) = k - 1
        BY <1>2, <1>3, <2>2, <3>1
      <4>2. k - 1 + 1 = k
        BY <1>1
      <4> QED
        BY <4>1, <4>2 DEF Abstract!Behind, Abstract!End, End, PoolNow
    <3>2. CASE k = 1
      <4>1. x = End
        BY <1>1, <2>2, <3>2 DEF At
      <4> QED
        BY <3>2, <4>1 DEF Abstract!Behind, Abstract!End, End
    <3> QED
      BY <1>1, <3>1, <3>2
  <2> QED
    BY <2>3, <2>4 DEF Abstract!EntersBehind
<1> QED
  BY <1>5, <1>6, <1>7, <1>8

LEMMA OtherStep ==
  ASSUME Faithful
  PROVE  /\ PopFront => Faithful' /\ Abstract!FirstLeaves
         /\ PopBack => Faithful' /\ Abstract!LastLeaves
         /\ \A x \in Used : EraseOne(x) => Faithful' /\ Abstract!Leaves(x)
         /\ ClearAll => Faithful' /\ Abstract!AllLeave
         /\ \A a, b \in Used : SwapTwo(a, b) => Faithful' /\ Abstract!TradePlaces(a, b)
<1> DEFINE u == UsedSeq
           f == FreeSeq
<1>1. /\ Rep(list, u, f) /\ u \in Seq(Slots) /\ Injective(u) /\ Len(u) \in Nat
      /\ u # << >> => 1 \in 1 .. Len(u) /\ Len(u) \in 1 .. Len(u)
      /\ Used = Range(u) /\ (Used # {} => u # << >>)
  BY FaithfulFacts
<1>2. \A k \in 1 .. Len(u) : Abstract!Position(PoolNow, u[k]) = k
  BY <1>1, ThePosition DEF PoolNow
<1>3. PopFront => Faithful' /\ Abstract!FirstLeaves
  <2> SUFFICES ASSUME PopFront PROVE Faithful' /\ Abstract!FirstLeaves
    OBVIOUS
  <2>1. 1 \in 1 .. Len(u) /\ Rep(list', Without(u, 1), Append(f, u[1]))
    BY <1>1, PopsFront DEF PopFront
  <2> QED
    BY <2>1, LeavesAt DEF Abstract!FirstLeaves, PoolNow
<1>4. PopBack => Faithful' /\ Abstract!LastLeaves
  <2> SUFFICES ASSUME PopBack PROVE Faithful' /\ Abstract!LastLeaves
    OBVIOUS
  <2>1. Len(u) \in 1 .. Len(u) /\ Rep(list', Without(u, Len(u)), Append(f, u[Len(u)]))
    BY <1>1, PopsBack DEF PopBack
  <2> QED
    BY <2>1, LeavesAt DEF Abstract!LastLeaves, PoolNow
<1>5. ASSUME NEW x \in Used, EraseOne(x)
      PROVE  Faithful' /\ Abstract!Leaves(x)
  <2>1. PICK k \in 1 .. Len(u) : x = u[k] /\ Rep(list', Without(u, k), Append(f, u[k]))
    BY <1>1, <1>5, Erases DEF EraseOne
  <2>2. Faithful' /\ PoolNow' = Abstract!TakeOut(PoolNow, k)
    BY <2>1, LeavesAt
  <2>3. Abstract!Position(PoolNow, x) = k
    BY <1>2, <2>1
  <2> QED
    BY <2>2, <2>3 DEF Abstract!Leaves, Abstract!Erase, PoolNow
<1>6. ClearAll => Faithful' /\ Abstract!AllLeave
  <2> SUFFICES ASSUME ClearAll PROVE Faithful' /\ Abstract!AllLeave
    OBVIOUS
  <2>1. Rep(list', << >>, f \o u)
    BY <1>1, Clears DEF ClearAll
  <2>2. Faithful' /\ UsedSeq' = << >> /\ FreeSeq' = f \o u
    BY <2>1, StandsNext
  <2>3. PoolNow' = Abstract!Clear(PoolNow)
    BY <2>2 DEF Abstract!Clear, PoolNow
  <2> QED
    BY <2>2, <2>3 DEF Abstract!AllLeave, PoolNow
<1>7. ASSUME NEW a \in Used, NEW b \in Used, SwapTwo(a, b)
      PROVE  Faithful' /\ Abstract!TradePlaces(a, b)
  <2>1. PICK j \in 1 .. Len(u), k \in 1 .. Len(u) :
               a = u[j] /\ b = u[k] /\ Rep(list', [u EXCEPT ![j] = u[k], ![k] = u[j]], f)
    BY <1>1, <1>7, Swaps DEF SwapTwo
  <2>2. Faithful' /\ UsedSeq' = [u EXCEPT ![j] = u[k], ![k] = u[j]] /\ FreeSeq' = f
    BY <2>1, StandsNext
  <2>3. PoolNow' = Abstract!Exchange(PoolNow, j, k)
    <3>1. Abstract!Exchange(PoolNow, j, k) = [used |-> [u EXCEPT ![j] = u[k], ![k] = u[j]], free |-> f]
      BY DEF Abstract!Exchange, PoolNow
    <3> QED
      BY <2>2, <3>1 DEF PoolNow
  <2>4. Abstract!Position(PoolNow, a) = j /\ Abstract!Position(PoolNow, b) = k
    BY <1>2, <2>1
  <2> QED
    BY <2>2, <2>3, <2>4 DEF Abstract!TradePlaces, PoolNow
<1> QED
  BY <1>3, <1>4, <1>5, <1>6, <1>7

\* Every step is a step of the pool.
LEMMA Step ==
  ASSUME Faithful, Next
  PROVE  Faithful' /\ Abstract!Next
<1>1. Abstract!UsedSlots(PoolNow) = Used /\ (Used # {} => UsedSeq # << >>)
  BY FaithfulFacts
<1>2. CASE PushFront \/ PushBack
  BY <1>2, InsertStep DEF Abstract!Next
<1>3. CASE \E x \in Used \cup {End} : PushBefore(x) \/ PushAfter(x)
  <2>1. PICK x \in Used \cup {End} : PushBefore(x) \/ PushAfter(x)
    BY <1>3
  <2>2. Faithful' /\ (Abstract!EntersBefore(x) \/ Abstract!EntersBehind(x))
    <3>1. /\ PushBefore(x) => Faithful' /\ Abstract!EntersBefore(x)
          /\ PushAfter(x) => Faithful' /\ Abstract!EntersBehind(x)
      BY InsertStep, Zenon
    <3> QED
      BY <2>1, <3>1, Zenon
  <2> QED
    BY <1>1, <2>2 DEF Abstract!Next, PoolNow, Abstract!End, End
<1>4. CASE PopFront \/ PopBack
  <2>1. UsedSeq # << >>
    BY <1>1, <1>4 DEF PopFront, PopBack
  <2>2. Faithful' /\ (Abstract!FirstLeaves \/ Abstract!LastLeaves)
    BY <1>4, OtherStep
  <2> QED
    BY <2>1, <2>2 DEF Abstract!Next
<1>5. CASE \E x \in Used : EraseOne(x)
  <2>1. PICK x \in Used : EraseOne(x)
    BY <1>5
  <2>2. Faithful' /\ Abstract!Leaves(x)
    BY <2>1, OtherStep
  <2> QED
    BY <1>1, <2>2 DEF Abstract!Next, PoolNow
<1>6. CASE ClearAll
  BY <1>6, OtherStep DEF Abstract!Next
<1>7. CASE \E a, b \in Used : SwapTwo(a, b)
  <2>1. PICK a \in Used, b \in Used : SwapTwo(a, b)
    BY <1>7
  <2>2. Faithful' /\ Abstract!TradePlaces(a, b)
    BY <2>1, OtherStep
  <2> QED
    BY <1>1, <2>2 DEF Abstract!Next, PoolNow
<1> QED
  BY <1>2, <1>3, <1>4, <1>5, <1>6, <1>7 DEF Next

\* Whatever is called, the links are those of two sequences that hold every
\* slot once.
THEOREM Inductive == Spec => []Faithful
<1>1. Init => Faithful
  BY InitRep, Stands
<1>2. Faithful /\ [Next]_list => Faithful'
  <2>1. Faithful /\ UNCHANGED list => Faithful'
    BY DEF Faithful, UsedSeq, FreeSeq
  <2> QED
    BY <2>1, Step
<1> QED
  BY <1>1, <1>2, PTL DEF Spec

\* The fields have their types: a link is a slot or end(), and the size is at
\* most the capacity.
THEOREM Typed == Spec => []TypeOK
<1>1. Faithful => TypeOK
  BY DEF Faithful, Rep, Lists, TypeOK
<1> QED
  BY <1>1, Inductive, PTL

\* No call loses a slot or has one in two places, both directions of the list
\* agree, and a T is constructed exactly in the used slots.
THEOREM NothingLost == Spec => []NoSlotLost
<1>1. Faithful => NoSlotLost
  <2> SUFFICES ASSUME Faithful PROVE NoSlotLost
    OBVIOUS
  <2>1. Rep(list, UsedSeq, FreeSeq)
    BY DEF Faithful
  <2>2. UsedReversed = Reversed(UsedSeq) /\ Range(UsedSeq) \cup Range(FreeSeq) = Slots
    BY <2>1, Represented DEF UsedReversed
  <2> QED
    BY <2>1, <2>2 DEF Rep, Apart, NoSlotLost, Used, Reversed
<1> QED
  BY <1>1, Inductive, PTL

\* The linked list implements the ordered pool, call by call: push_front() puts
\* the first free slot in front, erase(x) takes out x, swap(a, b) lets these two
\* trade places, and so on, and nothing else changes.
THEOREM Refinement == Spec => ImplementsPool
<1>1. Init => Abstract!Init
  <2> SUFFICES ASSUME Init PROVE Abstract!Init
    OBVIOUS
  <2>1. UsedSeq = << >> /\ FreeSeq = [i \in 1 .. MAX |-> i - 1]
    BY InitRep, Stands
  <2> QED
    BY <2>1 DEF Abstract!Init, Abstract!EmptyPool
<1>2. Faithful /\ [Next]_list => [Abstract!Next]_[used |-> UsedSeq, free |-> FreeSeq]
  <2>1. Faithful /\ Next => Abstract!Next
    BY Step
  <2>2. UNCHANGED list => UNCHANGED [used |-> UsedSeq, free |-> FreeSeq]
    BY DEF UsedSeq, FreeSeq
  <2> QED
    BY <2>1, <2>2
<1>3. Faithful => EachCallAsNamed
  <2> SUFFICES ASSUME Faithful PROVE EachCallAsNamed
    OBVIOUS
  <2>1. /\ PushFront => Abstract!EntersInFront
        /\ PushBack => Abstract!EntersAtBack
        /\ \A x \in Used \cup {End} : /\ PushBefore(x) => Abstract!EntersBefore(x)
                                      /\ PushAfter(x) => Abstract!EntersBehind(x)
    BY InsertStep, Zenon
  <2>2. /\ PopFront => Abstract!FirstLeaves
        /\ PopBack => Abstract!LastLeaves
        /\ \A x \in Used : EraseOne(x) => Abstract!Leaves(x)
        /\ ClearAll => Abstract!AllLeave
        /\ \A a, b \in Used : SwapTwo(a, b) => Abstract!TradePlaces(a, b)
    BY OtherStep, Zenon
  <2> QED
    BY <2>1, <2>2, Zenon DEF EachCallAsNamed
<1>4. Faithful /\ [Next]_list => [EachCallAsNamed]_list
  BY <1>3
<1> QED
  BY <1>1, <1>2, <1>4, Inductive, PTL DEF Spec, ImplementsPool, Abstract!Spec
=============================================================================
