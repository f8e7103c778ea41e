------------------------ MODULE WorldStatePoolProofs ------------------------
(***************************************************************************)
(* Proofs about WorldStatePool, for any number of buffers but one, any     *)
(* number of frames and PID settings, with and without motion feedback.    *)
(***************************************************************************)
EXTENDS WorldStatePool, FiniteSetTheorems, SequenceTheorems, TLAPS

-------------------------------------------------------------------------------
(* The invariant                                                           *)

Labels == {"idle", "entered", "reset", "source", "select", "lock", "check", "got", "fill",
           "post", "release", "done", "unsource", "leave"}
Flags == {SENSORS_APPLIED, FEEDBACK_APPLIED}

BufferType == [frame : Nat, reading : Nat, writing : Nat, status : SUBSET Flags,
               complete : BOOLEAN, writeLock : Processes \cup {"free"},
               shows : Nat \cup {None}, pids : Nat]

ProcType == [pc : Labels, got : Nat, polls : BOOLEAN, default : Buffers \cup {None},
             src : Buffers \cup {None}, buf : Buffers \cup {None}, state : Buffers \cup {None},
             frame : Nat \cup {None}, status : SUBSET Flags, complete : BOOLEAN, partial : BOOLEAN]

LastFrame == IF sent = 0 THEN 0 ELSE sent - 1

TypeOK ==
  /\ sent \in Nat /\ feedback \in BOOLEAN /\ pidsSent \in Nat
  /\ order \in Seq(Buffers) /\ ToSet(order) = Buffers
  /\ states \in [Buffers -> BufferType] /\ proc \in [Processes -> ProcType]
  /\ announced \in SUBSET Nat /\ again \in BOOLEAN /\ scarce \in BOOLEAN /\ crossed \in BOOLEAN

\* The readers and writers a buffer counts are those there are.
Reads(q, b) == (IF q.default = b THEN 1 ELSE 0) + (IF q.src = b THEN 1 ELSE 0)
Writes(q, b) == IF q.buf = b /\ q.pc # "unsource" THEN 1 ELSE 0

Counted(b, st, pr) ==
  /\ st[b].reading = Reads(pr["Main"], b) + Reads(pr["Motion"], b)
  /\ st[b].writing = Writes(pr["Main"], b) + Writes(pr["Motion"], b)
CountInv == \A b \in Buffers : Counted(b, states, proc)

\* Who has a buffer, and its lock.
Has(q) == q.buf # None /\ q.pc # "unsource"
Holds(q) == q.buf # None /\ q.pc \in {"check", "got", "fill", "post", "release", "done"}
LockInv == \A p \in Processes : Holds(proc[p]) => states[proc[p].buf].writeLock = p

\* Where a request has its default, its source and its buffer.
Where(q) ==
  /\ q.default = None <=> q.pc = "idle"
  /\ q.default # None => q.state # None
  /\ q.pc \in {"select", "lock", "check", "got", "fill", "release", "done", "unsource"}
       => q.src # None
  /\ q.pc \in {"idle", "entered", "reset", "source", "leave"} => q.src = None
  /\ q.buf # None =>
       /\ q.pc \in {"lock", "check", "got", "fill", "post", "release", "done", "unsource"}
       /\ q.src # None
  /\ q.pc \in {"lock", "check"} => q.buf # None
  /\ (q.src = None \/ q.pc \in {"select", "lock", "check"}) => (~q.complete /\ q.status = {})
  /\ q.pc \in {"entered", "reset", "source", "select", "lock", "check", "unsource"} => q.state = q.default
  /\ q.pc \in {"got", "fill"} => q.state = IF q.buf = None THEN q.default ELSE q.buf
  /\ q.state \in {q.default, q.src} \/ (q.state = q.buf /\ Holds(q))
WhereInv == \A p \in Processes : Where(proc[p])

\* Frames are numbered as they are sent.
FrameInv ==
  /\ \A b \in Buffers : states[b].frame <= LastFrame
  /\ \A p \in Processes :
       /\ (proc[p].src # None \/ proc[p].pc \in {"source", "reset", "post"}) => proc[p].frame \in 0 .. LastFrame
       /\ proc[p].got <= sent

\* What a buffer shows and is said to be; whoever reads, reads a complete one.
Truthful(s) ==
  /\ s.complete => s.shows \in {s.frame, None}
  /\ SENSORS_APPLIED \in s.status => s.shows = s.frame

ReadsComplete(q, st) ==
  /\ q.default # None => st[q.default].complete
  /\ q.src # None => st[q.src].complete

BufferInv ==
  /\ \E b \in Buffers : states[b].complete
  /\ \A b \in Buffers : Truthful(states[b])
  /\ \A p \in Processes : ReadsComplete(proc[p], states)

\* What a writer knows of its buffer: nobody else changes it meanwhile.
Writer(q, st, last) ==
  /\ Has(q) => st[q.buf].frame = q.frame
  /\ (q.buf = None /\ q.pc = "got") => (q.frame < last /\ ~q.complete /\ q.status = {})
  /\ q.pc = "fill" =>
       /\ q.buf # None /\ ~q.complete
       /\ q.partial => SENSORS_APPLIED \in q.status
  /\ (q.pc \in {"got", "fill"} /\ ~q.complete /\ q.buf # None) => ~st[q.buf].complete
  /\ (Holds(q) /\ q.pc # "check") =>
       /\ SENSORS_APPLIED \in q.status => st[q.buf].shows = q.frame
       /\ q.complete => (SENSORS_APPLIED \in q.status \/ st[q.buf].complete)
WriterInv == \A p \in Processes : Writer(proc[p], states, LastFrame)

IInv ==
  /\ TypeOK /\ CountInv /\ LockInv /\ WhereInv /\ FrameInv
  /\ ~scarce => BufferInv /\ WriterInv

-------------------------------------------------------------------------------
(* Choosing a buffer                                                       *)

(* Every set of numbers has a least one.                                    *)
LEMMA LeastNat ==
  ASSUME NEW T \in SUBSET Nat, T # {}
  PROVE  \E x \in T : \A y \in T : x <= y
<1>1. IsWellFoundedOn(OpToRel(<, Nat), Nat)
  BY NatLessThanWellFounded, Zenon
<1>2. T \subseteq Nat
  OBVIOUS
<1>3. \E x \in T : \A y \in T : <<y, x>> \notin OpToRel(<, Nat)
  BY <1>1, <1>2, WFMin, Zenon
<1>4. \E x \in T : \A y \in T : ~(y < x)
  BY <1>3, Zenon DEF OpToRel
<1> QED
  BY <1>4

LEMMA LargestNat ==
  ASSUME NEW n \in Nat, NEW I \in SUBSET (1 .. n), I # {}
  PROVE  \E x \in I : \A y \in I : x >= y
<1> DEFINE T == {n - i : i \in I}
<1>1. T \in SUBSET Nat /\ T # {}
  <2>1. \A i \in I : n - i \in Nat
    OBVIOUS
  <2> QED
    BY <2>1
<1>2. PICK t \in T : \A u \in T : t <= u
  BY <1>1, LeastNat
<1>3. PICK x \in I : t = n - x
  OBVIOUS
<1>4. \A y \in I : n - x <= n - y
  BY <1>2, <1>3
<1> QED
  BY <1>4

LEMMA MinMax ==
  ASSUME NEW n \in Nat, NEW I \in SUBSET (1 .. n), I # {}
  PROVE  Min(I) \in I /\ Max(I) \in I
<1>1. \E x \in I : \A y \in I : x <= y
  BY LeastNat
<1>2. \E x \in I : \A y \in I : x >= y
  BY LargestNat
<1>3. Min(I) \in I
  BY <1>1 DEF Min
<1>4. Max(I) \in I
  BY <1>2 DEF Max
<1> QED
  BY <1>3, <1>4

LEMMA OrderFacts ==
  ASSUME TypeOK
  PROVE  /\ Len(order) \in Nat \ {0} /\ DOMAIN order = 1 .. Len(order)
         /\ \A i \in 1 .. Len(order) : order[i] \in Buffers
         /\ Newest \in Buffers /\ None \notin Buffers
<1>1. /\ Len(order) \in Nat /\ DOMAIN order = 1 .. Len(order)
      /\ \A i \in 1 .. Len(order) : order[i] \in Buffers
  BY LenProperties, ElementOfSeq DEF TypeOK
<1>2. 0 \in Buffers
  BY Bounds DEF Buffers
<1>3. Len(order) # 0
  BY <1>1, <1>2 DEF TypeOK, ToSet
<1>4. Newest = order[Len(order)]
  BY DEF Newest, Last
<1> QED
  BY <1>1, <1>3, <1>4 DEF Buffers, None

LEMMA ReadableFacts ==
  ASSUME TypeOK
  PROVE  /\ Readable \in Buffers
         /\ (\E b \in Buffers : states[b].complete) => states[Readable].complete
<1> DEFINE I == {i \in 1 .. Len(order) : states[order[i]].complete}
           n == IF I # {} THEN Max(I) ELSE 0
<1>1. /\ Len(order) \in Nat \ {0} /\ DOMAIN order = 1 .. Len(order) /\ Newest \in Buffers
      /\ \A i \in 1 .. Len(order) : order[i] \in Buffers
  BY OrderFacts
<1>2. Readable = IF n = 0 THEN Newest ELSE order[n]
  BY DEF Readable, SelectLastInSeq
<1>3. I # {} => Max(I) \in 1 .. Len(order) /\ states[order[Max(I)]].complete
  <2>1. I \in SUBSET (1 .. Len(order))
    OBVIOUS
  <2>2. I # {} => Max(I) \in I
    BY <1>1, <2>1, MinMax
  <2> QED
    BY <2>2
<1>4. (\E b \in Buffers : states[b].complete) => I # {}
  BY <1>1 DEF TypeOK, ToSet
<1> DEFINE m == Max(I)
<1>5. \/ I = {} /\ n = 0
      \/ I # {} /\ n = m /\ m \in 1 .. Len(order) /\ m # 0 /\ states[order[m]].complete
  BY <1>1, <1>3
<1> HIDE DEF m, n, I
<1> QED
  BY <1>1, <1>2, <1>4, <1>5

LEMMA OldestFacts ==
  ASSUME TypeOK, NEW f, NEW S
  PROVE  \/ Oldest(f, S) = None
         \/ /\ Oldest(f, S) \in Buffers /\ Oldest(f, S) \in S
            /\ states[Oldest(f, S)].frame < f
<1> DEFINE I == {i \in 1 .. Len(order) : states[order[i]].frame < f /\ order[i] \in S}
           n == IF I # {} THEN Min(I) ELSE 0
<1>1. Len(order) \in Nat \ {0} /\ \A i \in 1 .. Len(order) : order[i] \in Buffers
  BY OrderFacts
<1>2. Oldest(f, S) = IF n = 0 THEN None ELSE order[n]
  BY DEF Oldest, SelectInSeq
<1>3. I # {} => Min(I) \in I
  <2>1. I \in SUBSET (1 .. Len(order))
    OBVIOUS
  <2> QED
    BY <1>1, <2>1, MinMax
<1> DEFINE m == Min(I)
<1>4. \/ n = 0
      \/ /\ n = m /\ m \in 1 .. Len(order) /\ m # 0
         /\ states[order[m]].frame < f /\ order[m] \in S
  BY <1>1, <1>3
<1> HIDE DEF m, n, I
<1> QED
  BY <1>1, <1>2, <1>4

LEMMA SelectFacts ==
  ASSUME TypeOK, NEW f \in Nat
  PROVE  \/ selectWriteState(f) = None
         \/ /\ selectWriteState(f) \in Buffers
            /\ \/ states[selectWriteState(f)].frame = f
               \/ states[selectWriteState(f)].writing > 0
               \/ states[selectWriteState(f)].writing = 0 /\ states[selectWriteState(f)].reading = 0
<1>1. Newest \in Buffers
  BY OrderFacts
<1>2. \A b \in Buffers : states[b].writing \in Nat /\ states[b].reading \in Nat
  BY DEF TypeOK, BufferType
<1>3. \/ Unused(f) = None
      \/ Unused(f) \in Buffers /\ states[Unused(f)].writing = 0 /\ states[Unused(f)].reading = 0
  BY <1>2, OldestFacts DEF Unused, Written, Read
<1>4. \/ Oldest(f, Written) = None
      \/ Oldest(f, Written) \in Buffers /\ states[Oldest(f, Written)].writing > 0
  BY OldestFacts DEF Written
<1> QED
  BY <1>1, <1>3, <1>4 DEF selectWriteState

\* b has been moved from its place in o to the back.
Shifted(o, s, b) ==
  \E k \in 1 .. Len(o) :
    /\ o[k] = b /\ Len(s) = Len(o) /\ s[Len(o)] = b
    /\ \A i \in 1 .. Len(o) - 1 : s[i] = IF i < k THEN o[i] ELSE o[i + 1]

LEMMA MoveToBack ==
  ASSUME TypeOK, NEW b \in Buffers
  PROVE  /\ Append(RemoveFirst(order, b), b) \in Seq(Buffers)
         /\ ToSet(Append(RemoveFirst(order, b), b)) = Buffers
         /\ Shifted(order, Append(RemoveFirst(order, b), b), b)
<1> DEFINE I == {i \in 1 .. Len(order) : order[i] = b}
           k == Min(I)
           front == SubSeq(order, 1, k - 1)
           back == SubSeq(order, k + 1, Len(order))
           r == front \o back
<1>1. /\ Len(order) \in Nat \ {0} /\ DOMAIN order = 1 .. Len(order)
      /\ \A i \in 1 .. Len(order) : order[i] \in Buffers
  BY OrderFacts
<1>2. I # {}
  BY <1>1 DEF TypeOK, ToSet
<1>3. k \in 1 .. Len(order) /\ order[k] = b
  <2>1. I \in SUBSET (1 .. Len(order))
    OBVIOUS
  <2>2. k \in I
    BY <1>1, <1>2, <2>1, MinMax
  <2> QED
    BY <2>2
<1>4. RemoveFirst(order, b) = r
  <2>1. SelectInSeq(order, LAMBDA v : v = b) = k
    BY <1>2 DEF SelectInSeq
  <2>2. \E i \in 1 .. Len(order) : order[i] = b
    BY <1>3
  <2> QED
    BY <2>1, <2>2 DEF RemoveFirst, RemoveAt
<1> HIDE DEF k, I
<1>5. /\ front \in Seq(Buffers) /\ Len(front) = k - 1
      /\ \A i \in 1 .. k - 1 : front[i] = order[i]
  BY <1>1, <1>3, SubSeqProperties DEF TypeOK
<1>6. /\ back \in Seq(Buffers) /\ Len(back) = Len(order) - k
      /\ \A i \in 1 .. Len(order) - k : back[i] = order[k + i]
  <2>1. /\ back \in Seq(Buffers)
        /\ Len(back) = IF k + 1 <= Len(order) THEN Len(order) - (k + 1) + 1 ELSE 0
        /\ \A i \in 1 .. Len(order) - (k + 1) + 1 : back[i] = order[k + 1 + i - 1]
    <3>1. k + 1 \in Int /\ Len(order) \in Int /\ \A i \in k + 1 .. Len(order) : order[i] \in Buffers
      BY <1>1, <1>3
    <3> QED
      BY <3>1, SubSeqProperties
  <2> DEFINE n == Len(order)
  <2>2. /\ n - (k + 1) + 1 = n - k /\ (IF k + 1 <= n THEN n - (k + 1) + 1 ELSE 0) = n - k
        /\ \A i \in 1 .. n - k : k + 1 + i - 1 = k + i
    <3>1. n \in Int /\ k \in Int /\ k <= n
      BY <1>1, <1>3
    <3> HIDE DEF n
    <3> QED
      BY <3>1
  <2> HIDE DEF back
  <2>3. Len(back) = n - k
    BY <2>1, <2>2
  <2>4. \A i \in 1 .. n - k : back[i] = order[k + 1 + i - 1]
    BY <2>1, <2>2
  <2>5. \A i \in 1 .. n - k : back[i] = order[k + i]
    BY <2>2, <2>4
  <2> QED
    BY <2>1, <2>3, <2>5
<1> HIDE DEF front, back
<1>7. /\ r \in Seq(Buffers) /\ Len(r) = Len(front) + Len(back)
      /\ \A i \in 1 .. Len(front) + Len(back) :
           r[i] = IF i <= Len(front) THEN front[i] ELSE back[i - Len(front)]
  BY <1>5, <1>6, ConcatProperties
<1>8. Len(r) = Len(order) - 1 /\ Len(front) = k - 1 /\ Len(front) + Len(back) = Len(order) - 1
  BY <1>1, <1>3, <1>5, <1>6, <1>7
<1>9. \A i \in 1 .. Len(order) - 1 : r[i] = IF i < k THEN order[i] ELSE order[i + 1]
  <2> SUFFICES ASSUME NEW i \in 1 .. Len(order) - 1
               PROVE  r[i] = IF i < k THEN order[i] ELSE order[i + 1]
    OBVIOUS
  <2>1. CASE i < k
    BY <1>1, <1>3, <1>5, <1>7, <1>8, <2>1
  <2>2. CASE ~(i < k)
    <3>1. r[i] = back[i - (k - 1)]
      BY <1>1, <1>3, <1>7, <1>8, <2>2
    <3>2. i - (k - 1) \in 1 .. Len(order) - k /\ k + (i - (k - 1)) = i + 1
      BY <1>1, <1>3, <2>2
    <3> QED
      BY <2>2, <3>1, <3>2, <1>6
  <2> QED
    BY <2>1, <2>2
<1> HIDE DEF r
<1> DEFINE s == Append(r, b)
<1>10. /\ s \in Seq(Buffers) /\ DOMAIN s = 1 .. Len(order) /\ s[Len(order)] = b
       /\ \A i \in 1 .. Len(order) - 1 : s[i] = r[i]
  <2>1. /\ s \in Seq(Buffers) /\ Len(s) = Len(r) + 1 /\ s[Len(r) + 1] = b
        /\ \A i \in 1 .. Len(r) : s[i] = r[i]
    BY <1>7, AppendProperties
  <2> HIDE DEF s
  <2>2. Len(s) = Len(order) /\ Len(r) + 1 = Len(order)
    BY <1>1, <1>8, <2>1
  <2> QED
    BY <1>8, <2>1, <2>2, LenProperties
<1> HIDE DEF s
<1>11. ASSUME NEW c \in Buffers, c # b PROVE \E i \in DOMAIN s : s[i] = c
  <2>1. PICK i \in 1 .. Len(order) : order[i] = c
    BY <1>1 DEF TypeOK, ToSet
  <2>2. CASE i < k
    <3>1. i \in 1 .. Len(order) - 1 /\ s[i] = c
      BY <1>1, <1>3, <1>9, <1>10, <2>1, <2>2
    <3> QED
      BY <3>1, <1>10
  <2>3. CASE i > k
    <3>1. i - 1 \in 1 .. Len(order) - 1 /\ ~(i - 1 < k) /\ (i - 1) + 1 = i
      BY <1>1, <1>3, <2>3
    <3>2. s[i - 1] = c
      BY <1>9, <1>10, <2>1, <3>1
    <3> QED
      BY <3>1, <3>2, <1>10
  <2> QED
    BY <1>3, <1>11, <2>1, <2>2, <2>3
<1>12. \A i \in DOMAIN s : s[i] \in Buffers
  BY <1>10, ElementOfSeq, LenProperties
<1>13. ToSet(s) = Buffers
  BY <1>1, <1>10, <1>11, <1>12 DEF ToSet
<1>14. Shifted(order, s, b)
  <2>1. Len(s) = Len(order)
    BY <1>1, <1>10, LenProperties
  <2>2. \A i \in 1 .. Len(order) - 1 : s[i] = IF i < k THEN order[i] ELSE order[i + 1]
    BY <1>9, <1>10
  <2> QED
    BY <1>3, <1>10, <2>1, <2>2 DEF Shifted
<1> QED
  BY <1>4, <1>10, <1>13, <1>14 DEF s

-------------------------------------------------------------------------------
(* What a step of one process has to keep                                   *)

\* A step of p: its record becomes nq.
Moves(p, nq) ==
  /\ nq \in ProcType /\ proc' = [proc EXCEPT ![p] = nq]
  /\ Where(nq) /\ nq.got <= sent
  /\ (nq.src # None \/ nq.pc \in {"source", "reset", "post"}) => nq.frame \in 0 .. LastFrame
  /\ sent' = sent /\ feedback' = feedback /\ (scarce => scarce') /\ scarce' \in BOOLEAN
  /\ pidsSent' \in Nat /\ announced' \in SUBSET Nat /\ again' \in BOOLEAN /\ crossed' \in BOOLEAN

Counts(p, nq, b) ==
  /\ states'[b].reading = states[b].reading + Reads(nq, b) - Reads(proc[p], b)
  /\ states'[b].writing = states[b].writing + Writes(nq, b) - Writes(proc[p], b)

LEMMA StepInv ==
  ASSUME IInv, NEW p \in Processes, NEW nq, Moves(p, nq),
         order' \in Seq(Buffers), ToSet(order') = Buffers, states' \in [Buffers -> BufferType],
         \A b \in Buffers : Counts(p, nq, b) /\ states'[b].frame <= LastFrame,
         Holds(nq) => states'[nq.buf].writeLock = p,
         \A r \in Processes \ {p} : Holds(proc[r]) => states'[proc[r].buf].writeLock = r,
         ~scarce' => /\ \E b \in Buffers : states'[b].complete
                     /\ \A b \in Buffers : Truthful(states'[b])
                     /\ ReadsComplete(nq, states') /\ Writer(nq, states', LastFrame)
                     /\ \A r \in Processes \ {p} :
                          ReadsComplete(proc[r], states') /\ Writer(proc[r], states', LastFrame)
  PROVE  IInv'
<1>1. /\ TypeOK /\ proc' \in [Processes -> ProcType] /\ proc'[p] = nq
      /\ \A r \in Processes \ {p} : proc'[r] = proc[r]
      /\ sent' = sent /\ LastFrame' = LastFrame
  BY DEF Moves, IInv, TypeOK, LastFrame
<1>2. TypeOK'
  BY <1>1 DEF Moves, TypeOK
<1>3. CountInv'
  <2> SUFFICES ASSUME NEW b \in Buffers
               PROVE  Counted(b, states', proc')
    BY DEF CountInv, Counted, Reads, Writes
  <2>1. Counts(p, nq, b) /\ Counted(b, states, proc)
    BY DEF IInv, CountInv
  <2>2. /\ Reads(proc["Main"], b) \in Int /\ Reads(proc["Motion"], b) \in Int /\ Reads(nq, b) \in Int
        /\ Writes(proc["Main"], b) \in Int /\ Writes(proc["Motion"], b) \in Int /\ Writes(nq, b) \in Int
    BY DEF Reads, Writes
  <2>3. CASE p = "Main"
    <3>1. proc'["Main"] = nq /\ proc'["Motion"] = proc["Motion"]
      BY <1>1, <2>3 DEF Processes
    <3> QED
      BY <2>1, <2>2, <2>3, <3>1 DEF Counts, Counted
  <2>4. CASE p = "Motion"
    <3>1. proc'["Motion"] = nq /\ proc'["Main"] = proc["Main"]
      BY <1>1, <2>4 DEF Processes
    <3> QED
      BY <2>1, <2>2, <2>4, <3>1 DEF Counts, Counted
  <2> QED
    BY <2>3, <2>4 DEF Processes
<1>4. LockInv'
  BY <1>1 DEF LockInv, Holds
<1>5. WhereInv'
  <2>1. \A r \in Processes : Where(proc'[r])
    BY <1>1 DEF IInv, WhereInv, Moves
  <2> QED
    BY <2>1 DEF WhereInv, Where, Holds
<1>6. FrameInv'
  BY <1>1 DEF IInv, FrameInv, Moves
<1>7. ASSUME ~scarce' PROVE BufferInv'
  <2>1. \A r \in Processes : ReadsComplete(proc'[r], states')
    BY <1>1, <1>7
  <2> QED
    BY <1>7, <2>1 DEF BufferInv, Truthful, ReadsComplete
<1>8. ASSUME ~scarce' PROVE WriterInv'
  <2>1. \A r \in Processes : Writer(proc'[r], states', LastFrame')
    BY <1>1, <1>8
  <2> QED
    BY <2>1 DEF WriterInv, Writer, Has, Holds
<1> QED
  BY <1>2, <1>3, <1>4, <1>5, <1>6, <1>7, <1>8 DEF IInv

\* The buffers are as they were, but for their readers and PIDs.
SameBuffers ==
  /\ states' \in [Buffers -> BufferType] /\ order' = order
  /\ \A b \in Buffers :
       /\ states'[b].frame = states[b].frame /\ states'[b].writing = states[b].writing
       /\ states'[b].status = states[b].status /\ states'[b].complete = states[b].complete
       /\ states'[b].writeLock = states[b].writeLock /\ states'[b].shows = states[b].shows

LEMMA SameWriter ==
  ASSUME SameBuffers, NEW q \in ProcType, Where(q), NEW last
  PROVE  /\ Writer(q, states, last) <=> Writer(q, states', last)
         /\ ReadsComplete(q, states) <=> ReadsComplete(q, states')
<1>1. /\ q.buf \in Buffers \cup {None} /\ q.default \in Buffers \cup {None}
      /\ q.src \in Buffers \cup {None}
  BY DEF ProcType
<1>2. Writer(q, states, last) <=> Writer(q, states', last)
  BY <1>1 DEF SameBuffers, Writer, Has, Holds
<1>3. ReadsComplete(q, states) <=> ReadsComplete(q, states')
  BY <1>1 DEF SameBuffers, ReadsComplete
<1> QED
  BY <1>2, <1>3

LEMMA QuietStep ==
  ASSUME IInv, NEW p \in Processes, NEW nq, Moves(p, nq), SameBuffers,
         \A b \in Buffers : states'[b].reading = states[b].reading + Reads(nq, b) - Reads(proc[p], b),
         \A b \in Buffers : Writes(nq, b) = Writes(proc[p], b),
         Holds(nq) => Holds(proc[p]) /\ nq.buf = proc[p].buf,
         (~scarce' /\ BufferInv /\ WriterInv) =>
            ReadsComplete(nq, states) /\ Writer(nq, states, LastFrame)
  PROVE  IInv'
<1>1. TypeOK /\ CountInv /\ LockInv /\ WhereInv /\ FrameInv
  BY DEF IInv
<1>2. \A r \in Processes : proc[r] \in ProcType /\ Where(proc[r])
  BY <1>1 DEF TypeOK, WhereInv
<1>3. \A b \in Buffers : Counts(p, nq, b) /\ states'[b].frame <= LastFrame
  <2>1. \A b \in Buffers : states[b].writing \in Nat /\ Writes(nq, b) \in Int
    BY <1>1 DEF TypeOK, BufferType, Writes
  <2> QED
    BY <1>1, <2>1 DEF Counts, SameBuffers, FrameInv
<1>4. \A r \in Processes : Holds(proc[r]) => states'[proc[r].buf].writeLock = r
  BY <1>1, <1>2 DEF SameBuffers, LockInv, Holds, ProcType
<1>5. order' \in Seq(Buffers) /\ ToSet(order') = Buffers
  BY <1>1 DEF SameBuffers, TypeOK
<1>6. ASSUME ~scarce'
      PROVE  /\ \E b \in Buffers : states'[b].complete
             /\ \A b \in Buffers : Truthful(states'[b])
             /\ ReadsComplete(nq, states') /\ Writer(nq, states', LastFrame)
             /\ \A r \in Processes \ {p} :
                  ReadsComplete(proc[r], states') /\ Writer(proc[r], states', LastFrame)
  <2>1. BufferInv /\ WriterInv
    BY <1>6 DEF IInv, Moves
  <2>2. ReadsComplete(nq, states) /\ Writer(nq, states, LastFrame) /\ nq \in ProcType /\ Where(nq)
    BY <1>6, <2>1 DEF Moves
  <2>3. ReadsComplete(nq, states') /\ Writer(nq, states', LastFrame)
    BY <2>2, SameWriter
  <2>4. \A r \in Processes : ReadsComplete(proc[r], states') /\ Writer(proc[r], states', LastFrame)
    BY <1>2, <2>1, SameWriter DEF BufferInv, WriterInv
  <2>5. /\ \E b \in Buffers : states'[b].complete
        /\ \A b \in Buffers : Truthful(states'[b])
    BY <2>1 DEF BufferInv, Truthful, SameBuffers
  <2> QED
    BY <2>3, <2>4, <2>5
<1>7. Holds(nq) => states'[nq.buf].writeLock = p
  BY <1>4
<1> QED
  BY <1>3, <1>4, <1>5, <1>6, <1>7, StepInv DEF SameBuffers

-------------------------------------------------------------------------------
(* The steps that only read                                                 *)

\* What the lemmas below use of the invariant.
LEMMA Basics ==
  ASSUME IInv, NEW p \in Processes
  PROVE  /\ TypeOK /\ proc[p] \in ProcType /\ Where(proc[p]) /\ proc[p].got <= sent
         /\ (proc[p].src # None \/ proc[p].pc \in {"source", "reset", "post"}) => proc[p].frame \in 0 .. LastFrame
         /\ Readable \in Buffers /\ None \notin Buffers /\ LastFrame \in Nat
         /\ (~scarce => BufferInv /\ WriterInv)
         /\ BufferInv => ReadsComplete(proc[p], states) /\ states[Readable].complete
         /\ WriterInv => Writer(proc[p], states, LastFrame)
  BY OrderFacts, ReadableFacts DEF IInv, TypeOK, WhereInv, FrameInv, BufferInv, WriterInv, LastFrame

\* A buffer somebody reads, or writes, is counted.
LEMMA CountPositive ==
  ASSUME IInv, NEW p \in Processes
  PROVE  /\ proc[p].default \in Buffers => states[proc[p].default].reading > 0
         /\ proc[p].src \in Buffers => states[proc[p].src].reading > 0
         /\ Has(proc[p]) => states[proc[p].buf].writing > 0
<1>1. \A r \in Processes, b \in Buffers :
        /\ Reads(proc[r], b) \in Nat /\ Writes(proc[r], b) \in Nat
        /\ (proc[r].default = b \/ proc[r].src = b) => Reads(proc[r], b) > 0
        /\ (proc[r].buf = b /\ proc[r].pc # "unsource") => Writes(proc[r], b) > 0
  BY DEF Reads, Writes
<1>2. \A b \in Buffers : Counted(b, states, proc)
  BY DEF IInv, CountInv
<1>3. "Main" \in Processes /\ "Motion" \in Processes /\ p \in {"Main", "Motion"}
  BY DEF Processes
<1>4. \A b \in Buffers : /\ (proc[p].default = b \/ proc[p].src = b) => states[b].reading > 0
                         /\ (proc[p].buf = b /\ proc[p].pc # "unsource") => states[b].writing > 0
  BY <1>1, <1>2, <1>3 DEF Counted
<1>5. Has(proc[p]) => proc[p].buf \in Buffers
  BY DEF IInv, TypeOK, ProcType, Has
<1> QED
  BY <1>4, <1>5 DEF Has

LEMMA UseToRead ==
  ASSUME IInv, NEW b \in Buffers, useToRead(b), order' = order
  PROVE  /\ SameBuffers
         /\ \A c \in Buffers : states'[c].pids = states[c].pids
         /\ \A c \in Buffers : states'[c].reading = states[c].reading + (IF c = b THEN 1 ELSE 0)
<1> DEFINE s == [states[b] EXCEPT !.reading = states[b].reading + 1]
<1>1. states \in [Buffers -> BufferType] /\ states' = [states EXCEPT ![b] = s]
  BY DEF IInv, TypeOK, useToRead
<1>2. states[b] \in BufferType
  BY <1>1
<1>3. /\ s \in BufferType /\ s.reading = states[b].reading + 1
      /\ s.frame = states[b].frame /\ s.writing = states[b].writing /\ s.status = states[b].status
      /\ s.complete = states[b].complete /\ s.writeLock = states[b].writeLock
      /\ s.shows = states[b].shows /\ s.pids = states[b].pids
  BY <1>2 DEF BufferType
<1> HIDE DEF s
<1>4. \A c \in Buffers : states'[c] = IF c = b THEN s ELSE states[c]
  BY <1>1
<1>5. states' \in [Buffers -> BufferType] /\ \A c \in Buffers : states[c].reading \in Nat
  BY <1>1, <1>3 DEF BufferType
<1>6. SameBuffers
  BY <1>3, <1>4, <1>5 DEF SameBuffers
<1>7. \A c \in Buffers : states'[c].reading = states[c].reading + (IF c = b THEN 1 ELSE 0)
  BY <1>3, <1>4, <1>5
<1>8. \A c \in Buffers : states'[c].pids = states[c].pids
  BY <1>3, <1>4
<1> QED
  BY <1>6, <1>7, <1>8

LEMMA DoneReading ==
  ASSUME IInv, NEW b \in Buffers, doneReadingState(b), order' = order, states[b].reading > 0
  PROVE  /\ SameBuffers
         /\ \A c \in Buffers : states'[c].pids = states[c].pids
         /\ \A c \in Buffers : states'[c].reading = states[c].reading - (IF c = b THEN 1 ELSE 0)
<1> DEFINE s == [states[b] EXCEPT !.reading = states[b].reading - 1]
<1>1. states \in [Buffers -> BufferType] /\ states' = [states EXCEPT ![b] = s]
  BY DEF IInv, TypeOK, doneReadingState
<1>2. states[b] \in BufferType
  BY <1>1
<1>3. /\ s \in BufferType /\ s.reading = states[b].reading - 1
      /\ s.frame = states[b].frame /\ s.writing = states[b].writing /\ s.status = states[b].status
      /\ s.complete = states[b].complete /\ s.writeLock = states[b].writeLock
      /\ s.shows = states[b].shows /\ s.pids = states[b].pids
  BY <1>2 DEF BufferType
<1> HIDE DEF s
<1>4. \A c \in Buffers : states'[c] = IF c = b THEN s ELSE states[c]
  BY <1>1
<1>5. states' \in [Buffers -> BufferType] /\ \A c \in Buffers : states[c].reading \in Nat
  BY <1>1, <1>3 DEF BufferType
<1>6. SameBuffers
  BY <1>3, <1>4, <1>5 DEF SameBuffers
<1>7. \A c \in Buffers : states'[c].reading = states[c].reading - (IF c = b THEN 1 ELSE 0)
  BY <1>3, <1>4, <1>5
<1>8. \A c \in Buffers : states'[c].pids = states[c].pids
  BY <1>3, <1>4
<1> QED
  BY <1>6, <1>7, <1>8

LEMMA NoReading ==
  ASSUME IInv, UNCHANGED <<states, order>>
  PROVE  SameBuffers /\ \A b \in Buffers : states'[b].reading = states[b].reading
  BY DEF IInv, TypeOK, SameBuffers

LEMMA EnterStep ==
  ASSUME IInv, NEW p \in Processes, Enter(p)
  PROVE  IInv'
<1> DEFINE q == proc[p]
           nq == [q EXCEPT !.pc = "entered", !.default = Readable, !.state = Readable]
<1>1. /\ q.pc = "idle" /\ useToRead(Readable) /\ proc' = [proc EXCEPT ![p] = nq]
      /\ UNCHANGED <<sent, feedback, pidsSent, order, history>>
  BY DEF Enter, At
<1>2. /\ nq \in ProcType /\ nq.pc = "entered" /\ nq.default = Readable /\ nq.state = Readable
      /\ nq.src = q.src /\ nq.buf = q.buf /\ nq.got = q.got /\ nq.frame = q.frame
      /\ nq.complete = q.complete /\ nq.status = q.status
  <2>1. q \in ProcType /\ Readable \in Buffers /\ LastFrame \in Nat
    BY Basics
  <2> QED
    BY <2>1 DEF ProcType, Labels
<1>3. /\ q.default = None /\ q.src = None /\ q.buf = None /\ Readable # None
      /\ ~q.complete /\ q.status = {}
  BY <1>1, Basics DEF Where
<1> HIDE DEF nq
<1>4. Where(nq)
  BY <1>2, <1>3 DEF Where
<1>5. Moves(p, nq)
  BY <1>1, <1>2, <1>3, <1>4, Basics DEF Moves, TypeOK, history
<1>6. SameBuffers /\ \A b \in Buffers : states'[b].reading = states[b].reading + (IF b = Readable THEN 1 ELSE 0)
  BY <1>1, Basics, UseToRead
<1>7. \A b \in Buffers : states'[b].reading = states[b].reading + Reads(nq, b) - Reads(q, b)
  <2>1. \A b \in Buffers : states[b].reading \in Nat /\ b # None
    BY Basics DEF TypeOK, BufferType
  <2> QED
    BY <1>2, <1>3, <1>6, <2>1 DEF Reads
<1>8. \A b \in Buffers : Writes(nq, b) = Writes(q, b)
  BY <1>2, <1>3, Basics DEF Writes
<1>9. BufferInv /\ WriterInv => ReadsComplete(nq, states) /\ Writer(nq, states, LastFrame)
  BY <1>2, <1>3, Basics DEF ReadsComplete, Writer, Has, Holds
<1> QED
  BY <1>2, <1>3, <1>5, <1>6, <1>7, <1>8, <1>9, QuietStep DEF Holds

LEMMA LeaveStep ==
  ASSUME IInv, NEW p \in Processes, Leave(p)
  PROVE  IInv'
<1> DEFINE q == proc[p]
           nq == [q EXCEPT !.pc = "idle", !.default = None, !.state = None]
<1>1. /\ q.pc \in {"leave", "entered"} /\ doneReadingState(q.default) /\ proc' = [proc EXCEPT ![p] = nq]
      /\ UNCHANGED <<sent, feedback, pidsSent, order, history>>
  BY DEF Leave, At
<1>2. /\ nq \in ProcType /\ nq.pc = "idle" /\ nq.default = None /\ nq.state = None
      /\ nq.src = q.src /\ nq.buf = q.buf /\ nq.got = q.got /\ nq.frame = q.frame
      /\ nq.complete = q.complete /\ nq.status = q.status
  <2>1. q \in ProcType /\ Readable \in Buffers /\ LastFrame \in Nat
    BY Basics
  <2> QED
    BY <2>1 DEF ProcType, Labels
<1>3. /\ q.default \in Buffers /\ q.src = None /\ q.buf = None
      /\ ~q.complete /\ q.status = {}
  BY <1>1, Basics DEF Where, ProcType
<1> HIDE DEF nq
<1>4. Where(nq)
  BY <1>2, <1>3 DEF Where
<1>5. Moves(p, nq)
  BY <1>1, <1>2, <1>3, <1>4, Basics DEF Moves, TypeOK, history
<1>6. states[q.default].reading > 0
  BY <1>3, CountPositive
<1>7. SameBuffers /\ \A b \in Buffers : states'[b].reading = states[b].reading - (IF b = q.default THEN 1 ELSE 0)
  BY <1>1, <1>3, <1>6, DoneReading
<1>8. \A b \in Buffers : states'[b].reading = states[b].reading + Reads(nq, b) - Reads(q, b)
  <2>1. \A b \in Buffers : states[b].reading \in Nat /\ b # None
    BY Basics DEF TypeOK, BufferType
  <2> QED
    BY <1>2, <1>3, <1>7, <2>1 DEF Reads
<1>9. \A b \in Buffers : Writes(nq, b) = Writes(q, b)
  BY <1>2, <1>3, Basics DEF Writes
<1>10. ReadsComplete(nq, states) /\ Writer(nq, states, LastFrame)
  BY <1>2, <1>3, Basics DEF ReadsComplete, Writer, Has, Holds
<1> QED
  BY <1>2, <1>3, <1>5, <1>7, <1>8, <1>9, <1>10, QuietStep DEF Holds

LEMMA ResetStep ==
  ASSUME IInv, NEW p \in Processes, reset(p)
  PROVE  IInv'
<1> DEFINE q == proc[p]
           nq == [q EXCEPT !.pc = "post", !.default = Readable, !.state = Readable]
           now(b) == states[b].reading - (IF b = q.default THEN 1 ELSE 0) + (IF b = Readable THEN 1 ELSE 0)
<1>1. /\ q.pc = "reset" /\ proc' = [proc EXCEPT ![p] = nq]
      /\ states' = [b \in Buffers |-> [states[b] EXCEPT !.reading = now(b)]]
      /\ UNCHANGED <<sent, feedback, pidsSent, order, history>>
  BY DEF reset, At
<1>2. /\ nq \in ProcType /\ nq.pc = "post" /\ nq.default = Readable /\ nq.state = Readable
      /\ nq.src = q.src /\ nq.buf = q.buf /\ nq.got = q.got /\ nq.frame = q.frame
      /\ nq.complete = q.complete /\ nq.status = q.status
  <2>1. q \in ProcType /\ Readable \in Buffers /\ LastFrame \in Nat
    BY Basics
  <2> QED
    BY <2>1 DEF ProcType, Labels
<1>3. /\ q.default \in Buffers /\ q.src = None /\ q.buf = None /\ Readable # None
      /\ ~q.complete /\ q.status = {} /\ states[q.default].reading > 0
  BY <1>1, Basics, CountPositive DEF Where, ProcType
<1> HIDE DEF nq
<1>4. Where(nq)
  BY <1>2, <1>3 DEF Where
<1>5. Moves(p, nq)
  BY <1>1, <1>2, <1>3, <1>4, Basics DEF Moves, TypeOK, history
<1>6. \A b \in Buffers : now(b) \in Nat /\ states[b] \in BufferType
  <2>1. \A b \in Buffers : states[b] \in BufferType /\ states[b].reading \in Nat
    BY Basics DEF TypeOK, BufferType
  <2> QED
    BY <1>3, <2>1
<1> HIDE DEF now
<1>7. SameBuffers /\ \A b \in Buffers : states'[b].reading = now(b)
  <2>1. \A b \in Buffers :
          /\ [states[b] EXCEPT !.reading = now(b)] \in BufferType
          /\ [states[b] EXCEPT !.reading = now(b)].reading = now(b)
    BY <1>6 DEF BufferType
  <2>2. \A b \in Buffers : states'[b] = [states[b] EXCEPT !.reading = now(b)]
    BY <1>1
  <2>3. states' \in [Buffers -> BufferType]
    BY <1>1, <2>1
  <2> QED
    BY <1>1, <1>6, <2>1, <2>2, <2>3 DEF SameBuffers, BufferType
<1>8. \A b \in Buffers : states'[b].reading = states[b].reading + Reads(nq, b) - Reads(q, b)
  <2>1. \A b \in Buffers : states[b].reading \in Nat /\ b # None
    BY Basics DEF TypeOK, BufferType
  <2> QED
    BY <1>2, <1>3, <1>7, <2>1 DEF Reads, now
<1>9. \A b \in Buffers : Writes(nq, b) = Writes(q, b)
  BY <1>2, <1>3, Basics DEF Writes
<1>10. BufferInv /\ WriterInv => ReadsComplete(nq, states) /\ Writer(nq, states, LastFrame)
  BY <1>2, <1>3, Basics DEF ReadsComplete, Writer, Has, Holds
<1> QED
  BY <1>2, <1>3, <1>5, <1>7, <1>8, <1>9, <1>10, QuietStep DEF Holds

LEMMA IsUnreadStep ==
  ASSUME IInv, NEW p \in Processes, isUnread(p)
  PROVE  IInv'
<1> DEFINE q == proc[p]
<1>1. PICK label \in {"reset", "leave", "source"} :
        /\ q.pc = "entered" /\ q.got < sent
        /\ proc' = [proc EXCEPT ![p] = [q EXCEPT !.got = q.got + 1, !.frame = q.got, !.pc = label]]
        /\ scarce' \in BOOLEAN /\ (scarce => scarce')
        /\ UNCHANGED <<sent, feedback, pidsSent, order, states, announced, again, crossed>>
  <2> DEFINE f == q.got
             b == selectWriteState(f)
             skip == f < frameNumber \/ b = None
             dn == ~skip /\ states[b].frame = f /\ states[b].complete
             label == IF dn /\ p = "Main" THEN "reset" ELSE IF dn \/ skip THEN "leave" ELSE "source"
  <2>1. scarce' = (scarce \/ (b = None /\ ~Overtaken(f)))
    BY Zenon DEF isUnread
  <2>4. proc' = [proc EXCEPT ![p] = [q EXCEPT !.got = q.got + 1, !.frame = f, !.pc = label]]
    BY DEF isUnread
  <2>2. label \in {"reset", "leave", "source"}
    OBVIOUS
  <2>3. scarce' \in BOOLEAN /\ (scarce => scarce')
    BY <2>1, Zenon
  <2> HIDE DEF label
  <2> QED
    BY <2>1, <2>2, <2>3, <2>4 DEF isUnread, At
<1> DEFINE nq == [q EXCEPT !.got = q.got + 1, !.frame = q.got, !.pc = label]
<1>2. sent \in Nat /\ q.got \in Nat
  BY Basics DEF TypeOK, ProcType
<1>3. /\ nq \in ProcType /\ nq.pc = label /\ nq.default = q.default /\ nq.state = q.state
      /\ nq.src = q.src /\ nq.buf = q.buf /\ nq.got = q.got + 1 /\ nq.frame = q.got
      /\ nq.complete = q.complete /\ nq.status = q.status
  <2>1. q \in ProcType
    BY Basics
  <2> QED
    <3>1. label \in Labels /\ q.got + 1 \in Nat
      BY <1>1, <1>2 DEF Labels
    <3> QED
      BY <1>2, <2>1, <3>1 DEF ProcType
<1>4. q.default # None /\ q.src = None /\ q.buf = None /\ ~q.complete /\ q.status = {}
  BY <1>1, Basics DEF Where, ProcType
<1>5. proc' = [proc EXCEPT ![p] = nq]
  BY <1>1
<1> HIDE DEF nq
<1>6. Where(nq)
  BY <1>1, <1>3, <1>4, Basics DEF Where, Holds
<1>7. Moves(p, nq)
  <2>1. nq.frame \in 0 .. LastFrame /\ nq.got <= sent
    BY <1>1, <1>2, <1>3 DEF LastFrame
  <2> QED
    BY <1>1, <1>3, <1>4, <1>5, <1>6, <2>1, Basics DEF Moves, TypeOK
<1>8. SameBuffers /\ \A b \in Buffers : states'[b].reading = states[b].reading
  BY <1>1, NoReading
<1>9. \A b \in Buffers : Writes(nq, b) = Writes(q, b) /\ Reads(nq, b) = Reads(q, b)
  BY <1>3, <1>4, Basics DEF Writes, Reads
<1>10. \A b \in Buffers : states'[b].reading = states[b].reading + Reads(nq, b) - Reads(q, b)
  <2>1. \A b \in Buffers : states[b].reading \in Nat /\ Reads(q, b) \in Int
    BY Basics DEF TypeOK, BufferType, Reads
  <2> QED
    BY <1>8, <1>9, <2>1
<1>11. BufferInv /\ WriterInv => ReadsComplete(nq, states) /\ Writer(nq, states, LastFrame)
  BY <1>1, <1>3, <1>4, Basics DEF ReadsComplete, Writer, Has, Holds
<1> QED
  BY <1>3, <1>4, <1>7, <1>8, <1>9, <1>10, <1>11, QuietStep DEF Holds

LEMMA PollStep ==
  ASSUME IInv, NEW p \in Processes, poll(p)
  PROVE  IInv'
<1> DEFINE q == proc[p]
           nq == [q EXCEPT !.pc = "source", !.polls = TRUE, !.frame = LastFrame]
<1>1. /\ q.pc = "entered" /\ proc' = [proc EXCEPT ![p] = nq]
      /\ UNCHANGED <<sent, feedback, pidsSent, order, states, history>>
  BY DEF poll, At, frameNumber, LastFrame
<1>2. /\ nq \in ProcType /\ nq.pc = "source" /\ nq.default = q.default /\ nq.state = q.state
      /\ nq.src = q.src /\ nq.buf = q.buf /\ nq.got = q.got /\ nq.frame = LastFrame
      /\ nq.complete = q.complete /\ nq.status = q.status
  <2>1. q \in ProcType /\ Readable \in Buffers /\ LastFrame \in Nat
    BY Basics
  <2> QED
    BY <2>1 DEF ProcType, Labels
<1>3. q.default # None /\ q.src = None /\ q.buf = None /\ ~q.complete /\ q.status = {}
  BY <1>1, Basics DEF Where, ProcType
<1> HIDE DEF nq
<1>4. Where(nq)
  BY <1>1, <1>2, <1>3, Basics DEF Where, Holds
<1>5. Moves(p, nq)
  BY <1>1, <1>2, <1>3, <1>4, Basics DEF Moves, TypeOK, history
<1>6. SameBuffers /\ \A b \in Buffers : states'[b].reading = states[b].reading
  BY <1>1, NoReading
<1>7. \A b \in Buffers : Writes(nq, b) = Writes(q, b) /\ Reads(nq, b) = Reads(q, b)
  BY <1>2, <1>3, Basics DEF Writes, Reads
<1>8. \A b \in Buffers : states'[b].reading = states[b].reading + Reads(nq, b) - Reads(q, b)
  <2>1. \A b \in Buffers : states[b].reading \in Nat /\ Reads(q, b) \in Int
    BY Basics DEF TypeOK, BufferType, Reads
  <2> QED
    BY <1>6, <1>7, <2>1
<1>9. BufferInv /\ WriterInv => ReadsComplete(nq, states) /\ Writer(nq, states, LastFrame)
  BY <1>2, <1>3, Basics DEF ReadsComplete, Writer, Has, Holds
<1> QED
  BY <1>2, <1>3, <1>5, <1>6, <1>7, <1>8, <1>9, QuietStep DEF Holds

LEMMA UseSourceStep ==
  ASSUME IInv, NEW p \in Processes, useSource(p)
  PROVE  IInv'
<1> DEFINE q == proc[p]
           nq == [q EXCEPT !.pc = "select", !.src = Readable]
<1>1. /\ q.pc = "source" /\ useToRead(Readable) /\ proc' = [proc EXCEPT ![p] = nq]
      /\ UNCHANGED <<sent, feedback, pidsSent, order, history>>
  BY DEF useSource, At
<1>2. /\ nq \in ProcType /\ nq.pc = "select" /\ nq.default = q.default /\ nq.state = q.state
      /\ nq.src = Readable /\ nq.buf = q.buf /\ nq.got = q.got /\ nq.frame = q.frame
      /\ nq.complete = q.complete /\ nq.status = q.status
  <2>1. q \in ProcType /\ Readable \in Buffers /\ LastFrame \in Nat
    BY Basics
  <2> QED
    BY <2>1 DEF ProcType, Labels
<1>3. /\ q.default # None /\ q.src = None /\ q.buf = None /\ ~q.complete /\ q.status = {}
      /\ q.state = q.default \/ q.state = None
  BY <1>1, Basics DEF Where, Holds
<1> HIDE DEF nq
<1>4. q.state = q.default
  BY <1>1, <1>3, Basics DEF Where
<1>5. Where(nq)
  BY <1>2, <1>3, <1>4, Basics DEF Where
<1>6. Moves(p, nq)
  BY <1>1, <1>2, <1>3, <1>5, Basics DEF Moves, TypeOK, history
<1>7. SameBuffers /\ \A b \in Buffers : states'[b].reading = states[b].reading + (IF b = Readable THEN 1 ELSE 0)
  BY <1>1, Basics, UseToRead
<1>8. \A b \in Buffers : states'[b].reading = states[b].reading + Reads(nq, b) - Reads(q, b)
  <2>1. \A b \in Buffers : states[b].reading \in Nat /\ b # None
    BY Basics DEF TypeOK, BufferType
  <2> QED
    BY <1>2, <1>3, <1>7, <2>1 DEF Reads
<1>9. \A b \in Buffers : Writes(nq, b) = Writes(q, b)
  BY <1>2, <1>3, Basics DEF Writes
<1>10. BufferInv /\ WriterInv => ReadsComplete(nq, states) /\ Writer(nq, states, LastFrame)
  BY <1>2, <1>3, Basics DEF ReadsComplete, Writer, Has, Holds
<1> QED
  BY <1>2, <1>3, <1>6, <1>7, <1>8, <1>9, <1>10, QuietStep DEF Holds

LEMMA BeginReadStep ==
  ASSUME IInv, NEW p \in Processes, beginRead(p)
  PROVE  IInv'
<1> DEFINE q == proc[p]
           fill == ~q.complete /\ (Partial(q) => HasFeedback(p))
           label == IF Stale(q) THEN "release" ELSE IF fill THEN "fill" ELSE Posts(p, q.complete)
           nq == [q EXCEPT !.partial = Partial(q), !.pc = label]
<1>1. /\ q.pc = "got" /\ proc' = [proc EXCEPT ![p] = nq]
      /\ UNCHANGED <<sent, feedback, pidsSent, order, states, history>>
  BY DEF beginRead, At
<1>2. /\ label \in {"release", "fill", "post"} /\ Partial(q) \in BOOLEAN
      /\ label = "fill" => ~Stale(q) /\ ~q.complete
  BY DEF Posts, Partial
<1>3. q \in ProcType /\ Where(q) /\ label \in Labels
  BY <1>2, Basics DEF Labels
<1> HIDE DEF label, fill
<1>4. /\ nq \in ProcType /\ nq.pc = label /\ nq.default = q.default /\ nq.state = q.state
      /\ nq.src = q.src /\ nq.buf = q.buf /\ nq.got = q.got /\ nq.frame = q.frame
      /\ nq.complete = q.complete /\ nq.status = q.status /\ nq.partial = Partial(q)
  BY <1>2, <1>3 DEF ProcType
<1>5. q.default # None /\ q.src # None /\ q.state = IF q.buf = None THEN q.default ELSE q.buf
  BY <1>1, <1>3 DEF Where
<1> HIDE DEF nq
<1>6. Where(nq)
  BY <1>1, <1>2, <1>3, <1>4, <1>5 DEF Where, Holds
<1>7. Moves(p, nq)
  BY <1>1, <1>4, <1>5, <1>6, Basics DEF Moves, TypeOK, history
<1>8. SameBuffers /\ \A b \in Buffers : states'[b].reading = states[b].reading
  BY <1>1, NoReading
<1>9. \A b \in Buffers : Writes(nq, b) = Writes(q, b) /\ Reads(nq, b) = Reads(q, b)
  BY <1>1, <1>2, <1>4 DEF Writes, Reads
<1>10. \A b \in Buffers : states'[b].reading = states[b].reading + Reads(nq, b) - Reads(q, b)
  <2>1. \A b \in Buffers : states[b].reading \in Nat /\ Reads(q, b) \in Int
    BY Basics DEF TypeOK, BufferType, Reads
  <2> QED
    BY <1>8, <1>9, <2>1
<1>11. ASSUME BufferInv, WriterInv
       PROVE  ReadsComplete(nq, states) /\ Writer(nq, states, LastFrame)
  <2>1. ReadsComplete(q, states) /\ Writer(q, states, LastFrame)
    BY <1>11, Basics
  <2>2. label = "fill" => q.buf # None
    <3>1. q.frame \in 0 .. LastFrame /\ sent \in Nat
      BY <1>5, Basics DEF TypeOK
    <3>2. q.frame < LastFrame => q.frame # frameNumber
      BY <3>1 DEF LastFrame, frameNumber
    <3> QED
      BY <1>1, <1>2, <2>1, <3>2 DEF Writer, Stale
  <2>3. Partial(q) => SENSORS_APPLIED \in q.status
    BY DEF Partial
  <2> QED
    BY <1>1, <1>2, <1>4, <2>1, <2>2, <2>3 DEF ReadsComplete, Writer, Has, Holds
<1>12. Holds(nq) => Holds(q) /\ nq.buf = q.buf
  BY <1>1, <1>4 DEF Holds
<1> QED
  BY <1>7, <1>8, <1>9, <1>10, <1>11, <1>12, QuietStep

LEMMA UpdatePIDsStep ==
  ASSUME IInv, NEW p \in Processes, updatePIDs(p)
  PROVE  IInv'
<1> DEFINE q == proc[p]
           b == IF q.complete THEN q.state ELSE q.src
           nq == [q EXCEPT !.pc = "release", !.state = b]
<1>1. /\ q.pc = "got" /\ proc' = [proc EXCEPT ![p] = nq]
      /\ UNCHANGED <<sent, feedback, order, announced, again, scarce>>
  BY DEF updatePIDs, At
<1>2. \/ pidsSent' = pidsSent + 1 /\ states' = [states EXCEPT ![b].pids = pidsSent + 1]
         /\ crossed' = (crossed \/ b # q.src \/ b # Readable \/ proc["Main"].src # None)
      \/ UNCHANGED <<pidsSent, states, crossed>>
  BY Zenon DEF updatePIDs
<1>3. q \in ProcType /\ Where(q) /\ TypeOK /\ None \notin Buffers
  BY Basics
<1>4. /\ q.default # None /\ q.src # None /\ q.state = IF q.buf = None THEN q.default ELSE q.buf
      /\ q.default \in Buffers /\ q.src \in Buffers
  BY <1>1, <1>3 DEF Where, ProcType
<1>5. b \in Buffers /\ (b = q.src \/ b = q.default \/ b = q.buf)
  BY <1>3, <1>4 DEF ProcType
<1> HIDE DEF b
<1>6. /\ nq \in ProcType /\ nq.pc = "release" /\ nq.default = q.default /\ nq.state = b
      /\ nq.src = q.src /\ nq.buf = q.buf /\ nq.got = q.got /\ nq.frame = q.frame
      /\ nq.complete = q.complete /\ nq.status = q.status
  BY <1>3, <1>5 DEF ProcType, Labels
<1>7. crossed' \in BOOLEAN /\ pidsSent' \in Nat
  <2>1. crossed' \in BOOLEAN
    BY <1>2, <1>3, Zenon DEF TypeOK
  <2>2. pidsSent' \in Nat
    BY <1>2, <1>3 DEF TypeOK
  <2> QED
    BY <2>1, <2>2
<1> HIDE DEF nq
<1>8. Where(nq)
  BY <1>3, <1>4, <1>5, <1>6 DEF Where, Holds
<1>9. Moves(p, nq)
  BY <1>1, <1>3, <1>4, <1>6, <1>7, <1>8, Basics DEF Moves, TypeOK
<1>10. SameBuffers /\ \A c \in Buffers : states'[c].reading = states[c].reading
  <2>1. CASE UNCHANGED states
    BY <1>1, <2>1, NoReading
  <2>2. CASE states' = [states EXCEPT ![b].pids = pidsSent + 1]
    <3> DEFINE s == [states[b] EXCEPT !.pids = pidsSent + 1]
    <3>1. states[b] \in BufferType /\ pidsSent + 1 \in Nat /\ states' = [states EXCEPT ![b] = s]
      BY <1>3, <1>5, <2>2 DEF TypeOK
    <3>2. /\ s \in BufferType /\ s.reading = states[b].reading
          /\ s.frame = states[b].frame /\ s.writing = states[b].writing /\ s.status = states[b].status
          /\ s.complete = states[b].complete /\ s.writeLock = states[b].writeLock
          /\ s.shows = states[b].shows
      BY <3>1 DEF BufferType
    <3> HIDE DEF s
    <3>3. /\ states' \in [Buffers -> BufferType]
          /\ \A c \in Buffers : states'[c] = IF c = b THEN s ELSE states[c]
      BY <1>3, <3>1, <3>2 DEF TypeOK
    <3> QED
      BY <1>1, <3>2, <3>3 DEF SameBuffers
  <2> QED
    BY <1>2, <2>1, <2>2
<1>11. \A c \in Buffers : Writes(nq, c) = Writes(q, c) /\ Reads(nq, c) = Reads(q, c)
  BY <1>1, <1>6 DEF Writes, Reads
<1>12. \A c \in Buffers : states'[c].reading = states[c].reading + Reads(nq, c) - Reads(q, c)
  <2>1. \A c \in Buffers : states[c].reading \in Nat /\ Reads(q, c) \in Int
    BY <1>3 DEF TypeOK, BufferType, Reads
  <2> QED
    BY <1>10, <1>11, <2>1
<1>13. BufferInv /\ WriterInv => ReadsComplete(nq, states) /\ Writer(nq, states, LastFrame)
  BY <1>1, <1>6, Basics DEF ReadsComplete, Writer, Has, Holds
<1>14. Holds(nq) => Holds(q) /\ nq.buf = q.buf
  BY <1>1, <1>6 DEF Holds
<1> QED
  BY <1>9, <1>10, <1>11, <1>12, <1>13, <1>14, QuietStep

LEMMA UnsourceStep ==
  ASSUME IInv, NEW p \in Processes, unsource(p)
  PROVE  IInv'
<1> DEFINE q == proc[p]
           label == IF p = "Motion" /\ ~q.polls /\ Notify(q) THEN "post" ELSE "leave"
           nq == [q EXCEPT !.pc = label, !.src = None, !.buf = None, !.polls = FALSE,
                           !.status = {}, !.complete = FALSE, !.partial = FALSE]
<1>1. /\ q.pc = "unsource" /\ doneReadingState(q.src) /\ proc' = [proc EXCEPT ![p] = nq]
      /\ UNCHANGED <<sent, feedback, pidsSent, order, history>>
  BY DEF unsource, At
<1>2. q \in ProcType /\ Where(q) /\ TypeOK /\ None \notin Buffers /\ label \in {"post", "leave"}
  BY Basics
<1> HIDE DEF label
<1>3. /\ nq \in ProcType /\ nq.pc = label /\ nq.default = q.default /\ nq.state = q.state
      /\ nq.src = None /\ nq.buf = None /\ nq.got = q.got /\ nq.frame = q.frame
      /\ nq.complete = FALSE /\ nq.status = {}
  BY <1>2 DEF ProcType, Labels
<1>4. /\ q.default # None /\ q.src \in Buffers /\ q.src # None /\ q.state = q.default
      /\ q.frame \in 0 .. LastFrame /\ states[q.src].reading > 0
  BY <1>1, <1>2, Basics, CountPositive DEF Where, ProcType
<1> HIDE DEF nq
<1>5. Where(nq)
  BY <1>2, <1>3, <1>4 DEF Where
<1>6. Moves(p, nq)
  BY <1>1, <1>2, <1>3, <1>4, <1>5, Basics DEF Moves, TypeOK, history
<1>7. SameBuffers /\ \A b \in Buffers : states'[b].reading = states[b].reading - (IF b = q.src THEN 1 ELSE 0)
  BY <1>1, <1>4, DoneReading
<1>8. \A b \in Buffers : states'[b].reading = states[b].reading + Reads(nq, b) - Reads(q, b)
  <2>1. \A b \in Buffers : states[b].reading \in Nat /\ b # None
    BY <1>2 DEF TypeOK, BufferType
  <2> QED
    BY <1>3, <1>4, <1>7, <2>1 DEF Reads
<1>9. \A b \in Buffers : Writes(nq, b) = Writes(q, b)
  BY <1>1, <1>2, <1>3 DEF Writes
<1>10. BufferInv /\ WriterInv => ReadsComplete(nq, states) /\ Writer(nq, states, LastFrame)
  BY <1>2, <1>3, Basics DEF ReadsComplete, Writer, Has, Holds
<1> QED
  BY <1>3, <1>6, <1>7, <1>8, <1>9, <1>10, QuietStep DEF Holds

LEMMA PostStep ==
  ASSUME IInv, NEW p \in Processes, post(p)
  PROVE  IInv'
<1> DEFINE q == proc[p]
           label == IF q.src = None THEN "leave" ELSE "release"
           nq == [q EXCEPT !.pc = label]
<1>1. /\ q.pc = "post" /\ proc' = [proc EXCEPT ![p] = nq]
      /\ again' = (again \/ q.frame \in announced) /\ announced' = announced \cup {q.frame}
      /\ UNCHANGED <<sent, feedback, pidsSent, order, states, scarce, crossed>>
  BY DEF post, At, Goto
<1>2. q \in ProcType /\ Where(q) /\ TypeOK /\ label \in Labels /\ q.frame \in Nat
  BY <1>1, Basics DEF Labels
<1>3. /\ nq \in ProcType /\ nq.pc = label /\ nq.default = q.default /\ nq.state = q.state
      /\ nq.src = q.src /\ nq.buf = q.buf /\ nq.got = q.got /\ nq.frame = q.frame
      /\ nq.complete = q.complete /\ nq.status = q.status
  BY <1>2 DEF ProcType
<1> HIDE DEF nq
<1>4. Where(nq)
  BY <1>1, <1>2, <1>3 DEF Where, Holds
<1>5. again' \in BOOLEAN /\ announced' \in SUBSET Nat
  <2>1. again' \in BOOLEAN
    BY <1>1, Zenon
  <2>2. announced' \in SUBSET Nat
    BY <1>1, <1>2 DEF TypeOK
  <2> QED
    BY <2>1, <2>2
<1>6. Moves(p, nq)
  BY <1>1, <1>2, <1>3, <1>4, <1>5, Basics DEF Moves, TypeOK
<1>7. SameBuffers /\ \A b \in Buffers : states'[b].reading = states[b].reading
  BY <1>1, NoReading
<1>8. \A b \in Buffers : Writes(nq, b) = Writes(q, b) /\ Reads(nq, b) = Reads(q, b)
  BY <1>1, <1>3 DEF Writes, Reads
<1>9. \A b \in Buffers : states'[b].reading = states[b].reading + Reads(nq, b) - Reads(q, b)
  <2>1. \A b \in Buffers : states[b].reading \in Nat /\ Reads(q, b) \in Int
    BY <1>2 DEF TypeOK, BufferType, Reads
  <2> QED
    BY <1>7, <1>8, <2>1
<1>10. Holds(nq) => Holds(q) /\ nq.buf = q.buf
  BY <1>1, <1>3 DEF Holds
<1>11. BufferInv /\ WriterInv => ReadsComplete(nq, states) /\ Writer(nq, states, LastFrame)
  BY <1>1, <1>3, <1>10, Basics DEF ReadsComplete, Writer, Has, Holds
<1> QED
  BY <1>6, <1>7, <1>8, <1>9, <1>10, <1>11, QuietStep

-------------------------------------------------------------------------------
(* The steps that change a buffer                                           *)

\* A step of p puts s into b.
Rewrites(p, nq, b, s) ==
  /\ s \in BufferType /\ states' = [states EXCEPT ![b] = s]
  /\ order' \in Seq(Buffers) /\ ToSet(order') = Buffers
  /\ s.frame <= LastFrame /\ s.reading = states[b].reading
  /\ nq.default = proc[p].default /\ nq.src = proc[p].src
  /\ \A c \in Buffers \ {b} : Writes(nq, c) = Writes(proc[p], c)
  /\ s.writing = states[b].writing + Writes(nq, b) - Writes(proc[p], b)
  /\ Holds(nq) => nq.buf = b /\ s.writeLock = p
  /\ \A r \in Processes \ {p} : Holds(proc[r]) /\ proc[r].buf = b => s.writeLock = r

\* What others know of b remains true.
Keeps(p, nq, b, s) ==
  /\ s.complete \/ \E c \in Buffers \ {b} : states[c].complete
  /\ Truthful(s)
  /\ Writer(nq, states', LastFrame)
  /\ nq.default = b \/ nq.src = b => s.complete
  /\ \A r \in Processes \ {p} :
       /\ proc[r].default = b \/ proc[r].src = b => s.complete
       /\ Has(proc[r]) /\ proc[r].buf = b => s.frame = states[b].frame
       /\ Holds(proc[r]) /\ proc[r].buf = b =>
            s.complete = states[b].complete /\ s.shows = states[b].shows

LEMMA BufferStep ==
  ASSUME IInv, NEW p \in Processes, NEW nq, Moves(p, nq), NEW b \in Buffers, NEW s,
         Rewrites(p, nq, b, s),
         ~scarce' /\ BufferInv /\ WriterInv => Keeps(p, nq, b, s)
  PROVE  IInv'
<1> USE DEF Rewrites
<1>1. TypeOK /\ CountInv /\ LockInv /\ WhereInv /\ FrameInv
  BY DEF IInv
<1>2. \A r \in Processes : proc[r] \in ProcType /\ Where(proc[r])
  BY <1>1 DEF TypeOK, WhereInv
<1>3. states' \in [Buffers -> BufferType] /\ \A c \in Buffers : states'[c] = IF c = b THEN s ELSE states[c]
  BY <1>1 DEF TypeOK
<1>4. \A c \in Buffers : Reads(nq, c) = Reads(proc[p], c)
  BY DEF Reads
<1>5. \A c \in Buffers : Counts(p, nq, c) /\ states'[c].frame <= LastFrame
  <2>1. \A c \in Buffers : /\ states[c].reading \in Nat /\ states[c].writing \in Nat
                           /\ Reads(proc[p], c) \in Int /\ Writes(proc[p], c) \in Int
    BY <1>1 DEF TypeOK, BufferType, Reads, Writes
  <2> QED
    BY <1>1, <1>3, <1>4, <2>1 DEF Counts, FrameInv
<1>6. Holds(nq) => states'[nq.buf].writeLock = p
  BY <1>3
<1>7. ASSUME NEW r \in Processes \ {p}, Holds(proc[r]) PROVE states'[proc[r].buf].writeLock = r
  <2>1. proc[r].buf \in Buffers
    BY <1>2, <1>7 DEF Holds, ProcType
  <2> QED
    BY <1>1, <1>3, <1>7, <2>1 DEF LockInv
<1>8. ASSUME ~scarce'
      PROVE  /\ \E c \in Buffers : states'[c].complete
             /\ \A c \in Buffers : Truthful(states'[c])
             /\ ReadsComplete(nq, states') /\ Writer(nq, states', LastFrame)
             /\ \A r \in Processes \ {p} :
                  ReadsComplete(proc[r], states') /\ Writer(proc[r], states', LastFrame)
  <2>1. BufferInv /\ WriterInv
    BY <1>8 DEF IInv, Moves
  <2> Keeps(p, nq, b, s)
    BY <1>8, <2>1
  <2> USE DEF Keeps
  <2>2. /\ \E c \in Buffers : states'[c].complete
        /\ \A c \in Buffers : Truthful(states'[c])
    BY <1>3, <1>8, <2>1 DEF BufferInv
  <2>3. ReadsComplete(nq, states')
    BY <1>2, <1>3, <1>8, <2>1 DEF BufferInv, ReadsComplete, ProcType
  <2>4. ASSUME NEW r \in Processes \ {p}
        PROVE  ReadsComplete(proc[r], states') /\ Writer(proc[r], states', LastFrame)
    <3>1. ReadsComplete(proc[r], states) /\ Writer(proc[r], states, LastFrame)
      BY <2>1 DEF BufferInv, WriterInv
    <3>2. /\ proc[r].buf \in Buffers \cup {None} /\ proc[r].default \in Buffers \cup {None}
          /\ proc[r].src \in Buffers \cup {None}
      BY <1>2 DEF ProcType
    <3>3. /\ (proc[r].default = b \/ proc[r].src = b) => s.complete
          /\ Has(proc[r]) /\ proc[r].buf = b => s.frame = states[b].frame
          /\ Holds(proc[r]) /\ proc[r].buf = b =>
               s.complete = states[b].complete /\ s.shows = states[b].shows
      BY <1>8, <2>1
    <3>4. ReadsComplete(proc[r], states')
      BY <1>3, <3>1, <3>2, <3>3 DEF ReadsComplete
    <3>5. Writer(proc[r], states', LastFrame)
      BY <1>3, <3>1, <3>2, <3>3 DEF Writer, Has, Holds
    <3> QED
      BY <3>4, <3>5
  <2> QED
    BY <1>8, <2>1, <2>2, <2>3, <2>4
<1> QED
  BY <1>3, <1>5, <1>6, <1>7, <1>8, StepInv

\* Nobody else holds a buffer whose lock p has, or whose lock is free.
LEMMA NobodyElseHolds ==
  ASSUME IInv, NEW p \in Processes, NEW b \in Buffers, states[b].writeLock \in {p, "free"}
  PROVE  \A r \in Processes \ {p} : ~(Holds(proc[r]) /\ proc[r].buf = b)
<1>1. "free" \notin Processes
  BY DEF Processes
<1> QED
  BY <1>1 DEF IInv, LockInv

LEMMA LockBufferStep ==
  ASSUME IInv, NEW p \in Processes, lockBuffer(p)
  PROVE  IInv'
<1> DEFINE q == proc[p]
           b == q.buf
           nq == [q EXCEPT !.pc = "check"]
           s == [states[b] EXCEPT !.writeLock = p]
<1>1. /\ q.pc = "lock" /\ states[b].writeLock = "free"
      /\ states' = [states EXCEPT ![b] = s] /\ proc' = [proc EXCEPT ![p] = nq]
      /\ UNCHANGED <<sent, feedback, pidsSent, order, history>>
  BY DEF lockBuffer, At, Goto
<1>2. q \in ProcType /\ Where(q) /\ TypeOK
  BY Basics
<1>3. b \in Buffers /\ q.src # None
  BY <1>1, <1>2 DEF Where, ProcType
<1>4. /\ nq \in ProcType /\ nq.pc = "check" /\ nq.default = q.default /\ nq.state = q.state
      /\ nq.src = q.src /\ nq.buf = b /\ nq.got = q.got /\ nq.frame = q.frame
      /\ nq.complete = q.complete /\ nq.status = q.status
  BY <1>2 DEF ProcType, Labels
<1>5. states[b] \in BufferType
  BY <1>2, <1>3 DEF TypeOK
<1>6. /\ s \in BufferType /\ s.writeLock = p /\ s.reading = states[b].reading
      /\ s.frame = states[b].frame /\ s.writing = states[b].writing /\ s.status = states[b].status
      /\ s.complete = states[b].complete /\ s.shows = states[b].shows
  BY <1>5 DEF BufferType
<1> HIDE DEF nq, s
<1>7. Where(nq)
  BY <1>1, <1>2, <1>3, <1>4 DEF Where, Holds
<1>8. Moves(p, nq)
  BY <1>1, <1>2, <1>3, <1>4, <1>7, Basics DEF Moves, TypeOK, history
<1>9. \A c \in Buffers : Writes(nq, c) = Writes(q, c)
  BY <1>1, <1>4 DEF Writes
<1>10. states[b].writing \in Nat /\ Writes(q, b) \in Int /\ s.frame <= LastFrame
  BY <1>3, <1>5, <1>6 DEF BufferType, Writes, IInv, FrameInv
<1>11. \A r \in Processes \ {p} : ~(Holds(proc[r]) /\ proc[r].buf = b)
  BY <1>1, <1>3, NobodyElseHolds
<1>12. \A c \in Buffers : states'[c] = IF c = b THEN s ELSE states[c]
  BY <1>1, <1>2 DEF TypeOK
<1>13. ASSUME BufferInv, WriterInv PROVE Keeps(p, nq, b, s)
  <2>1. Writer(q, states, LastFrame) /\ Truthful(states[b])
        /\ \A r \in Processes : ReadsComplete(proc[r], states)
    BY <1>3, <1>13 DEF WriterInv, BufferInv
  <2>2. Writer(nq, states', LastFrame)
    BY <1>1, <1>3, <1>4, <1>6, <1>12, <2>1 DEF Writer, Has, Holds
  <2>3. \A r \in Processes : proc[r].default = b \/ proc[r].src = b => s.complete
    BY <1>3, <1>6, <2>1, Basics DEF ReadsComplete
  <2>4. s.complete \/ \E c \in Buffers \ {b} : states[c].complete
    BY <1>6, <1>13 DEF BufferInv
  <2>5. Truthful(s)
    BY <1>6, <2>1 DEF Truthful
  <2> QED
    BY <1>4, <1>6, <2>2, <2>3, <2>4, <2>5 DEF Keeps
<1>14. Rewrites(p, nq, b, s)
  <2>1. order' \in Seq(Buffers) /\ ToSet(order') = Buffers /\ states' = [states EXCEPT ![b] = s]
    BY <1>1, <1>2 DEF TypeOK
  <2>2. s.writing = states[b].writing + Writes(nq, b) - Writes(q, b)
    BY <1>3, <1>6, <1>9, <1>10
  <2> QED
    BY <1>4, <1>6, <1>9, <1>10, <1>11, <2>1, <2>2 DEF Rewrites
<1> QED
  BY <1>3, <1>8, <1>13, <1>14, BufferStep

LEMMA EndReadStep ==
  ASSUME IInv, NEW p \in Processes, endRead(p)
  PROVE  IInv'
<1> DEFINE q == proc[p]
           b == q.state
           flags == q.status \cup {SENSORS_APPLIED} \cup (IF HasFeedback(p) THEN {FEEDBACK_APPLIED} ELSE {})
           nq == [q EXCEPT !.pc = Posts(p, Completed(flags)), !.status = flags, !.complete = Completed(flags)]
           s == [states[b] EXCEPT !.shows = IF q.partial THEN states[b].shows ELSE q.frame]
<1>1. /\ q.pc = "fill" /\ proc' = [proc EXCEPT ![p] = nq]
      /\ states' = [states EXCEPT ![b] = s]
      /\ UNCHANGED <<sent, feedback, pidsSent, order, history>>
  BY DEF endRead, At
<1>2. q \in ProcType /\ Where(q) /\ TypeOK
  BY Basics
<1>3. flags \in SUBSET Flags /\ SENSORS_APPLIED \in flags /\ Completed(flags) \in BOOLEAN
      /\ Posts(p, Completed(flags)) \in {"post", "release"}
  BY <1>2 DEF Flags, ProcType, Completed, Posts
<1>4. /\ b \in Buffers /\ q.src # None /\ q.default # None /\ q.frame \in 0 .. LastFrame
      /\ b = IF q.buf = None THEN q.default ELSE q.buf
  BY <1>1, <1>2, Basics DEF Where, ProcType
<1> DEFINE label == Posts(p, Completed(flags))
           full == Completed(flags)
<1> HIDE DEF flags, label, full
<1>5. /\ nq \in ProcType /\ nq.pc \in {"post", "release"} /\ nq.default = q.default /\ nq.state = q.state
      /\ nq.src = q.src /\ nq.buf = q.buf /\ nq.got = q.got /\ nq.frame = q.frame
      /\ SENSORS_APPLIED \in nq.status
  <2>1. label \in {"post", "release"} /\ label \in Labels /\ full \in BOOLEAN
        /\ nq = [q EXCEPT !.pc = label, !.status = flags, !.complete = full]
    BY <1>3 DEF label, full, Labels
  <2> HIDE DEF nq
  <2> QED
    BY <1>2, <1>3, <2>1 DEF ProcType
<1>6. states[b] \in BufferType
  BY <1>2, <1>4 DEF TypeOK
<1>7. /\ s \in BufferType /\ s.writeLock = states[b].writeLock /\ s.reading = states[b].reading
      /\ s.frame = states[b].frame /\ s.writing = states[b].writing /\ s.status = states[b].status
      /\ s.complete = states[b].complete
      /\ s.shows = IF q.partial THEN states[b].shows ELSE q.frame
  BY <1>4, <1>6, Basics DEF BufferType
<1> HIDE DEF nq, s
<1>8. Where(nq)
  BY <1>1, <1>2, <1>4, <1>5 DEF Where, Holds
<1>9. Moves(p, nq)
  BY <1>1, <1>2, <1>4, <1>5, <1>8, Basics DEF Moves, TypeOK, history
<1>10. \A c \in Buffers : Writes(nq, c) = Writes(q, c)
  BY <1>1, <1>5 DEF Writes
<1>11. states[b].writing \in Nat /\ Writes(q, b) \in Int /\ s.frame <= LastFrame
  BY <1>4, <1>6, <1>7 DEF BufferType, Writes, IInv, FrameInv
<1>12. \A c \in Buffers : states'[c] = IF c = b THEN s ELSE states[c]
  BY <1>1, <1>2 DEF TypeOK
<1>13. \A c \in Buffers : Counts(p, nq, c) /\ states'[c].frame <= LastFrame
  <2>1. \A c \in Buffers : /\ states[c].reading \in Nat /\ states[c].writing \in Nat
                           /\ Reads(nq, c) = Reads(q, c)
                           /\ Reads(q, c) \in Int /\ Writes(q, c) \in Int
    BY <1>2, <1>5 DEF TypeOK, BufferType, Reads, Writes
  <2> QED
    BY <1>7, <1>10, <1>11, <1>12, <2>1 DEF Counts, IInv, FrameInv
<1>14. \A r \in Processes : Holds(proc[r]) => states'[proc[r].buf].writeLock = r
  <2>1. \A r \in Processes : Holds(proc[r]) => proc[r].buf \in Buffers
    BY <1>2 DEF TypeOK, Holds, ProcType
  <2> QED
    BY <1>7, <1>12, <2>1 DEF IInv, LockInv
<1>15. Holds(nq) => Holds(q) /\ nq.buf = q.buf
  BY <1>1, <1>5 DEF Holds
<1>16. ASSUME ~scarce'
       PROVE  /\ \E c \in Buffers : states'[c].complete
              /\ \A c \in Buffers : Truthful(states'[c])
              /\ ReadsComplete(nq, states') /\ Writer(nq, states', LastFrame)
              /\ \A r \in Processes \ {p} :
                   ReadsComplete(proc[r], states') /\ Writer(proc[r], states', LastFrame)
  <2>1. BufferInv /\ WriterInv
    BY <1>9, <1>16 DEF IInv, Moves
  <2>2. /\ Writer(q, states, LastFrame) /\ Truthful(states[b])
        /\ \A r \in Processes : ReadsComplete(proc[r], states)
    BY <1>4, <2>1 DEF WriterInv, BufferInv
  <2>3. q.buf = b /\ Holds(q) /\ ~states[b].complete /\ q.frame = states[b].frame
        /\ (q.partial => states[b].shows = q.frame)
    BY <1>1, <1>4, <2>2 DEF Writer, Holds, Has
  <2>4. s.shows = q.frame
    BY <1>7, <2>3
  <2>5. Truthful(s)
    BY <1>7, <2>3, <2>4 DEF Truthful
  <2>6. /\ \E c \in Buffers : states'[c].complete
        /\ \A c \in Buffers : Truthful(states'[c])
    BY <1>7, <1>12, <2>1, <2>5 DEF BufferInv
  <2>7. \A r \in Processes : ReadsComplete(proc[r], states')
    <3>1. \A r \in Processes : /\ proc[r].default \in Buffers \cup {None}
                               /\ proc[r].src \in Buffers \cup {None}
      BY <1>2 DEF TypeOK, ProcType
    <3> QED
      BY <1>7, <1>12, <2>2, <3>1 DEF ReadsComplete
  <2>8. Writer(nq, states', LastFrame)
    BY <1>4, <1>5, <1>7, <1>12, <2>3, <2>4 DEF Writer, Has, Holds
  <2>9. ASSUME NEW r \in Processes \ {p} PROVE Writer(proc[r], states', LastFrame)
    <3>1. ~(Holds(proc[r]) /\ proc[r].buf = b) /\ Writer(proc[r], states, LastFrame)
      BY <2>1, <2>3, NobodyElseHolds, <1>4 DEF WriterInv, IInv, LockInv
    <3>2. proc[r].buf \in Buffers \cup {None}
      BY <1>2 DEF TypeOK, ProcType
    <3> QED
      BY <1>7, <1>12, <3>1, <3>2 DEF Writer, Has, Holds
  <2>10. ReadsComplete(nq, states')
    BY <1>5, <2>7 DEF ReadsComplete
  <2> QED
    BY <2>6, <2>7, <2>8, <2>9, <2>10
<1>17. order' \in Seq(Buffers) /\ ToSet(order') = Buffers /\ states' \in [Buffers -> BufferType]
  BY <1>1, <1>2, <1>7 DEF TypeOK
<1> QED
  BY <1>5, <1>9, <1>13, <1>14, <1>15, <1>16, <1>17, StepInv

\* What all these lemmas start from: the process, its buffer and its source.
LEMMA WriterBasics ==
  ASSUME IInv, NEW p \in Processes, proc[p].buf # None
  PROVE  /\ proc[p].buf \in Buffers /\ states[proc[p].buf] \in BufferType
         /\ states[proc[p].buf].frame <= LastFrame /\ states \in [Buffers -> BufferType]
         /\ proc[p].src \in Buffers /\ proc[p].src # None /\ proc[p].default # None
         /\ proc[p].frame \in 0 .. LastFrame /\ order \in Seq(Buffers) /\ ToSet(order) = Buffers
         /\ (Has(proc[p]) => states[proc[p].buf].writing > 0)
         /\ (Holds(proc[p]) => states[proc[p].buf].writeLock = p)
         /\ WriterInv => Writer(proc[p], states, LastFrame)
         /\ BufferInv => /\ Truthful(states[proc[p].buf])
                         /\ \A r \in Processes : ReadsComplete(proc[r], states)
                         /\ \E b \in Buffers : states[b].complete
<1>1. proc[p] \in ProcType /\ Where(proc[p])
  BY Basics
<1>2. proc[p].buf \in Buffers /\ proc[p].src \in Buffers /\ proc[p].src # None /\ proc[p].default # None
  BY <1>1 DEF ProcType, Where
<1>3. proc[p].frame \in 0 .. LastFrame
  BY <1>2, Basics
<1>4. (Has(proc[p]) => states[proc[p].buf].writing > 0)
  BY CountPositive
<1> QED
  BY <1>1, <1>2, <1>3, <1>4 DEF IInv, TypeOK, FrameInv, LockInv, WriterInv, BufferInv

LEMMA CheckStep ==
  ASSUME IInv, NEW p \in Processes, check(p)
  PROVE  IInv'
<1> DEFINE q == proc[p]
           b == q.buf
<1>1. q.pc = "check" /\ UNCHANGED <<sent, feedback, pidsSent, order, history>>
  BY DEF check, At
<1>2. q \in ProcType /\ Where(q) /\ TypeOK
  BY Basics
<1>3. b # None /\ ~q.complete /\ q.status = {}
  BY <1>1, <1>2 DEF Where
<1>4. b \in Buffers /\ states[b] \in BufferType /\ Holds(q) /\ Has(q) /\ states[b].writeLock = p
      /\ states[b].writing > 0
  BY <1>1, <1>3, WriterBasics DEF Holds, Has
<1>5. CASE /\ states' = [states EXCEPT ![b] = doneWritingState(states[b], FALSE)]
           /\ proc' = [proc EXCEPT ![p] = [q EXCEPT !.pc = "select", !.buf = None]]
  <2> DEFINE nq == [q EXCEPT !.pc = "select", !.buf = None]
             s == doneWritingState(states[b], FALSE)
  <2>1. /\ nq \in ProcType /\ nq.pc = "select" /\ nq.default = q.default /\ nq.state = q.state
        /\ nq.src = q.src /\ nq.buf = None /\ nq.got = q.got /\ nq.frame = q.frame
        /\ nq.complete = q.complete /\ nq.status = q.status
    BY <1>2 DEF ProcType, Labels
  <2>2. /\ s \in BufferType /\ s.writeLock = "free" /\ s.reading = states[b].reading
        /\ s.frame = states[b].frame /\ s.writing = states[b].writing - 1
        /\ s.status = states[b].status
        /\ s.complete = states[b].complete /\ s.shows = states[b].shows
    <3>1. states[b].writing - 1 \in Nat /\ states[b].complete \in BOOLEAN
          /\ (states[b].complete \/ FALSE) = states[b].complete
      BY <1>4 DEF BufferType
    <3>2. s = [states[b] EXCEPT !.writing = states[b].writing - 1, !.complete = states[b].complete,
                                !.writeLock = "free"]
      BY <3>1 DEF doneWritingState
    <3> QED
      BY <1>4, <3>1, <3>2 DEF BufferType
  <2>0. states' = [states EXCEPT ![b] = s] /\ proc' = [proc EXCEPT ![p] = nq]
    BY <1>5
  <2> HIDE DEF nq, s
  <2>3. q.state = q.default
    BY <1>1, <1>2 DEF Where
  <2>4. Where(nq)
    BY <1>1, <1>2, <1>3, <2>1, <2>3, WriterBasics DEF Where, Holds
  <2>5. Moves(p, nq)
    BY <2>0, <1>1, <1>2, <1>3, <2>1, <2>4, Basics, WriterBasics DEF Moves, TypeOK, history
  <2>6. Rewrites(p, nq, b, s)
    <3>1. /\ \A c \in Buffers \ {b} : Writes(nq, c) = Writes(q, c)
          /\ Writes(nq, b) = 0 /\ Writes(q, b) = 1 /\ states[b].writing \in Nat
      BY <1>1, <1>3, <1>4, <2>1, Basics DEF Writes, BufferType
    <3>2. \A r \in Processes \ {p} : ~(Holds(proc[r]) /\ proc[r].buf = b)
      BY <1>4, NobodyElseHolds
    <3>3. ~Holds(nq)
      BY <2>1 DEF Holds
    <3> QED
      BY <2>0, <1>1, <1>3, <2>1, <2>2, <3>1, <3>2, <3>3, WriterBasics DEF Rewrites
  <2>7. ASSUME BufferInv, WriterInv PROVE Keeps(p, nq, b, s)
    <3>1. Writer(nq, states', LastFrame)
      BY <2>1 DEF Writer, Has, Holds
    <3>2. \A r \in Processes : proc[r].default = b \/ proc[r].src = b => s.complete
      BY <1>3, <2>2, <2>7, WriterBasics DEF ReadsComplete
    <3>3. s.complete \/ \E c \in Buffers \ {b} : states[c].complete
      BY <2>2, <2>7 DEF BufferInv
    <3>4. Truthful(s)
      BY <1>3, <2>2, <2>7, WriterBasics DEF Truthful
    <3> QED
      BY <2>1, <2>2, <3>1, <3>2, <3>3, <3>4 DEF Keeps
  <2> QED
    BY <1>4, <2>5, <2>6, <2>7, BufferStep
<1>6. CASE /\ proc' = [proc EXCEPT ![p] = [q EXCEPT !.pc = "got", !.state = b,
                        !.status = states[b].status, !.complete = states[b].complete]]
           /\ UNCHANGED states
  <2> DEFINE nq == [q EXCEPT !.pc = "got", !.state = b,
                             !.status = states[b].status, !.complete = states[b].complete]
  <2>1. /\ nq \in ProcType /\ nq.pc = "got" /\ nq.default = q.default /\ nq.state = b
        /\ nq.src = q.src /\ nq.buf = b /\ nq.got = q.got /\ nq.frame = q.frame
        /\ nq.complete = states[b].complete /\ nq.status = states[b].status
    BY <1>2, <1>4 DEF ProcType, Labels, BufferType
  <2>2. proc' = [proc EXCEPT ![p] = nq]
    BY <1>6
  <2> HIDE DEF nq
  <2>3. Where(nq)
    BY <1>1, <1>2, <1>3, <2>1, WriterBasics DEF Where, Holds
  <2>4. Moves(p, nq)
    BY <1>1, <1>2, <1>3, <2>1, <2>2, <2>3, Basics, WriterBasics DEF Moves, TypeOK, history
  <2>5. SameBuffers /\ \A c \in Buffers : states'[c].reading = states[c].reading
    BY <1>1, <1>6, NoReading
  <2>6. \A c \in Buffers : Writes(nq, c) = Writes(q, c) /\ Reads(nq, c) = Reads(q, c)
    BY <1>1, <2>1 DEF Writes, Reads
  <2>7. \A c \in Buffers : states'[c].reading = states[c].reading + Reads(nq, c) - Reads(q, c)
    <3>1. \A c \in Buffers : states[c].reading \in Nat /\ Reads(q, c) \in Int
      BY <1>2 DEF TypeOK, BufferType, Reads
    <3> QED
      BY <2>5, <2>6, <3>1
  <2>8. ASSUME BufferInv, WriterInv
        PROVE  ReadsComplete(nq, states) /\ Writer(nq, states, LastFrame)
    <3>1. Writer(q, states, LastFrame) /\ Truthful(states[b]) /\ ReadsComplete(q, states)
      BY <1>3, <2>8, WriterBasics
    <3> QED
      BY <1>1, <1>3, <1>4, <2>1, <3>1 DEF ReadsComplete, Writer, Has, Holds, Truthful
  <2> QED
    BY <1>4, <2>1, <2>4, <2>5, <2>6, <2>7, <2>8, QuietStep
<1> QED
  BY <1>5, <1>6 DEF check

LEMMA DoneStep ==
  ASSUME IInv, NEW p \in Processes, done(p)
  PROVE  IInv'
<1> DEFINE q == proc[p]
           b == q.buf
           nq == [q EXCEPT !.pc = "unsource", !.state = q.default]
           s == doneWritingState(states[b], q.complete)
<1>1. /\ q.pc = "done" /\ proc' = [proc EXCEPT ![p] = nq]
      /\ states' = IF b = None THEN states ELSE [states EXCEPT ![b] = s]
      /\ UNCHANGED <<sent, feedback, pidsSent, order, history>>
  BY DEF done, At
<1>2. q \in ProcType /\ Where(q) /\ TypeOK
  BY Basics
<1>3. /\ nq \in ProcType /\ nq.pc = "unsource" /\ nq.default = q.default /\ nq.state = q.default
      /\ nq.src = q.src /\ nq.buf = q.buf /\ nq.got = q.got /\ nq.frame = q.frame
      /\ nq.complete = q.complete /\ nq.status = q.status
  BY <1>2 DEF ProcType, Labels
<1>4. q.default # None /\ q.src # None
  BY <1>1, <1>2 DEF Where
<1> HIDE DEF nq
<1>5. Where(nq)
  BY <1>1, <1>2, <1>3, <1>4 DEF Where
<1>6. Moves(p, nq)
  BY <1>1, <1>2, <1>3, <1>4, <1>5, Basics DEF Moves, TypeOK, history
<1>7. CASE b = None
  <2>1. SameBuffers /\ \A c \in Buffers : states'[c].reading = states[c].reading
    BY <1>1, <1>7, NoReading
  <2>2. \A c \in Buffers : Writes(nq, c) = Writes(q, c) /\ Reads(nq, c) = Reads(q, c)
    BY <1>1, <1>3, <1>7, Basics DEF Writes, Reads
  <2>3. \A c \in Buffers : states'[c].reading = states[c].reading + Reads(nq, c) - Reads(q, c)
    <3>1. \A c \in Buffers : states[c].reading \in Nat /\ Reads(q, c) \in Int
      BY <1>2 DEF TypeOK, BufferType, Reads
    <3> QED
      BY <2>1, <2>2, <3>1
  <2>4. BufferInv /\ WriterInv => ReadsComplete(nq, states) /\ Writer(nq, states, LastFrame)
    BY <1>3, <1>7, Basics DEF ReadsComplete, Writer, Has, Holds
  <2>5. ~Holds(nq)
    BY <1>3 DEF Holds
  <2> QED
    BY <1>6, <2>1, <2>2, <2>3, <2>4, <2>5, QuietStep
<1>8. CASE b # None
  <2>1. b \in Buffers /\ states[b] \in BufferType /\ Holds(q) /\ Has(q) /\ states[b].writeLock = p
        /\ states[b].writing > 0
    BY <1>1, <1>8, WriterBasics DEF Holds, Has
  <2>2. /\ s \in BufferType /\ s.writeLock = "free" /\ s.reading = states[b].reading
        /\ s.frame = states[b].frame /\ s.writing = states[b].writing - 1
        /\ s.status = states[b].status /\ s.shows = states[b].shows
        /\ (s.complete <=> states[b].complete \/ q.complete)
    <3> DEFINE now == states[b].complete \/ q.complete
    <3>1. states[b].writing - 1 \in Nat /\ now \in BOOLEAN
      BY <2>1 DEF BufferType
    <3>2. s = [states[b] EXCEPT !.writing = states[b].writing - 1, !.complete = now,
                                !.writeLock = "free"]
      BY Zenon DEF doneWritingState
    <3> HIDE DEF s, now
    <3>3. /\ s \in BufferType /\ s.writeLock = "free" /\ s.reading = states[b].reading
          /\ s.frame = states[b].frame /\ s.writing = states[b].writing - 1
          /\ s.status = states[b].status /\ s.shows = states[b].shows
          /\ s.complete = now
      BY <2>1, <3>1, <3>2 DEF BufferType
    <3> QED
      BY <3>3 DEF now
  <2> HIDE DEF s
  <2>3. Rewrites(p, nq, b, s)
    <3>1. /\ \A c \in Buffers \ {b} : Writes(nq, c) = Writes(q, c)
          /\ Writes(nq, b) = 0 /\ Writes(q, b) = 1 /\ states[b].writing \in Nat
      BY <1>1, <1>3, <2>1 DEF Writes, BufferType
    <3>2. \A r \in Processes \ {p} : ~(Holds(proc[r]) /\ proc[r].buf = b)
      BY <2>1, NobodyElseHolds
    <3>3. ~Holds(nq)
      BY <1>3 DEF Holds
    <3> QED
      BY <1>1, <1>3, <1>8, <2>2, <3>1, <3>2, <3>3, WriterBasics DEF Rewrites
  <2>4. ASSUME BufferInv, WriterInv PROVE Keeps(p, nq, b, s)
    <3>1. Writer(nq, states', LastFrame)
      BY <1>3 DEF Writer, Has, Holds
    <3>2. \A r \in Processes : proc[r].default = b \/ proc[r].src = b => s.complete
      BY <1>8, <2>2, <2>4, WriterBasics, Basics DEF ReadsComplete
    <3>3. s.complete \/ \E c \in Buffers \ {b} : states[c].complete
      BY <2>2, <2>4 DEF BufferInv
    <3>4. Truthful(states[b]) /\ Writer(q, states, LastFrame)
      BY <1>8, <2>4, WriterBasics
    <3>5. Truthful(s)
      BY <1>1, <2>1, <2>2, <3>4 DEF Truthful, Writer
    <3>6. \A r \in Processes \ {p} : ~(Holds(proc[r]) /\ proc[r].buf = b)
      BY <2>1, NobodyElseHolds
    <3> QED
      BY <1>3, <2>2, <3>1, <3>2, <3>3, <3>5, <3>6 DEF Keeps
  <2> QED
    BY <1>6, <2>1, <2>3, <2>4, BufferStep
<1> QED
  BY <1>7, <1>8

LEMMA SelectStep ==
  ASSUME IInv, NEW p \in Processes, getCurrentWriteState(p)
  PROVE  IInv'
<1> DEFINE q == proc[p]
           f == q.frame
           b == selectWriteState(f)
           needed == states[b].frame # f /\ (states[b].writing > 0 \/ b = Readable)
<1>1. q.pc = "select" /\ UNCHANGED <<sent, feedback, pidsSent, announced, again, crossed>>
  BY DEF getCurrentWriteState, At
<1>2. q \in ProcType /\ Where(q) /\ TypeOK
  BY Basics
<1>3. /\ q.buf = None /\ q.src # None /\ q.default # None /\ ~q.complete /\ q.status = {}
      /\ q.state = q.default /\ f \in 0 .. LastFrame /\ f \in Nat /\ LastFrame \in Nat
  BY <1>1, <1>2, Basics DEF Where
<1>4. CASE /\ b = None /\ Goto(p, "got") /\ scarce' = (scarce \/ ~Overtaken(f))
           /\ UNCHANGED <<order, states>>
  <2> DEFINE nq == [q EXCEPT !.pc = "got"]
  <2>1. /\ nq \in ProcType /\ nq.pc = "got" /\ nq.default = q.default /\ nq.state = q.state
        /\ nq.src = q.src /\ nq.buf = None /\ nq.got = q.got /\ nq.frame = f
        /\ ~nq.complete /\ nq.status = {}
    BY <1>2, <1>3 DEF ProcType, Labels
  <2>2. proc' = [proc EXCEPT ![p] = nq]
    BY <1>4 DEF Goto
  <2> HIDE DEF nq
  <2>3. scarce' \in BOOLEAN /\ (scarce => scarce') /\ (~scarce' => Overtaken(f))
    BY <1>4, Zenon
  <2>4. Where(nq)
    BY <1>3, <2>1 DEF Where
  <2>5. Moves(p, nq)
    BY <1>1, <1>2, <1>3, <2>1, <2>2, <2>3, <2>4, Basics DEF Moves, TypeOK
  <2>6. SameBuffers /\ \A c \in Buffers : states'[c].reading = states[c].reading
    BY <1>4, NoReading
  <2>7. \A c \in Buffers : Writes(nq, c) = Writes(q, c) /\ Reads(nq, c) = Reads(q, c)
    BY <1>1, <1>3, <2>1, Basics DEF Writes, Reads
  <2>8. \A c \in Buffers : states'[c].reading = states[c].reading + Reads(nq, c) - Reads(q, c)
    <3>1. \A c \in Buffers : states[c].reading \in Nat /\ Reads(q, c) \in Int
      BY <1>2 DEF TypeOK, BufferType, Reads
    <3> QED
      BY <2>6, <2>7, <3>1
  <2>9. ASSUME ~scarce', BufferInv, WriterInv
        PROVE  ReadsComplete(nq, states) /\ Writer(nq, states, LastFrame)
    <3>1. Newest \in Buffers /\ states[Newest].frame <= LastFrame /\ states[Newest].frame \in Nat
      BY <1>2, OrderFacts DEF IInv, FrameInv, TypeOK, BufferType
    <3>2. f < LastFrame
      BY <1>3, <2>3, <2>9, <3>1 DEF Overtaken
    <3> QED
      BY <2>1, <2>9, <3>2, Basics DEF ReadsComplete, Writer, Has, Holds
  <2>10. ~Holds(nq)
    BY <2>1 DEF Holds
  <2> QED
    BY <2>5, <2>6, <2>7, <2>8, <2>9, <2>10, QuietStep
<1>5. CASE /\ b # None
           /\ order' = Append(RemoveFirst(order, b), b)
           /\ states' = [states EXCEPT ![b] = [Renewed(states[b], f) EXCEPT !.writing = states[b].writing + 1]]
           /\ proc' = [proc EXCEPT ![p] = [q EXCEPT !.pc = "lock", !.buf = b]]
           /\ scarce' = (scarce \/ needed)
  <2> DEFINE nq == [q EXCEPT !.pc = "lock", !.buf = b]
             s == [Renewed(states[b], f) EXCEPT !.writing = states[b].writing + 1]
  <2>1. /\ b \in Buffers /\ b # None
        /\ \/ states[b].frame = f
           \/ states[b].writing > 0
           \/ states[b].writing = 0 /\ states[b].reading = 0
    BY <1>2, <1>3, <1>5, SelectFacts
  <2>2. scarce' \in BOOLEAN /\ (scarce => scarce') /\ (~scarce' => ~needed)
    BY <1>5, Zenon
  <2>3. states' = [states EXCEPT ![b] = s] /\ proc' = [proc EXCEPT ![p] = nq]
    BY <1>5
  <2>4. order' \in Seq(Buffers) /\ ToSet(order') = Buffers
    BY <1>2, <1>5, <2>1, MoveToBack
  <2> HIDE DEF b
  <2>5. /\ nq \in ProcType /\ nq.pc = "lock" /\ nq.default = q.default /\ nq.state = q.state
        /\ nq.src = q.src /\ nq.buf = b /\ nq.got = q.got /\ nq.frame = f
        /\ ~nq.complete /\ nq.status = {}
    BY <1>2, <1>3, <2>1 DEF ProcType, Labels
  <2>6. states[b] \in BufferType /\ states[b].frame <= LastFrame
    BY <1>2, <2>1 DEF TypeOK, IInv, FrameInv
  <2>7. /\ s \in BufferType /\ s.writeLock = states[b].writeLock /\ s.reading = states[b].reading
        /\ s.frame = f /\ s.writing = states[b].writing + 1 /\ s.shows = states[b].shows
        /\ s.complete = (IF states[b].frame = f THEN states[b].complete ELSE FALSE)
        /\ s.status = IF states[b].frame = f THEN states[b].status ELSE {}
    <3> DEFINE r == Renewed(states[b], f)
               n == states[b].writing + 1
    <3>1. /\ r \in BufferType /\ r.writeLock = states[b].writeLock /\ r.reading = states[b].reading
          /\ r.frame = f /\ r.shows = states[b].shows
          /\ r.complete = (IF states[b].frame = f THEN states[b].complete ELSE FALSE)
          /\ r.status = IF states[b].frame = f THEN states[b].status ELSE {}
      <4>1. CASE states[b].frame = f
        BY <2>6, <4>1 DEF Renewed
      <4>2. CASE states[b].frame # f
        <5>1. r = [states[b] EXCEPT !.frame = f, !.status = {}, !.complete = FALSE]
          BY <4>2 DEF Renewed
        <5> HIDE DEF r
        <5> QED
          BY <1>3, <2>6, <4>2, <5>1 DEF BufferType
      <4> QED
        BY <4>1, <4>2
    <3>2. s = [r EXCEPT !.writing = n] /\ n \in Nat
      BY <2>6 DEF BufferType
    <3> HIDE DEF r, s
    <3>3. /\ s \in BufferType /\ s.writeLock = r.writeLock /\ s.reading = r.reading
          /\ s.frame = r.frame /\ s.writing = n /\ s.shows = r.shows
          /\ s.complete = r.complete /\ s.status = r.status
      <4> HIDE DEF n
      <4> QED
        BY <3>1, <3>2 DEF BufferType
    <3> QED
      BY <3>1, <3>3
  <2> HIDE DEF nq, s
  <2>8. Where(nq)
    BY <1>3, <2>1, <2>5 DEF Where
  <2>9. Moves(p, nq)
    BY <1>1, <1>2, <1>3, <2>2, <2>3, <2>5, <2>8, Basics DEF Moves, TypeOK
  <2>10. ~Holds(nq) /\ Has(nq)
    BY <2>1, <2>5 DEF Holds, Has
  <2>11. Rewrites(p, nq, b, s)
    <3>1. /\ \A c \in Buffers \ {b} : Writes(nq, c) = Writes(q, c)
          /\ Writes(nq, b) = 1 /\ Writes(q, b) = 0 /\ states[b].writing \in Nat
      BY <1>3, <2>1, <2>5, <2>6, Basics DEF Writes, BufferType
    <3>2. \A r \in Processes : Holds(proc[r]) /\ proc[r].buf = b => s.writeLock = r
      BY <2>7 DEF IInv, LockInv
    <3> QED
      BY <1>3, <2>3, <2>4, <2>5, <2>7, <2>10, <3>1, <3>2 DEF Rewrites
  <2>12. ASSUME ~scarce', BufferInv, WriterInv PROVE Keeps(p, nq, b, s)
    <3>1. Writer(nq, states', LastFrame)
      <4>1. states'[b] = s
        BY <1>2, <2>1, <2>3 DEF TypeOK
      <4> QED
        BY <2>5, <2>7, <2>10, <4>1 DEF Writer
    <3>2. CASE states[b].frame = f
      <4>1. \A r \in Processes : ReadsComplete(proc[r], states)
        BY <2>12 DEF BufferInv
      <4>2. s.complete = states[b].complete /\ s.frame = states[b].frame /\ s.status = states[b].status
        BY <2>7, <3>2
      <4>3. \A r \in Processes : proc[r].default = b \/ proc[r].src = b => s.complete
        BY <2>1, <4>1, <4>2 DEF ReadsComplete
      <4>4. s.complete \/ \E c \in Buffers \ {b} : states[c].complete
        BY <2>12, <4>2 DEF BufferInv
      <4>5. Truthful(s)
        BY <2>1, <2>7, <2>12, <4>2 DEF BufferInv, Truthful
      <4> QED
        BY <2>5, <2>7, <3>1, <4>2, <4>3, <4>4, <4>5 DEF Keeps
    <3>3. CASE states[b].frame # f
      <4>1. states[b].writing = 0 /\ states[b].reading = 0 /\ b # Readable
        BY <2>1, <2>2, <2>6, <2>12, <3>3 DEF BufferType
      <4>2. \A r \in Processes : proc[r].default # b /\ proc[r].src # b /\ ~(Has(proc[r]) /\ proc[r].buf = b)
        BY <2>1, <4>1, CountPositive
      <4>3. ~s.complete /\ s.status = {}
        BY <2>7, <3>3
      <4>4. \E c \in Buffers \ {b} : states[c].complete
        BY <2>12, <4>1, Basics
      <4>5. Truthful(s)
        BY <4>3 DEF Truthful
      <4>6. \A r \in Processes : ~(Holds(proc[r]) /\ proc[r].buf = b)
        BY <4>2 DEF Holds, Has
      <4> QED
        BY <2>5, <3>1, <4>2, <4>4, <4>5, <4>6 DEF Keeps
    <3> QED
      BY <3>2, <3>3
  <2> QED
    BY <2>1, <2>9, <2>11, <2>12, BufferStep
<1>6. \/ /\ b = None
         /\ Goto(p, "got")
         /\ scarce' = (scarce \/ ~Overtaken(f))
         /\ UNCHANGED <<order, states>>
      \/ /\ b # None
         /\ order' = Append(RemoveFirst(order, b), b)
         /\ states' = [states EXCEPT ![b] = [Renewed(states[b], f) EXCEPT !.writing = Renewed(states[b], f).writing + 1]]
         /\ proc' = [proc EXCEPT ![p] = [q EXCEPT !.pc = "lock", !.buf = b]]
         /\ scarce' = (scarce \/ needed)
  BY DEF getCurrentWriteState
<1>7. b # None => Renewed(states[b], f).writing = states[b].writing
  <2>1. b # None => states[b] \in BufferType
    BY <1>2, <1>3, SelectFacts DEF TypeOK
  <2> HIDE DEF b
  <2> QED
    BY <2>1 DEF Renewed, BufferType
<1> HIDE DEF b
<1> QED
  BY <1>4, <1>5, <1>6, <1>7

LEMMA ReleaseStep ==
  ASSUME IInv, NEW p \in Processes, release(p)
  PROVE  IInv'
<1> DEFINE q == proc[p]
           nq == [q EXCEPT !.pc = "done"]
           settings(c) == IF c = q.state THEN CarriedOver(q) ELSE states[c].pids
           flags(c) == IF c = q.buf THEN q.status ELSE states[c].status
<1>1. /\ q.pc = "release" /\ proc' = [proc EXCEPT ![p] = nq]
      /\ UNCHANGED <<sent, feedback, pidsSent, order, history>>
  BY DEF release, At, Goto
<1>2. \A c \in Buffers : states'[c] = [states[c] EXCEPT !.pids = settings(c), !.status = flags(c)]
  BY DEF release
<1>3. DOMAIN states' = Buffers /\ states' = [c \in Buffers |-> states'[c]]
  BY DEF release
<1>4. q \in ProcType /\ Where(q) /\ TypeOK
  BY Basics
<1>5. /\ nq \in ProcType /\ nq.pc = "done" /\ nq.default = q.default /\ nq.state = q.state
      /\ nq.src = q.src /\ nq.buf = q.buf /\ nq.got = q.got /\ nq.frame = q.frame
      /\ nq.complete = q.complete /\ nq.status = q.status
  BY <1>4 DEF ProcType, Labels
<1>6. q.default \in Buffers /\ q.src \in Buffers /\ q.default # None /\ q.src # None /\ q.state \in Buffers
  BY <1>1, <1>4 DEF Where, ProcType
<1> HIDE DEF nq
<1>7. Where(nq)
  BY <1>1, <1>4, <1>5, <1>6 DEF Where, Holds
<1>8. Moves(p, nq)
  BY <1>1, <1>4, <1>5, <1>6, <1>7, Basics DEF Moves, TypeOK, history
<1>9. \A c \in Buffers : settings(c) \in Nat /\ flags(c) \in SUBSET Flags
  <2>1. \A c \in Buffers : states[c].pids \in Nat /\ states[c].status \in SUBSET Flags
    BY <1>4 DEF TypeOK, BufferType
  <2> QED
    BY <1>4, <1>6, <2>1 DEF CarriedOver, ProcType
<1> HIDE DEF settings
<1>10. \A c \in Buffers :
         /\ states'[c] \in BufferType /\ states'[c].writeLock = states[c].writeLock
         /\ states'[c].reading = states[c].reading /\ states'[c].writing = states[c].writing
         /\ states'[c].frame = states[c].frame /\ states'[c].complete = states[c].complete
         /\ states'[c].shows = states[c].shows /\ states'[c].status = flags(c)
  <2> HIDE DEF flags
  <2> SUFFICES ASSUME NEW c \in Buffers
               PROVE  /\ states'[c] \in BufferType /\ states'[c].writeLock = states[c].writeLock
                      /\ states'[c].reading = states[c].reading /\ states'[c].writing = states[c].writing
                      /\ states'[c].frame = states[c].frame /\ states'[c].complete = states[c].complete
                      /\ states'[c].shows = states[c].shows /\ states'[c].status = flags(c)
    OBVIOUS
  <2> DEFINE i == settings(c)
             j == flags(c)
  <2>1. states[c] \in BufferType /\ i \in Nat /\ j \in SUBSET Flags
        /\ states'[c] = [states[c] EXCEPT !.pids = i, !.status = j]
    BY <1>2, <1>4, <1>9 DEF TypeOK
  <2> HIDE DEF i, j
  <2>2. /\ states'[c] \in BufferType /\ states'[c].writeLock = states[c].writeLock
        /\ states'[c].reading = states[c].reading /\ states'[c].writing = states[c].writing
        /\ states'[c].frame = states[c].frame /\ states'[c].complete = states[c].complete
        /\ states'[c].shows = states[c].shows /\ states'[c].status = j
    BY <2>1 DEF BufferType
  <2> QED
    BY <2>2 DEF j
<1>11. states' \in [Buffers -> BufferType]
  BY <1>3, <1>10
<1>12. \A c \in Buffers : Counts(p, nq, c) /\ states'[c].frame <= LastFrame
  <2>1. \A c \in Buffers : /\ states[c].reading \in Nat /\ states[c].writing \in Nat
                           /\ Reads(nq, c) = Reads(q, c) /\ Writes(nq, c) = Writes(q, c)
                           /\ Reads(q, c) \in Int /\ Writes(q, c) \in Int
    BY <1>1, <1>4, <1>5 DEF TypeOK, BufferType, Reads, Writes
  <2> QED
    BY <1>10, <2>1 DEF Counts, IInv, FrameInv
<1>13. \A r \in Processes : Holds(proc[r]) => states'[proc[r].buf].writeLock = r
  <2>1. \A r \in Processes : Holds(proc[r]) => proc[r].buf \in Buffers
    BY <1>4 DEF TypeOK, Holds, ProcType
  <2> QED
    BY <1>10, <2>1 DEF IInv, LockInv
<1>14. Holds(nq) => Holds(q) /\ nq.buf = q.buf
  BY <1>1, <1>5 DEF Holds
<1>15. ASSUME ~scarce'
       PROVE  /\ \E c \in Buffers : states'[c].complete
              /\ \A c \in Buffers : Truthful(states'[c])
              /\ ReadsComplete(nq, states') /\ Writer(nq, states', LastFrame)
              /\ \A r \in Processes \ {p} :
                   ReadsComplete(proc[r], states') /\ Writer(proc[r], states', LastFrame)
  <2>1. BufferInv /\ WriterInv
    BY <1>8, <1>15 DEF IInv, Moves
  <2>2. \E c \in Buffers : states'[c].complete
    BY <1>10, <2>1 DEF BufferInv
  <2>3. ASSUME NEW c \in Buffers PROVE Truthful(states'[c])
    <3>1. Truthful(states[c]) /\ Writer(q, states, LastFrame)
      BY <2>1 DEF BufferInv, WriterInv
    <3>2. CASE c # q.buf
      BY <1>10, <3>1, <3>2 DEF Truthful
    <3>3. CASE c = q.buf
      <4>1. Holds(q) /\ Has(q)
        BY <1>1, <3>3, Basics DEF Holds, Has
      <4>2. /\ states[c].frame = q.frame
            /\ SENSORS_APPLIED \in q.status => states[c].shows = q.frame
        BY <1>1, <3>1, <3>3, <4>1 DEF Writer
      <4> QED
        BY <1>10, <3>1, <3>3, <4>2 DEF Truthful
    <3> QED
      BY <3>2, <3>3
  <2>4. ASSUME NEW r \in Processes
        PROVE  ReadsComplete(proc[r], states') /\ Writer(proc[r], states', LastFrame)
    <3>1. ReadsComplete(proc[r], states) /\ Writer(proc[r], states, LastFrame)
      BY <2>1 DEF BufferInv, WriterInv
    <3>2. /\ proc[r].buf \in Buffers \cup {None} /\ proc[r].default \in Buffers \cup {None}
          /\ proc[r].src \in Buffers \cup {None}
      BY <1>4 DEF TypeOK, ProcType
    <3>3. ReadsComplete(proc[r], states')
      BY <1>10, <3>1, <3>2 DEF ReadsComplete
    <3>4. Writer(proc[r], states', LastFrame)
      BY <1>10, <3>1, <3>2 DEF Writer, Has, Holds
    <3> QED
      BY <3>3, <3>4
  <2>5. ReadsComplete(nq, states') /\ Writer(nq, states', LastFrame)
    BY <1>1, <1>5, <2>4 DEF ReadsComplete, Writer, Has, Holds
  <2> QED
    BY <2>2, <2>3, <2>4, <2>5
<1>16. order' \in Seq(Buffers) /\ ToSet(order') = Buffers
  BY <1>1, <1>4 DEF TypeOK
<1> QED
  BY <1>5, <1>8, <1>11, <1>12, <1>13, <1>14, <1>15, <1>16, StepInv

LEMMA FrameSentStep ==
  ASSUME IInv, FrameSent
  PROVE  IInv'
<1>1. /\ sent \in Nat /\ sent' = sent + 1 /\ LastFrame' = sent /\ LastFrame \in Nat
      /\ LastFrame <= sent
      /\ UNCHANGED <<feedback, pidsSent, order, states, proc, announced, again, scarce, crossed>>
  BY DEF IInv, TypeOK, FrameSent, LastFrame, history
<1>2. TypeOK' /\ CountInv' /\ LockInv' /\ WhereInv'
  BY <1>1 DEF IInv, TypeOK, CountInv, Counted, LockInv, WhereInv
<1>3. FrameInv'
  <2>1. \A b \in Buffers : states[b].frame \in Nat /\ states[b].frame <= sent
    BY <1>1 DEF IInv, FrameInv, TypeOK, BufferType
  <2>2. \A r \in Processes : proc[r].got \in Nat /\ proc[r].got <= sent + 1
    BY <1>1 DEF IInv, FrameInv, TypeOK, ProcType
  <2>3. \A x \in 0 .. LastFrame : x \in 0 .. sent
    BY <1>1
  <2> QED
    BY <1>1, <2>1, <2>2, <2>3 DEF IInv, FrameInv
<1>4. ASSUME ~scarce' PROVE BufferInv' /\ WriterInv'
  <2>1. BufferInv /\ WriterInv
    BY <1>1, <1>4 DEF IInv
  <2>2. \A r \in Processes : Writer(proc[r], states, sent)
    <3>1. ASSUME NEW r \in Processes, proc[r].buf = None, proc[r].pc = "got"
          PROVE  proc[r].frame < LastFrame => proc[r].frame < sent
      <4>1. proc[r].frame \in 0 .. LastFrame
        BY <3>1, Basics DEF Where
      <4> QED
        BY <1>1, <4>1
    <3> QED
      BY <2>1, <3>1 DEF WriterInv, Writer
  <2>3. \A r \in Processes : Writer(proc'[r], states', LastFrame')
    BY <1>1, <2>2
  <2> QED
    BY <1>1, <2>1, <2>3 DEF BufferInv, Truthful, ReadsComplete, WriterInv, Writer, Has, Holds
<1> QED
  BY <1>2, <1>3, <1>4 DEF IInv

-------------------------------------------------------------------------------
(* The invariant holds                                                      *)

LEMMA InitInv == Init => IInv
<1> SUFFICES ASSUME Init PROVE IInv
  OBVIOUS
<1>1. /\ NUM_STATES \in Nat /\ NUM_STATES >= 2 /\ Buffers = 0 .. NUM_STATES - 1
      /\ 0 \in Buffers /\ 0 # NUM_STATES - 1 /\ None \notin Buffers /\ Processes = {"Main", "Motion"}
  BY Bounds DEF Buffers, None, Processes
<1>2. order \in Seq(Buffers) /\ ToSet(order) = Buffers
  <2>1. order = [i \in 1 .. NUM_STATES |-> i - 1]
    BY DEF Init
  <2>2. \A i \in 1 .. NUM_STATES : i - 1 \in Buffers
    BY <1>1
  <2>3. order \in Seq(Buffers)
    BY <1>1, <2>1, <2>2, SeqDef
  <2>4. \A b \in Buffers : b + 1 \in 1 .. NUM_STATES /\ order[b + 1] = b
    BY <1>1, <2>1
  <2> QED
    BY <2>1, <2>2, <2>3, <2>4 DEF ToSet
<1>3. \A b \in Buffers : /\ states[b] \in BufferType
                         /\ states[b].frame = 0 /\ states[b].reading = 0 /\ states[b].writing = 0
                         /\ states[b].status = {} /\ states[b].shows = None
                         /\ states[b].complete = (b # NUM_STATES - 1)
  <2> SUFFICES ASSUME NEW b \in Buffers
               PROVE  /\ states[b] \in BufferType
                      /\ states[b].frame = 0 /\ states[b].reading = 0 /\ states[b].writing = 0
                      /\ states[b].status = {} /\ states[b].shows = None
                      /\ states[b].complete = (b # NUM_STATES - 1)
    OBVIOUS
  <2> DEFINE full == b # NUM_STATES - 1
  <2>1. full \in BOOLEAN
    OBVIOUS
  <2>2. states[b] = [frame |-> 0, reading |-> 0, writing |-> 0, status |-> {},
            complete |-> full, writeLock |-> "free", shows |-> None, pids |-> 0]
    BY DEF Init
  <2> HIDE DEF full
  <2>3. /\ states[b] \in BufferType
        /\ states[b].frame = 0 /\ states[b].reading = 0 /\ states[b].writing = 0
        /\ states[b].status = {} /\ states[b].shows = None
        /\ states[b].complete = full
    BY <2>1, <2>2 DEF BufferType
  <2> QED
    BY <2>3 DEF full
<1>4. \A p \in Processes :
        /\ proc[p] \in ProcType /\ proc[p].pc = "idle" /\ proc[p].got = 0 /\ proc[p].default = None
        /\ proc[p].src = None /\ proc[p].buf = None /\ proc[p].state = None
        /\ proc[p].status = {} /\ ~proc[p].complete
  <2> DEFINE q == [pc |-> "idle", got |-> 0, polls |-> FALSE, default |-> None, src |-> None,
                   buf |-> None, state |-> None, frame |-> None, status |-> {},
                   complete |-> FALSE, partial |-> FALSE]
  <2>1. \A p \in Processes : proc[p] = q
    BY DEF Init
  <2>2. q \in ProcType
    <3>1. "idle" \in Labels /\ FALSE \in BOOLEAN /\ 0 \in Nat
      BY DEF Labels
    <3> QED
      BY <3>1 DEF ProcType
  <2>3. /\ q.pc = "idle" /\ q.got = 0 /\ q.default = None
        /\ q.src = None /\ q.buf = None /\ q.state = None
        /\ q.status = {} /\ ~q.complete
    OBVIOUS
  <2> HIDE DEF q
  <2> QED
    BY <2>1, <2>2, <2>3
<1>5. TypeOK
  BY <1>2, <1>3, <1>4, Bounds DEF TypeOK, Init
<1>6. CountInv
  BY <1>1, <1>3, <1>4 DEF CountInv, Counted, Reads, Writes
<1>7. LockInv /\ WhereInv
  BY <1>4 DEF LockInv, WhereInv, Where, Holds
<1>8. FrameInv
  BY <1>3, <1>4 DEF FrameInv, LastFrame, Init
<1>9. BufferInv
  BY <1>1, <1>3, <1>4 DEF BufferInv, Truthful, ReadsComplete
<1>10. WriterInv
  BY <1>4 DEF WriterInv, Writer, Has, Holds
<1> QED
  BY <1>5, <1>6, <1>7, <1>8, <1>9, <1>10 DEF IInv

LEMMA InductiveStep == IInv /\ [Next]_vars => IInv'
<1> SUFFICES ASSUME IInv, [Next]_vars PROVE IInv'
  OBVIOUS
<1>1. ASSUME NEW p \in Processes, Enter(p) \/ isUnread(p) \/ poll(p) \/ Update(p)
      PROVE  IInv'
  BY <1>1, EnterStep, IsUnreadStep, PollStep, ResetStep, UseSourceStep, SelectStep, LockBufferStep,
     CheckStep, BeginReadStep, EndReadStep, UpdatePIDsStep, ReleaseStep, DoneStep, UnsourceStep,
     PostStep, LeaveStep DEF Update
<1>2. CASE UNCHANGED vars
  <2>1. IInv' <=> IInv
    BY <1>2 DEF vars, history, IInv, TypeOK, CountInv, Counted, LockInv, WhereInv, Where, FrameInv,
                LastFrame, BufferInv, Truthful, ReadsComplete, WriterInv, Writer, Has, Holds
  <2> QED
    BY <2>1
<1> QED
  BY <1>1, <1>2, FrameSentStep DEF Next

(* The invariant, the type invariant among it: a buffer counts the reads    *)
(* and the writes that are under way, its lock is that of the process that  *)
(* works on it, and while no frame has got a buffer that was needed, what   *)
(* is read is complete and what is being written is not.                    *)
THEOREM Inductive == Spec => []IInv
<1>1. Init => IInv
  BY InitInv
<1>2. IInv /\ [Next]_vars => IInv'
  BY InductiveStep
<1> QED
  BY <1>1, <1>2, PTL DEF Spec

(* Nobody reads from a buffer that another process is writing, as long as   *)
(* the pool has a buffer to spare: what is being filled in is not complete, *)
(* what is read is, and a buffer has one writer at a time.                  *)
THEOREM Undisturbing == Spec => []ReadersUndisturbed
<1>1. IInv => ReadersUndisturbed
  <2> SUFFICES ASSUME IInv, ~scarce, NEW p \in Processes, NEW q \in Processes, p # q, At(p, "fill")
               PROVE  proc[p].state \notin Using(q)
    BY DEF ReadersUndisturbed, Undisturbed
  <2>1. /\ Where(proc[p]) /\ Where(proc[q]) /\ ReadsComplete(proc[q], states)
        /\ Writer(proc[p], states, LastFrame) /\ proc[p] \in ProcType
    BY Basics
  <2>2. proc[p].buf # None /\ proc[p].state = proc[p].buf /\ Holds(proc[p]) /\ ~states[proc[p].buf].complete
    BY <2>1 DEF At, Where, Writer, Holds
  <2>3. proc[p].state \notin {proc[q].default, proc[q].src}
    BY <2>1, <2>2 DEF ReadsComplete
  <2>4. ~(Holds(proc[q]) /\ proc[q].buf = proc[p].buf)
    BY <2>2 DEF IInv, LockInv
  <2> QED
    BY <2>1, <2>2, <2>3, <2>4 DEF Where, Using
<1> QED
  BY <1>1, Inductive, PTL

(* A buffer that is marked complete shows the frame it is said to show: the *)
(* flags the two writers keep say the truth about the sensors, whatever     *)
(* the order in which they come.                                            *)
THEOREM Showing == Spec => []CompleteShowsFrame
<1>1. IInv => CompleteShowsFrame
  BY DEF IInv, BufferInv, Truthful, CompleteShowsFrame
<1> QED
  BY <1>1, Inductive, PTL

-------------------------------------------------------------------------------
(* The order of the buffers                                                 *)

Distinct(o) == \A i, j \in 1 .. Len(o) : o[i] = o[j] => i = j
Precedes(o, a, c) == \E i, j \in 1 .. Len(o) : i < j /\ o[i] = a /\ o[j] = c

LEMMA PrecedesFacts ==
  ASSUME NEW o \in Seq(Buffers), ToSet(o) = Buffers, Distinct(o),
         NEW a \in Buffers, NEW c \in Buffers
  PROVE  /\ a # c => Precedes(o, a, c) \/ Precedes(o, c, a)
         /\ ~(Precedes(o, a, c) /\ Precedes(o, c, a))
<1>1. Len(o) \in Nat /\ DOMAIN o = 1 .. Len(o)
  BY LenProperties
<1>2. PICK i, j \in 1 .. Len(o) : o[i] = a /\ o[j] = c
  BY <1>1 DEF ToSet
<1>3. ASSUME a # c PROVE Precedes(o, a, c) \/ Precedes(o, c, a)
  <2>1. i < j \/ j < i
    BY <1>1, <1>2, <1>3
  <2> QED
    BY <1>2, <2>1 DEF Precedes
<1>4. ASSUME Precedes(o, a, c), Precedes(o, c, a) PROVE FALSE
  <2>1. PICK k, l \in 1 .. Len(o) : k < l /\ o[k] = a /\ o[l] = c
    BY <1>4 DEF Precedes
  <2>2. PICK m, n \in 1 .. Len(o) : m < n /\ o[m] = c /\ o[n] = a
    BY <1>4 DEF Precedes
  <2>3. k = n /\ l = m
    BY <2>1, <2>2 DEF Distinct
  <2> QED
    BY <1>1, <2>1, <2>2, <2>3
<1> QED
  BY <1>3, <1>4

LEMMA NewestFacts ==
  ASSUME NEW o \in Seq(Buffers), ToSet(o) = Buffers, o # << >>, NEW a \in Buffers, a # Last(o)
  PROVE  Precedes(o, a, Last(o))
<1>1. Len(o) \in Nat /\ DOMAIN o = 1 .. Len(o) /\ Last(o) = o[Len(o)]
  BY LenProperties DEF Last
<1>2. PICK i \in 1 .. Len(o) : o[i] = a
  BY <1>1 DEF ToSet
<1>3. i < Len(o) /\ Len(o) \in 1 .. Len(o)
  BY <1>1, <1>2
<1> QED
  BY <1>1, <1>2, <1>3 DEF Precedes

\* The last of the buffers that are complete.
LEMMA LastComplete ==
  ASSUME TypeOK
  PROVE  \A c \in Buffers : states[c].complete /\ c # Readable => Precedes(order, c, Readable)
<1> SUFFICES ASSUME NEW c \in Buffers, states[c].complete, c # Readable
             PROVE  Precedes(order, c, Readable)
  OBVIOUS
<1> DEFINE I == {i \in 1 .. Len(order) : states[order[i]].complete}
           n == IF I # {} THEN Max(I) ELSE 0
<1>1. /\ Len(order) \in Nat \ {0} /\ DOMAIN order = 1 .. Len(order)
      /\ \A i \in 1 .. Len(order) : order[i] \in Buffers
  BY OrderFacts
<1>2. Readable = IF n = 0 THEN Newest ELSE order[n]
  BY DEF Readable, SelectLastInSeq
<1>3. PICK k \in 1 .. Len(order) : order[k] = c
  BY <1>1 DEF TypeOK, ToSet
<1>4. k \in I
  BY <1>3
<1> DEFINE m == Max(I)
<1>5. m \in I /\ \A i \in I : i <= m
  <2>1. I \in SUBSET (1 .. Len(order)) /\ I # {}
    BY <1>4
  <2>2. \E x \in I : \A y \in I : x >= y
    BY <1>1, <2>1, LargestNat
  <2>3. PICK x \in I : \A y \in I : x >= y
    BY <2>2
  <2>4. \A y \in I : x >= y /\ x \in Int /\ y \in Int
    BY <2>1, <2>3
  <2>5. Max(I) = CHOOSE z \in I : \A y \in I : z >= y
    BY DEF Max
  <2>6. Max(I) \in I /\ \A y \in I : Max(I) >= y
    BY <2>3, <2>5
  <2> HIDE DEF I
  <2> QED
    BY <1>1, <2>1, <2>6
<1>6. n = m /\ m \in 1 .. Len(order) /\ m # 0 /\ k <= m
  BY <1>1, <1>4, <1>5
<1> HIDE DEF n, m, I
<1>7. Readable = order[m]
  BY <1>2, <1>6
<1>8. k < m
  BY <1>1, <1>3, <1>6, <1>7
<1> QED
  BY <1>3, <1>6, <1>7, <1>8 DEF Precedes

\* A buffer that is moved to the back.
LEMMA MovedToBack ==
  ASSUME TypeOK, Distinct(order), NEW b \in Buffers, order' = Append(RemoveFirst(order, b), b)
  PROVE  /\ Distinct(order') /\ Newest' = b
         /\ \A a, c \in Buffers : Precedes(order', a, c) => a # b /\ (c = b \/ Precedes(order, a, c))
<1>1. /\ Len(order) \in Nat \ {0}
      /\ \A i \in 1 .. Len(order) : order[i] \in Buffers
  BY OrderFacts
<1>2. PICK k \in 1 .. Len(order) :
        /\ order[k] = b /\ Len(order') = Len(order)
        /\ order'[Len(order)] = b
        /\ \A i \in 1 .. Len(order) - 1 : order'[i] = IF i < k THEN order[i] ELSE order[i + 1]
  BY MoveToBack DEF Shifted
<1>3. PICK n : n = Len(order)
  OBVIOUS
<1>4. PICK at : at = [i \in 1 .. n |-> IF i = n THEN k ELSE IF i < k THEN i ELSE i + 1]
  OBVIOUS
<1>5. /\ \A i \in 1 .. n : at[i] \in 1 .. n /\ order'[i] = order[at[i]]
      /\ \A i \in 1 .. n - 1 : at[i] # k
      /\ \A i, j \in 1 .. n - 1 : i < j => at[i] < at[j]
      /\ at[n] = k
  <2>1. \A i \in 1 .. n : at[i] = IF i = n THEN k ELSE IF i < k THEN i ELSE i + 1
    BY <1>4
  <2>2. n \in Nat \ {0} /\ k \in 1 .. n
    BY <1>1, <1>2, <1>3
  <2>3. \A i \in 1 .. n : at[i] \in 1 .. n /\ (i # n => i \in 1 .. n - 1)
    BY <2>1, <2>2
  <2>4. \A i \in 1 .. n : order'[i] = order[at[i]]
    <3> SUFFICES ASSUME NEW i \in 1 .. n PROVE order'[i] = order[at[i]]
      OBVIOUS
    <3>1. CASE i = n
      BY <1>2, <1>3, <2>1, <3>1
    <3>2. CASE i # n
      <4>1. i \in 1 .. n - 1
        BY <2>3, <3>2
      <4>2. order'[i] = IF i < k THEN order[i] ELSE order[i + 1]
        BY <1>2, <1>3, <4>1
      <4>3. at[i] = IF i < k THEN i ELSE i + 1
        BY <2>1, <3>2
      <4> QED
        BY <4>2, <4>3
    <3> QED
      BY <3>1, <3>2
  <2>5. \A i \in 1 .. n - 1 : i \in 1 .. n /\ i # n /\ at[i] = (IF i < k THEN i ELSE i + 1)
    BY <2>1, <2>2
  <2>6. \A i \in 1 .. n - 1 : at[i] # k
    BY <2>2, <2>5
  <2>7. \A i, j \in 1 .. n - 1 : i < j => at[i] < at[j]
    BY <2>2, <2>5
  <2>8. at[n] = k
    BY <2>1, <2>2
  <2> QED
    BY <2>3, <2>4, <2>6, <2>7, <2>8
<1>6. n \in Nat \ {0} /\ Len(order') = n /\ order'[n] = b
  BY <1>1, <1>2, <1>3
<1>7. \A i, j \in 1 .. n : order'[i] = order'[j] => at[i] = at[j]
  <2> SUFFICES ASSUME NEW i \in 1 .. n, NEW j \in 1 .. n, order'[i] = order'[j] PROVE at[i] = at[j]
    OBVIOUS
  <2>1. order[at[i]] = order[at[j]] /\ at[i] \in 1 .. Len(order) /\ at[j] \in 1 .. Len(order)
    BY <1>3, <1>5
  <2> QED
    BY <2>1, Zenon DEF Distinct
<1>8. \A i, j \in 1 .. n : at[i] = at[j] => i = j
  <2> SUFFICES ASSUME NEW i \in 1 .. n, NEW j \in 1 .. n, at[i] = at[j], i < j PROVE FALSE
    BY <1>6
  <2>1. i \in 1 .. n - 1
    BY <1>6
  <2>2. CASE j = n
    BY <1>5, <2>1, <2>2
  <2>3. CASE j # n
    <3>1. j \in 1 .. n - 1
      BY <1>6, <2>3
    <3>2. at[i] < at[j] /\ at[i] \in Nat
      BY <1>5, <1>6, <2>1, <3>1
    <3> QED
      BY <3>2
  <2> QED
    BY <2>2, <2>3
<1>9. Distinct(order')
  <2>1. \A i, j \in 1 .. n : order'[i] = order'[j] => i = j
    BY <1>7, <1>8, Zenon
  <2> QED
    BY <1>6, <2>1 DEF Distinct
<1>10. Newest' = b
  BY <1>6 DEF Newest, Last
<1>11. ASSUME NEW a \in Buffers, NEW c \in Buffers, Precedes(order', a, c)
       PROVE  a # b /\ (c = b \/ Precedes(order, a, c))
  <2>1. PICK i, j \in 1 .. n : i < j /\ order'[i] = a /\ order'[j] = c
    BY <1>6, <1>11 DEF Precedes
  <2>2. i \in 1 .. n - 1 /\ n \in 1 .. n /\ i # n
    BY <1>6, <2>1
  <2>3. a # b
    <3>1. order'[i] = order'[n] => i = n
      BY <1>7, <1>8, <2>2, Zenon
    <3> QED
      BY <1>6, <2>1, <2>2, <3>1
  <2>4. ASSUME c # b PROVE Precedes(order, a, c)
    <3>1. j \in 1 .. n - 1
      BY <1>6, <2>1, <2>4
    <3>2. at[i] < at[j] /\ at[i] \in 1 .. n /\ at[j] \in 1 .. n /\ order[at[i]] = a /\ order[at[j]] = c
      BY <1>5, <2>1, <2>2, <3>1
    <3> QED
      BY <1>3, <3>2 DEF Precedes
  <2> QED
    BY <2>3, <2>4
<1> QED
  BY <1>9, <1>10, <1>11

-------------------------------------------------------------------------------
(* What is known of the frames and the PID settings in the buffers          *)

\* A buffer the pool began with, not written yet.
Blank(s) == s.complete /\ s.shows = None

\* Frames grow towards the back.
SortedInv ==
  /\ ~Blank(states[Newest])
  /\ \A b \in Buffers : Blank(states[b]) => states[b].frame = 0
  /\ \A a, c \in Buffers : Precedes(order, a, c) =>
       Blank(states[a]) \/ (~Blank(states[c]) /\ states[a].frame < states[c].frame)

\* Main has got the message of frame f, and will not announce it any more.
Active == {"reset", "source", "select", "lock", "check", "got", "fill", "post"}
MainThrough(f) ==
  /\ f \in 0 .. proc["Main"].got - 1
  /\ ~(proc["Main"].pc \in Active /\ proc["Main"].frame = f)
Untold(f) == f \notin announced /\ MainThrough(f)

\* Motion is going to announce its frame.
Telling(q) == \/ q.partial /\ q.complete /\ ~q.polls /\ q.pc \in {"release", "done", "unsource"}
              \/ q.pc = "post"

\* A writer with what it has taken of its buffer.
Working(q) == Holds(q) /\ q.pc # "check"
Task(q, st) ==
  /\ Has(q) => ~Blank(st[q.buf])
  /\ Working(q) /\ ~q.complete => ~st[q.buf].complete
  /\ q.buf # None /\ q.pc = "done" => st[q.buf].status = q.status
  /\ q.complete => q.buf # None /\ (q.pc \in {"got", "fill", "post", "release"} => q.state = q.buf)
TaskInv == \A p \in Processes : Task(proc[p], states)

\* A frame that has been begun and not completed is one that Main has left to Motion.
Begun(q) == Working(q) /\ SENSORS_APPLIED \in q.status /\ ~q.complete => Untold(q.frame)
BegunInv ==
  /\ \A p \in Processes : Begun(proc[p])
  /\ \A b \in Buffers :
       /\ \A p \in Processes : Working(proc[p]) => proc[p].buf # b
       /\ SENSORS_APPLIED \in states[b].status /\ ~states[b].complete
       => Untold(states[b].frame)

ToldInv == ~again /\ \A f \in announced : MainThrough(f)

\* Frame f has been completed.
Over(f) == /\ f <= states[Newest].frame
           /\ \A b \in Buffers : states[b].frame = f => states[b].complete
           /\ states[Readable].shows >= f

MotionTells(q) ==
  Telling(q) => /\ Untold(q.frame)
                /\ q.pc \in {"release", "done"} => q.buf # None /\ SENSORS_APPLIED \in q.status
                /\ q.pc \in {"unsource", "post"} => Over(q.frame)

MainTells(q) ==
  /\ q.pc = "reset" => states[Readable].shows >= q.frame
  /\ q.pc = "post" => /\ q.src = None => q.state = q.default
                      /\ q.src # None => q.complete
                      /\ states[q.state].shows >= q.frame

TellInv == MotionTells(proc["Motion"]) /\ MainTells(proc["Main"])

\* The last PID settings are in what is read, and in what will be.
HasPIDs(q, st, n) == /\ q.src # None => st[q.src].pids = n
                     /\ q.pc = "done" /\ q.complete => st[q.buf].pids = n
PIDsInv == /\ states[Readable].pids = pidsSent
           /\ \A p \in Processes : HasPIDs(proc[p], states, pidsSent)

RoleInv == /\ proc["Main"].pc \in Active => proc["Main"].frame < proc["Main"].got
           /\ proc["Motion"].pc # "reset"
           /\ proc["Motion"].pc = "post" => proc["Motion"].src = None

HistoryInv ==
  /\ Distinct(order) /\ RoleInv
  /\ ~scarce => SortedInv /\ TaskInv /\ BegunInv /\ ToldInv /\ TellInv
  /\ ~scarce /\ ~crossed => PIDsInv

\* What the order of the frames says of the newest and of the one to read.
Ranked ==
  /\ \A a \in Buffers : a = Newest \/ Blank(states[a]) \/ states[a].frame < states[Newest].frame
  /\ \A a, c \in Buffers :
       a # c => Blank(states[a]) \/ Blank(states[c]) \/ states[a].frame # states[c].frame
  /\ \A c \in Buffers : states[c].complete => states[c].shows <= states[Readable].shows

LEMMA RankedFacts == IInv /\ Distinct(order) /\ ~scarce /\ SortedInv => Ranked
<1> SUFFICES ASSUME IInv, Distinct(order), ~scarce, SortedInv PROVE Ranked
  OBVIOUS
<1>1. TypeOK /\ BufferInv /\ order \in Seq(Buffers) /\ ToSet(order) = Buffers
  BY DEF IInv, TypeOK
<1>2. Newest \in Buffers /\ Readable \in Buffers /\ order # << >> /\ Newest = Last(order)
  <2>1. Len(order) # 0
    BY <1>1, OrderFacts
  <2>2. order # << >>
    BY <2>1, EmptySeq
  <2> QED
    BY <1>1, <2>2, OrderFacts, ReadableFacts DEF Newest
<1>3. \A c \in Buffers : /\ states[c].frame \in Nat /\ states[c].shows \in Nat \cup {-1}
                         /\ Truthful(states[c])
  BY <1>1 DEF TypeOK, BufferType, BufferInv, None
<1>4. \A a, c \in Buffers : Precedes(order, a, c) =>
        Blank(states[a]) \/ (~Blank(states[c]) /\ states[a].frame < states[c].frame)
  BY DEF SortedInv
<1>5. ASSUME NEW a \in Buffers
      PROVE  a = Newest \/ Blank(states[a]) \/ states[a].frame < states[Newest].frame
  <2>1. a # Newest => Precedes(order, a, Newest)
    BY <1>1, <1>2, NewestFacts
  <2> QED
    BY <1>2, <1>4, <2>1
<1>6. ASSUME NEW a \in Buffers, NEW c \in Buffers, a # c
      PROVE  Blank(states[a]) \/ Blank(states[c]) \/ states[a].frame # states[c].frame
  <2>1. Precedes(order, a, c) \/ Precedes(order, c, a)
    BY <1>1, <1>6, PrecedesFacts
  <2> QED
    BY <1>3, <1>4, <2>1
<1>7. ASSUME NEW c \in Buffers, states[c].complete
      PROVE  states[c].shows <= states[Readable].shows
  <2>1. CASE c = Readable
    BY <1>3, <2>1
  <2>2. CASE c # Readable
    <3>1. Precedes(order, c, Readable)
      BY <1>1, <1>7, <2>2, LastComplete
    <3>2. CASE Blank(states[c])
      BY <1>2, <1>3, <3>2 DEF Blank, None
    <3>3. CASE ~Blank(states[c])
      <4>1. ~Blank(states[Readable]) /\ states[c].frame < states[Readable].frame
        BY <1>2, <1>4, <3>1, <3>3
      <4>2. states[Readable].complete
        BY <1>1, ReadableFacts DEF BufferInv
      <4>3. states[c].shows = states[c].frame /\ states[Readable].shows = states[Readable].frame
        BY <1>2, <1>3, <1>7, <3>3, <4>1, <4>2 DEF Truthful, Blank
      <4> QED
        BY <1>2, <1>3, <4>1, <4>3
    <3> QED
      BY <3>2, <3>3
  <2> QED
    BY <2>1, <2>2
<1> QED
  BY <1>5, <1>6, <1>7 DEF Ranked

\* Which buffer is read: the last complete one.
ReadFacts ==
  /\ Readable \in Buffers /\ Newest \in Buffers /\ states[Readable].complete
  /\ \A c \in Buffers : states[c].complete /\ c # Readable => Precedes(order, c, Readable)

LEMMA ReadLast == IInv /\ ~scarce => ReadFacts
  BY OrderFacts, ReadableFacts, LastComplete DEF IInv, BufferInv, ReadFacts

LEMMA PrimedFacts ==
  ASSUME IInv', ~scarce'
  PROVE  ReadFacts' /\ (Distinct(order)' /\ SortedInv' => Ranked')
<1>1. (IInv /\ ~scarce => ReadFacts)' /\ (IInv /\ Distinct(order) /\ ~scarce /\ SortedInv => Ranked)'
  BY ReadLast, RankedFacts, PTL
<1> QED
  BY <1>1

\* The buffer to read stays the same, unless another one was not complete or has moved behind it.
LEMMA SameReadable ==
  ASSUME IInv, IInv', ~scarce, ~scarce', Distinct(order),
         states'[Readable].complete, states[Readable'].complete,
         Precedes(order', Readable, Readable') => Precedes(order, Readable, Readable')
  PROVE  Readable' = Readable
<1>1. ReadFacts /\ ReadFacts'
  BY ReadLast, PrimedFacts
<1>2. PICK x : x = Readable'
  OBVIOUS
<1>3. x \in Buffers /\ Readable \in Buffers
  BY <1>1, <1>2 DEF ReadFacts
<1>4. x # Readable => Precedes(order, x, Readable)
  BY <1>1, <1>2, <1>3 DEF ReadFacts
<1>5. \A c \in Buffers : states'[c].complete /\ c # x => Precedes(order', c, x)
  BY <1>1, <1>2 DEF ReadFacts
<1>6. x # Readable => Precedes(order, Readable, x)
  BY <1>2, <1>3, <1>5
<1>7. order \in Seq(Buffers) /\ ToSet(order) = Buffers
  BY DEF IInv, TypeOK
<1> QED
  BY <1>2, <1>3, <1>4, <1>6, <1>7, PrecedesFacts

-------------------------------------------------------------------------------
(* What a step has to keep                                                  *)

\* A step of p to the record nq.
Turns(p, nq) ==
  /\ proc' = [proc EXCEPT ![p] = nq] /\ nq \in ProcType
  /\ scarce => scarce'
  /\ crossed => crossed'
  /\ p = "Main" => \A f : MainThrough(f) => MainThrough(f)'
  /\ p = "Main" /\ nq.pc \in Active => nq.frame < nq.got
  /\ p = "Motion" => nq.pc # "reset" /\ (nq.pc = "post" => nq.src = None)

\* What the pool knows of the buffers is as it was.
SameData ==
  /\ states' \in [Buffers -> BufferType] /\ order' = order
  /\ \A b \in Buffers :
       /\ states'[b].frame = states[b].frame /\ states'[b].status = states[b].status
       /\ states'[b].complete = states[b].complete /\ states'[b].shows = states[b].shows

LEMMA TurnFacts ==
  ASSUME IInv, HistoryInv, NEW p \in Processes, NEW nq, Turns(p, nq)
  PROVE  /\ proc'[p] = nq /\ \A r \in Processes \ {p} : proc'[r] = proc[r]
         /\ \A r \in Processes : proc[r] \in ProcType /\ proc'[r] \in ProcType /\ Where(proc[r])
         /\ \A f : MainThrough(f) => MainThrough(f)'
         /\ RoleInv'
<1>1. /\ proc \in [Processes -> ProcType] /\ proc' = [proc EXCEPT ![p] = nq] /\ nq \in ProcType
      /\ \A r \in Processes : Where(proc[r])
  BY DEF IInv, TypeOK, Turns, WhereInv
<1>2. /\ proc'[p] = nq /\ \A r \in Processes \ {p} : proc'[r] = proc[r]
      /\ \A r \in Processes : proc[r] \in ProcType /\ proc'[r] \in ProcType
  BY <1>1
<1>3. CASE p = "Main"
  <2>1. proc'["Main"] = nq /\ proc'["Motion"] = proc["Motion"]
    BY <1>2, <1>3 DEF Processes
  <2>2. RoleInv'
    BY <1>3, <2>1 DEF RoleInv, Turns, HistoryInv
  <2> QED
    BY <1>1, <1>2, <1>3, <2>2, Zenon DEF Turns
<1>4. CASE p = "Motion"
  <2>1. proc'["Motion"] = nq /\ proc'["Main"] = proc["Main"]
    BY <1>2, <1>4 DEF Processes
  <2>2. RoleInv'
    BY <1>4, <2>1 DEF RoleInv, Turns, HistoryInv
  <2>3. \A f : MainThrough(f) => MainThrough(f)'
    BY <2>1 DEF MainThrough
  <2> QED
    BY <1>1, <1>2, <2>2, <2>3
<1> QED
  BY <1>3, <1>4 DEF Processes

\* What is untold stays so while nothing is announced.
LEMMA UntoldStays ==
  ASSUME IInv, HistoryInv, NEW p \in Processes, NEW nq, Turns(p, nq), announced' = announced
  PROVE  /\ \A f : Untold(f) => Untold(f)'
         /\ ~scarce /\ again' = again => ToldInv'
<1>1. \A f : MainThrough(f) => MainThrough(f)'
  BY TurnFacts
<1> QED
  BY <1>1 DEF Untold, ToldInv, HistoryInv

LEMMA SameDataFacts ==
  ASSUME IInv, IInv', HistoryInv, ~scarce, ~scarce', SameData
  PROVE  /\ SortedInv' /\ Newest' = Newest /\ Readable' = Readable /\ Distinct(order')
         /\ \A q \in ProcType : Where(q) => (Task(q, states) <=> Task(q, states'))
         /\ \A f : Over(f) => Over(f)'
<1>1. Newest' = Newest /\ Distinct(order')
  BY DEF SameData, Newest, HistoryInv
<1>2. ReadFacts /\ ReadFacts'
  BY ReadLast, PrimedFacts
<1>3. Readable' = Readable
  <2>1. states'[Readable].complete /\ states[Readable'].complete
    BY <1>2 DEF SameData, ReadFacts
  <2>2. Precedes(order', Readable, Readable') => Precedes(order, Readable, Readable')
    BY DEF SameData
  <2> QED
    BY <2>1, <2>2, SameReadable DEF HistoryInv
<1>4. \A b \in Buffers : Blank(states'[b]) <=> Blank(states[b])
  BY DEF SameData, Blank
<1>5. SortedInv'
  <2>1. SortedInv /\ Newest \in Buffers
    BY <1>2 DEF HistoryInv, ReadFacts
  <2>2. ~Blank(states'[Newest])
    BY <1>4, <2>1 DEF SortedInv
  <2>3. \A b \in Buffers : Blank(states'[b]) => states'[b].frame = 0
    BY <1>4, <2>1 DEF SortedInv, SameData
  <2>4. \A a, c \in Buffers : Precedes(order', a, c) =>
          Blank(states'[a]) \/ (~Blank(states'[c]) /\ states'[a].frame < states'[c].frame)
    BY <1>4, <2>1 DEF SortedInv, SameData
  <2> QED
    BY <1>1, <2>2, <2>3, <2>4 DEF SortedInv
<1>6. \A q \in ProcType : Where(q) => (Task(q, states) <=> Task(q, states'))
  <2> SUFFICES ASSUME NEW q \in ProcType, Where(q) PROVE Task(q, states) <=> Task(q, states')
    OBVIOUS
  <2>1. q.buf # None => q.buf \in Buffers
    BY DEF ProcType
  <2> QED
    BY <1>4, <2>1 DEF Task, Has, Working, Holds, SameData
<1>7. \A f : Over(f) => Over(f)'
  BY <1>1, <1>2, <1>3 DEF Over, SameData, ReadFacts
<1> QED
  BY <1>1, <1>3, <1>5, <1>6, <1>7

\* A step that changes nothing of that, and announces nothing.
LEMMA QuietHistory ==
  ASSUME IInv, IInv', HistoryInv, NEW p \in Processes, NEW nq, Turns(p, nq), SameData,
         announced' = announced, again' = again, Where(nq),
         Working(proc[p]) => Working(nq) /\ nq.buf = proc[p].buf,
         ~scarce => /\ Task(nq, states) /\ Begun(nq)
                    /\ p = "Motion" => MotionTells(nq)
                    /\ p = "Main" => MainTells(nq),
         ~scarce' /\ ~crossed' => PIDsInv'
  PROVE  HistoryInv'
<1>1. /\ proc'[p] = nq /\ \A r \in Processes \ {p} : proc'[r] = proc[r]
      /\ \A r \in Processes : proc[r] \in ProcType /\ proc'[r] \in ProcType /\ Where(proc[r])
      /\ RoleInv'
  BY TurnFacts
<1>2. Distinct(order')
  BY DEF SameData, HistoryInv
<1>3. ASSUME ~scarce' PROVE SortedInv' /\ TaskInv' /\ BegunInv' /\ ToldInv' /\ TellInv'
  <2>1. ~scarce /\ TaskInv /\ BegunInv /\ TellInv
    BY <1>3 DEF Turns, HistoryInv
  <2>2. /\ SortedInv' /\ Newest' = Newest /\ Readable' = Readable
        /\ \A q \in ProcType : Where(q) => (Task(q, states) <=> Task(q, states'))
        /\ \A f : Over(f) => Over(f)'
    BY <1>3, <2>1, SameDataFacts
  <2>3. (\A f : Untold(f) => Untold(f)') /\ ToldInv'
    BY <2>1, UntoldStays
  <2>4. TaskInv'
    <3>1. \A r \in Processes : Task(proc'[r], states')
      BY <1>1, <2>1, <2>2 DEF TaskInv, Turns
    <3> QED
      BY <3>1 DEF TaskInv, Task, Has, Working, Holds
  <2>5. BegunInv'
    <3>1. ASSUME NEW r \in Processes, Working(proc'[r]), SENSORS_APPLIED \in proc'[r].status,
                 ~proc'[r].complete
          PROVE  Untold(proc[r].frame)'
      <4>1. Begun(proc'[r])
        BY <1>1, <2>1 DEF BegunInv
      <4>2. Untold(proc'[r].frame)
        BY <3>1, <4>1 DEF Begun
      <4>3. PICK f : f = proc'[r].frame
        OBVIOUS
      <4>4. Untold(f)'
        BY <2>3, <4>2, <4>3
      <4> QED
        BY <4>3, <4>4 DEF Untold, MainThrough
    <3>2. ASSUME NEW b \in Buffers, \A r \in Processes : Working(proc'[r]) => proc'[r].buf # b,
                 SENSORS_APPLIED \in states'[b].status, ~states'[b].complete
          PROVE  Untold(states[b].frame)'
      <4>1. \A r \in Processes : Working(proc[r]) => proc[r].buf # b
        BY <1>1, <3>2
      <4>2. Untold(states[b].frame)
        BY <2>1, <3>2, <4>1 DEF BegunInv, SameData
      <4>3. PICK f : f = states[b].frame
        OBVIOUS
      <4>4. Untold(f)'
        BY <2>3, <4>2, <4>3
      <4>5. f = states'[b].frame
        BY <4>3 DEF SameData
      <4> QED
        BY <4>4, <4>5 DEF Untold, MainThrough
    <3> QED
      BY <3>1, <3>2, Zenon DEF BegunInv, Begun, Working, Holds
  <2>6. TellInv'
    <3>1. MotionTells(proc'["Motion"]) /\ MainTells(proc'["Main"])
      <4>1. MotionTells(proc["Motion"]) /\ MainTells(proc["Main"])
        BY <2>1 DEF TellInv
      <4>2. CASE p = "Main"
        BY <1>1, <2>1, <4>1, <4>2 DEF Processes
      <4>3. CASE p = "Motion"
        BY <1>1, <2>1, <4>1, <4>3 DEF Processes
      <4> QED
        BY <4>2, <4>3 DEF Processes
    <3>2. PICK m, a : m = proc'["Motion"] /\ a = proc'["Main"]
      OBVIOUS
    <3>3. MotionTells(m) /\ MainTells(a) /\ m \in ProcType /\ a \in ProcType
      BY <1>1, <3>1, <3>2 DEF Processes
    <3>4. MotionTells(m)'
      BY <2>3, <2>2, <3>3 DEF MotionTells, Telling
    <3>5. MainTells(a)'
      <4>1. /\ states'[Readable].shows = states[Readable].shows
            /\ a.pc = "post" => states'[a.state].shows = states[a.state].shows
        <5>1. Readable \in Buffers
          BY Basics
        <5>2. Where(a)
          <6>1. WhereInv' /\ "Main" \in Processes
            BY DEF IInv, Processes
          <6>2. Where(proc'["Main"])
            BY <6>1 DEF WhereInv, Where, Holds
          <6> QED
            BY <3>2, <6>2
        <5>3. a.pc = "post" => a.state \in Buffers
          BY <3>3, <5>2 DEF Where, ProcType
        <5> QED
          BY <5>1, <5>3 DEF SameData
      <4> QED
        BY <2>2, <3>3, <4>1 DEF MainTells
    <3>6. MotionTells(proc["Motion"])' /\ MainTells(proc["Main"])'
      BY <3>2, <3>4, <3>5 DEF MotionTells, MainTells, Telling
    <3> QED
      BY <3>6 DEF TellInv
  <2> QED
    BY <2>2, <2>3, <2>4, <2>5, <2>6
<1> QED
  BY <1>1, <1>2, <1>3 DEF HistoryInv

-------------------------------------------------------------------------------
(* The steps that leave what the pool knows of the buffers                  *)

\* The rest of Turns when the request stays the same.
LEMMA SameRequest ==
  ASSUME IInv, HistoryInv, NEW p \in Processes, NEW nq \in ProcType,
         proc' = [proc EXCEPT ![p] = nq], scarce => scarce', crossed => crossed',
         nq.got = proc[p].got, nq.frame = proc[p].frame, nq.pc \in Active => proc[p].pc \in Active,
         nq.pc # "reset", nq.pc = "post" => p = "Main" \/ nq.src = None
  PROVE  Turns(p, nq)
<1>1. proc \in [Processes -> ProcType]
  BY DEF IInv, TypeOK
<1>2. p = "Main" => \A f : MainThrough(f) => MainThrough(f)'
  BY <1>1 DEF MainThrough
<1>3. p = "Main" /\ nq.pc \in Active => nq.frame < nq.got
  BY DEF HistoryInv, RoleInv
<1> QED
  BY <1>2, <1>3 DEF Turns

LEMMA IInvParts == IInv => TypeOK /\ LockInv /\ WhereInv /\ (~scarce => BufferInv /\ WriterInv)
  BY DEF IInv

\* The record after a step is one the invariant speaks of.
LEMMA Afterwards ==
  ASSUME IInv, IInv', NEW p \in Processes, NEW nq \in ProcType, proc' = [proc EXCEPT ![p] = nq]
  PROVE  /\ Where(nq)
         /\ ~scarce' => /\ Writer(nq, states', LastFrame') /\ ReadsComplete(nq, states')
                        /\ \A b \in Buffers : Truthful(states'[b])
<1>1. proc'[p] = nq
  BY DEF IInv, TypeOK
<1>2. (IInv => TypeOK /\ LockInv /\ WhereInv /\ (~scarce => BufferInv /\ WriterInv))'
  BY IInvParts, PTL
<1>3. Where(nq)
  BY <1>1, <1>2 DEF WhereInv, Where, Holds
<1>4. ASSUME ~scarce'
      PROVE  /\ Writer(nq, states', LastFrame') /\ ReadsComplete(nq, states')
             /\ \A b \in Buffers : Truthful(states'[b])
  <2>1. Writer(nq, states', LastFrame')
    BY <1>1, <1>2, <1>4 DEF WriterInv, Writer, Has, Holds
  <2>2. ReadsComplete(nq, states')
    BY <1>1, <1>2, <1>4 DEF BufferInv, ReadsComplete
  <2>3. \A b \in Buffers : Truthful(states'[b])
    BY <1>2, <1>4 DEF BufferInv, Truthful
  <2> QED
    BY <2>1, <2>2, <2>3
<1> QED
  BY <1>3, <1>4

LEMMA NothingInHand ==
  ASSUME NEW q, q.buf = None, ~q.complete, q.pc \notin {"reset", "post"}
  PROVE  Task(q, states) /\ Begun(q) /\ MotionTells(q) /\ MainTells(q) /\ ~Working(q)
  BY DEF Task, Begun, MotionTells, MainTells, Has, Working, Holds, Telling

LEMMA SameBuffersData == SameBuffers => SameData
  BY DEF SameBuffers, SameData

\* The PID settings stay where they are.
LEMMA QuietPIDs ==
  ASSUME IInv, IInv', HistoryInv, NEW p \in Processes, NEW nq, Turns(p, nq), SameData,
         pidsSent' = pidsSent, \A b \in Buffers : states'[b].pids = states[b].pids,
         ~scarce', ~crossed', Where(nq), PIDsInv => HasPIDs(nq, states, pidsSent),
         nq.complete /\ nq.pc = "done" => nq.buf # None
  PROVE  PIDsInv'
<1>1. /\ proc'[p] = nq /\ \A r \in Processes \ {p} : proc'[r] = proc[r]
      /\ \A r \in Processes : proc[r] \in ProcType /\ proc'[r] \in ProcType /\ Where(proc[r])
  BY TurnFacts
<1>2. ~scarce /\ ~crossed /\ PIDsInv /\ TaskInv
  BY DEF Turns, HistoryInv
<1>3. Readable' = Readable /\ Readable \in Buffers
  BY <1>2, SameDataFacts, Basics
<1>4. ASSUME NEW r \in Processes PROVE HasPIDs(proc'[r], states', pidsSent')
  <2>1. PICK x : x = proc'[r]
    OBVIOUS
  <2>2. HasPIDs(x, states, pidsSent) /\ x \in ProcType
    BY <1>1, <1>2, <2>1 DEF PIDsInv
  <2>3. x.pc = "done" /\ x.complete => x.buf # None
    BY <1>1, <1>2, <2>1 DEF TaskInv, Task
  <2>4. HasPIDs(x, states', pidsSent')
    BY <2>2, <2>3 DEF HasPIDs, ProcType
  <2> QED
    BY <2>1, <2>4
<1>5. states'[Readable'].pids = pidsSent'
  BY <1>2, <1>3 DEF PIDsInv
<1> QED
  BY <1>4, <1>5 DEF PIDsInv, HasPIDs

LEMMA EnterHistory ==
  ASSUME IInv, IInv', HistoryInv, NEW p \in Processes, Enter(p)
  PROVE  HistoryInv'
<1> DEFINE q == proc[p]
           nq == [q EXCEPT !.pc = "entered", !.default = Readable, !.state = Readable]
<1>1. /\ q.pc = "idle" /\ useToRead(Readable) /\ proc' = [proc EXCEPT ![p] = nq]
      /\ UNCHANGED <<sent, feedback, pidsSent, order, announced, again, scarce, crossed>>
  BY DEF Enter, At, history
<1>2. q \in ProcType /\ Readable \in Buffers /\ q.src = None /\ q.buf = None /\ ~q.complete
  BY <1>1, Basics DEF Where
<1>3. /\ nq \in ProcType /\ nq.pc = "entered" /\ nq.src = None /\ nq.buf = None /\ ~nq.complete
      /\ nq.got = q.got /\ nq.frame = q.frame
  BY <1>2 DEF ProcType, Labels
<1> HIDE DEF nq
<1>4. SameData /\ \A b \in Buffers : states'[b].pids = states[b].pids
  BY <1>1, <1>2, UseToRead, SameBuffersData
<1>5. Turns(p, nq)
  BY <1>1, <1>3, SameRequest DEF Active
<1>6. Where(nq)
  BY <1>1, <1>3, Afterwards
<1>7. Task(nq, states) /\ Begun(nq) /\ MotionTells(nq) /\ MainTells(nq) /\ ~Working(q)
  BY <1>1, <1>2, <1>3, NothingInHand
<1>8. ~scarce' /\ ~crossed' => PIDsInv'
  BY <1>1, <1>3, <1>4, <1>5, <1>6, QuietPIDs DEF HasPIDs
<1> QED
  BY <1>1, <1>4, <1>5, <1>6, <1>7, <1>8, QuietHistory

LEMMA LeaveHistory ==
  ASSUME IInv, IInv', HistoryInv, NEW p \in Processes, Leave(p)
  PROVE  HistoryInv'
<1> DEFINE q == proc[p]
           nq == [q EXCEPT !.pc = "idle", !.default = None, !.state = None]
<1>1. /\ q.pc \in {"leave", "entered"} /\ doneReadingState(q.default) /\ proc' = [proc EXCEPT ![p] = nq]
      /\ UNCHANGED <<sent, feedback, pidsSent, order, announced, again, scarce, crossed>>
  BY DEF Leave, At, history
<1>2. /\ q \in ProcType /\ q.src = None /\ q.buf = None /\ ~q.complete /\ q.default \in Buffers
      /\ states[q.default].reading > 0
  BY <1>1, Basics, CountPositive DEF Where, ProcType
<1>3. /\ nq \in ProcType /\ nq.pc = "idle" /\ nq.src = None /\ nq.buf = None /\ ~nq.complete
      /\ nq.got = q.got /\ nq.frame = q.frame
  BY <1>2 DEF ProcType, Labels
<1> HIDE DEF nq
<1>4. SameData /\ \A b \in Buffers : states'[b].pids = states[b].pids
  BY <1>1, <1>2, DoneReading, SameBuffersData
<1>5. Turns(p, nq)
  BY <1>1, <1>3, SameRequest DEF Active
<1>6. Where(nq)
  BY <1>1, <1>3, Afterwards
<1>7. Task(nq, states) /\ Begun(nq) /\ MotionTells(nq) /\ MainTells(nq) /\ ~Working(q)
  BY <1>1, <1>2, <1>3, NothingInHand
<1>8. ~scarce' /\ ~crossed' => PIDsInv'
  BY <1>1, <1>3, <1>4, <1>5, <1>6, QuietPIDs DEF HasPIDs
<1> QED
  BY <1>1, <1>4, <1>5, <1>6, <1>7, <1>8, QuietHistory

LEMMA PollHistory ==
  ASSUME IInv, IInv', HistoryInv, NEW p \in Processes, poll(p)
  PROVE  HistoryInv'
<1> DEFINE q == proc[p]
           nq == [q EXCEPT !.pc = "source", !.polls = TRUE, !.frame = LastFrame]
<1>1. /\ p = "Motion" /\ q.pc = "entered" /\ proc' = [proc EXCEPT ![p] = nq]
      /\ UNCHANGED <<sent, feedback, pidsSent, order, states, announced, again, scarce, crossed>>
  BY DEF poll, At, history, frameNumber, LastFrame
<1>2. q \in ProcType /\ LastFrame \in Nat /\ q.src = None /\ q.buf = None /\ ~q.complete
  BY <1>1, Basics DEF Where
<1>3. nq \in ProcType /\ nq.pc = "source" /\ nq.src = None /\ nq.buf = None /\ ~nq.complete
  BY <1>2 DEF ProcType, Labels
<1> HIDE DEF nq
<1>4. SameData /\ \A b \in Buffers : states'[b].pids = states[b].pids
  BY <1>1, NoReading, SameBuffersData
<1>5. Turns(p, nq)
  BY <1>1, <1>3 DEF Turns
<1>6. Where(nq)
  BY <1>1, <1>3, Afterwards
<1>7. Task(nq, states) /\ Begun(nq) /\ MotionTells(nq) /\ MainTells(nq) /\ ~Working(q)
  BY <1>1, <1>2, <1>3, NothingInHand
<1>8. ~scarce' /\ ~crossed' => PIDsInv'
  BY <1>1, <1>3, <1>4, <1>5, <1>6, QuietPIDs DEF HasPIDs
<1> QED
  BY <1>1, <1>4, <1>5, <1>6, <1>7, <1>8, QuietHistory

LEMMA UseSourceHistory ==
  ASSUME IInv, IInv', HistoryInv, NEW p \in Processes, useSource(p)
  PROVE  HistoryInv'
<1> DEFINE q == proc[p]
           nq == [q EXCEPT !.pc = "select", !.src = Readable]
<1>1. /\ q.pc = "source" /\ useToRead(Readable) /\ proc' = [proc EXCEPT ![p] = nq]
      /\ UNCHANGED <<sent, feedback, pidsSent, order, announced, again, scarce, crossed>>
  BY DEF useSource, At, history
<1>2. q \in ProcType /\ Readable \in Buffers /\ q.buf = None /\ ~q.complete
  BY <1>1, Basics DEF Where
<1>3. /\ nq \in ProcType /\ nq.pc = "select" /\ nq.src = Readable /\ nq.buf = None /\ ~nq.complete
      /\ nq.got = q.got /\ nq.frame = q.frame
  BY <1>2 DEF ProcType, Labels
<1> HIDE DEF nq
<1>4. SameData /\ \A b \in Buffers : states'[b].pids = states[b].pids
  BY <1>1, <1>2, UseToRead, SameBuffersData
<1>5. Turns(p, nq)
  BY <1>1, <1>3, SameRequest DEF Active
<1>6. Where(nq)
  BY <1>1, <1>3, Afterwards
<1>7. Task(nq, states) /\ Begun(nq) /\ MotionTells(nq) /\ MainTells(nq) /\ ~Working(q)
  BY <1>1, <1>2, <1>3, NothingInHand
<1>8. PIDsInv => HasPIDs(nq, states, pidsSent)
  BY <1>3 DEF HasPIDs, PIDsInv
<1>9. ~scarce' /\ ~crossed' => PIDsInv'
  BY <1>1, <1>3, <1>4, <1>5, <1>6, <1>8, QuietPIDs
<1> QED
  BY <1>1, <1>4, <1>5, <1>6, <1>7, <1>9, QuietHistory

\* A buffer that changes only in what nobody's history is about.
LEMMA SameFields ==
  ASSUME IInv, NEW b \in Buffers, NEW s \in BufferType, states' = [states EXCEPT ![b] = s],
         order' = order, s.frame = states[b].frame, s.status = states[b].status,
         s.complete = states[b].complete, s.shows = states[b].shows
  PROVE  /\ SameData
         /\ \A c \in Buffers : states'[c].pids = IF c = b THEN s.pids ELSE states[c].pids
<1>1. states \in [Buffers -> BufferType]
  BY DEF IInv, TypeOK
<1>2. states' \in [Buffers -> BufferType] /\ \A c \in Buffers : states'[c] = IF c = b THEN s ELSE states[c]
  BY <1>1
<1> QED
  BY <1>2 DEF SameData

LEMMA IsUnreadHistory ==
  ASSUME IInv, IInv', HistoryInv, NEW p \in Processes, isUnread(p)
  PROVE  HistoryInv'
<1> DEFINE q == proc[p]
           f == q.got
           b == selectWriteState(f)
           skip == f < frameNumber \/ b = None
           dn == ~skip /\ states[b].frame = f /\ states[b].complete
           label == IF dn /\ p = "Main" THEN "reset" ELSE IF dn \/ skip THEN "leave" ELSE "source"
           nq == [q EXCEPT !.got = f + 1, !.frame = f, !.pc = label]
<1>1. /\ q.pc = "entered" /\ f < sent /\ proc' = [proc EXCEPT ![p] = nq]
      /\ UNCHANGED <<sent, feedback, pidsSent, order, states, announced, again, crossed>>
  BY DEF isUnread, At
<1>2. scarce => scarce'
  <2>1. scarce' = (scarce \/ (b = None /\ ~Overtaken(f)))
    BY Zenon DEF isUnread
  <2> QED
    BY <2>1, Zenon
<1>3. /\ label \in {"reset", "leave", "source"}
      /\ label = "reset" => p = "Main" /\ b # None /\ states[b].frame = f /\ states[b].complete
  OBVIOUS
<1>4. q \in ProcType /\ f \in Nat /\ q.src = None /\ q.buf = None /\ ~q.complete
  BY <1>1, Basics DEF Where, ProcType
<1> HIDE DEF label
<1>5. /\ nq \in ProcType /\ nq.pc = label /\ nq.src = None /\ nq.buf = None /\ ~nq.complete
      /\ nq.got = f + 1 /\ nq.frame = f
  <2>1. label \in Labels /\ f + 1 \in Nat
    BY <1>3, <1>4 DEF Labels
  <2> QED
    BY <1>4, <2>1 DEF ProcType
<1> HIDE DEF nq, skip, dn, b
<1>6. SameData /\ \A c \in Buffers : states'[c].pids = states[c].pids
  BY <1>1, NoReading, SameBuffersData
<1>7. Turns(p, nq)
  <2>1. p = "Main" => \A g : MainThrough(g) => MainThrough(g)'
    <3> SUFFICES ASSUME p = "Main", NEW g, MainThrough(g) PROVE MainThrough(g)'
      OBVIOUS
    <3>1. proc'["Main"] = nq
      BY <1>1 DEF IInv, TypeOK
    <3>2. g \in 0 .. f - 1
      BY DEF MainThrough
    <3>3. g \in 0 .. f + 1 - 1 /\ f # g
      BY <1>4, <3>2
    <3>4. g \in 0 .. nq.got - 1 /\ nq.frame # g
      <4>1. nq.frame # g
        BY <1>5, <3>3
      <4>2. nq.got = f + 1
        BY <1>5
      <4> QED
        BY <1>4, <3>3, <4>1, <4>2
    <3> QED
      BY <3>1, <3>4 DEF MainThrough
  <2>2. p = "Motion" => nq.pc # "reset" /\ nq.pc # "post"
    BY <1>3, <1>5
  <2> QED
    BY <1>1, <1>2, <1>4, <1>5, <2>1, <2>2 DEF Turns
<1>8. Where(nq)
  BY <1>1, <1>5, Afterwards
<1>9. ASSUME ~scarce PROVE Task(nq, states) /\ Begun(nq) /\ MotionTells(nq) /\ MainTells(nq)
  <2>1. Task(nq, states) /\ Begun(nq)
    BY <1>5 DEF Task, Begun, Has, Working, Holds
  <2>2. MotionTells(nq)
    BY <1>3, <1>5 DEF MotionTells, Telling
  <2>3. label = "reset" => states[Readable].shows >= f
    <3> SUFFICES ASSUME label = "reset" PROVE states[Readable].shows >= f
      OBVIOUS
    <3>1. b # None /\ states[b].frame = f /\ states[b].complete
      BY <1>3
    <3>2. b = Newest
      <4>1. TypeOK /\ \A c \in Buffers : states[c].frame \in Nat
        BY Basics DEF TypeOK, BufferType
      <4>2. \A S : Oldest(f, S) = None \/ (Oldest(f, S) \in Buffers /\ states[Oldest(f, S)].frame < f)
        BY <4>1, OldestFacts
      <4>3. b = Newest \/ \E S : b = Oldest(f, S)
        BY <3>1 DEF b, selectWriteState, Unused
      <4> QED
        BY <1>4, <3>1, <4>1, <4>2, <4>3
    <3>3. b \in Buffers /\ ~Blank(states[b])
      BY <1>9, <3>2, Basics, OrderFacts DEF HistoryInv, SortedInv
    <3>4. Truthful(states[b])
      BY <1>9, <3>3, Basics DEF BufferInv
    <3>5. states[b].shows = f
      BY <3>1, <3>3, <3>4 DEF Truthful, Blank
    <3>6. states[b].shows <= states[Readable].shows
      BY <1>9, <3>1, <3>3, RankedFacts DEF HistoryInv, Ranked
    <3>7. states[Readable].shows \in Int
      BY Basics DEF TypeOK, BufferType, None
    <3> QED
      BY <1>4, <3>5, <3>6, <3>7
  <2>4. MainTells(nq)
    BY <1>3, <1>5, <2>3 DEF MainTells
  <2> QED
    BY <2>1, <2>2, <2>4
<1>10. ~Working(q)
  BY <1>1 DEF Working, Holds
<1>11. ~scarce' /\ ~crossed' => PIDsInv'
  BY <1>1, <1>3, <1>5, <1>6, <1>7, <1>8, QuietPIDs DEF HasPIDs
<1> QED
  BY <1>1, <1>6, <1>7, <1>8, <1>9, <1>10, <1>11, QuietHistory

LEMMA ResetHistory ==
  ASSUME IInv, IInv', HistoryInv, NEW p \in Processes, reset(p)
  PROVE  HistoryInv'
<1> DEFINE q == proc[p]
           nq == [q EXCEPT !.pc = "post", !.default = Readable, !.state = Readable]
           now(b) == states[b].reading - (IF b = q.default THEN 1 ELSE 0) + (IF b = Readable THEN 1 ELSE 0)
<1>1. /\ q.pc = "reset" /\ proc' = [proc EXCEPT ![p] = nq]
      /\ states' = [b \in Buffers |-> [states[b] EXCEPT !.reading = now(b)]]
      /\ UNCHANGED <<sent, feedback, pidsSent, order, announced, again, scarce, crossed>>
  BY DEF reset, At, history
<1>2. q \in ProcType /\ q.src = None /\ q.buf = None /\ ~q.complete /\ Readable \in Buffers
  BY <1>1, Basics DEF Where
<1>3. p = "Main"
  BY <1>1 DEF HistoryInv, RoleInv, Processes
<1>4. /\ nq \in ProcType /\ nq.pc = "post" /\ nq.src = None /\ nq.buf = None /\ ~nq.complete
      /\ nq.got = q.got /\ nq.frame = q.frame /\ nq.state = Readable /\ nq.default = Readable
  BY <1>2 DEF ProcType, Labels
<1> HIDE DEF nq, now
<1>5. SameData /\ \A b \in Buffers : states'[b].pids = states[b].pids
  <2>1. \A b \in Buffers : states[b] \in BufferType /\ states'[b] = [states[b] EXCEPT !.reading = now(b)]
    BY <1>1, Basics DEF TypeOK
  <2>2. \A b \in Buffers :
          /\ states'[b].frame = states[b].frame /\ states'[b].status = states[b].status
          /\ states'[b].complete = states[b].complete /\ states'[b].shows = states[b].shows
          /\ states'[b].pids = states[b].pids
    BY <2>1 DEF BufferType
  <2>3. states' \in [Buffers -> BufferType]
    BY DEF IInv, TypeOK
  <2> QED
    BY <1>1, <2>2, <2>3 DEF SameData
<1>6. Turns(p, nq)
  BY <1>1, <1>3, <1>4, SameRequest DEF Active
<1>7. Where(nq)
  BY <1>1, <1>4, Afterwards
<1>8. ASSUME ~scarce PROVE Task(nq, states) /\ Begun(nq) /\ MainTells(nq)
  <2>1. Task(nq, states) /\ Begun(nq)
    BY <1>4 DEF Task, Begun, Has, Working, Holds
  <2>2. states[Readable].shows >= q.frame
    BY <1>1, <1>3, <1>8 DEF HistoryInv, TellInv, MainTells
  <2> QED
    BY <1>4, <2>1, <2>2 DEF MainTells
<1>9. ~Working(q)
  BY <1>1 DEF Working, Holds
<1>10. ~scarce' /\ ~crossed' => PIDsInv'
  BY <1>1, <1>4, <1>5, <1>6, <1>7, QuietPIDs DEF HasPIDs
<1> QED
  BY <1>1, <1>3, <1>5, <1>6, <1>7, <1>8, <1>9, <1>10, QuietHistory

LEMMA LockBufferHistory ==
  ASSUME IInv, IInv', HistoryInv, NEW p \in Processes, lockBuffer(p)
  PROVE  HistoryInv'
<1> DEFINE q == proc[p]
           b == q.buf
           nq == [q EXCEPT !.pc = "check"]
           s == [states[b] EXCEPT !.writeLock = p]
<1>1. /\ q.pc = "lock" /\ states' = [states EXCEPT ![b] = s] /\ proc' = [proc EXCEPT ![p] = nq]
      /\ UNCHANGED <<sent, feedback, pidsSent, order, announced, again, scarce, crossed>>
  BY DEF lockBuffer, At, Goto, history
<1>2. q \in ProcType /\ Where(q) /\ TypeOK
  BY Basics
<1>3. b \in Buffers /\ b # None /\ q.src # None /\ ~q.complete
  BY <1>1, <1>2 DEF Where, ProcType
<1>4. /\ nq \in ProcType /\ nq.pc = "check" /\ nq.src = q.src /\ nq.buf = b /\ ~nq.complete
      /\ nq.got = q.got /\ nq.frame = q.frame
  BY <1>2, <1>3 DEF ProcType, Labels
<1>5. states[b] \in BufferType
  BY <1>2, <1>3 DEF TypeOK
<1>6. /\ s \in BufferType /\ s.frame = states[b].frame /\ s.status = states[b].status
      /\ s.complete = states[b].complete /\ s.shows = states[b].shows /\ s.pids = states[b].pids
  BY <1>5 DEF BufferType
<1> HIDE DEF nq, s, b
<1>7. SameData /\ \A c \in Buffers : states'[c].pids = states[c].pids
  <2>1. /\ SameData
        /\ \A c \in Buffers : states'[c].pids = IF c = b THEN s.pids ELSE states[c].pids
    BY <1>1, <1>3, <1>6, SameFields
  <2> QED
    BY <1>6, <2>1
<1>8. Turns(p, nq)
  BY <1>1, <1>4, SameRequest DEF Active
<1>9. Where(nq)
  BY <1>1, <1>4, Afterwards
<1>10. ASSUME ~scarce PROVE Task(nq, states) /\ Begun(nq) /\ MotionTells(nq) /\ MainTells(nq)
  <2>1. Task(q, states)
    BY <1>10 DEF HistoryInv, TaskInv
  <2>2. ~Blank(states[b])
    BY <1>1, <1>3, <2>1 DEF Task, Has, b
  <2> QED
    BY <1>4, <2>2 DEF Task, Begun, MotionTells, MainTells, Working, Telling, Has
<1>11. ~Working(q)
  BY <1>1 DEF Working, Holds
<1>12. PIDsInv => HasPIDs(nq, states, pidsSent)
  <2>1. PIDsInv => HasPIDs(q, states, pidsSent)
    BY DEF PIDsInv
  <2> QED
    BY <1>4, <2>1 DEF HasPIDs
<1>13. ~scarce' /\ ~crossed' => PIDsInv'
  BY <1>1, <1>4, <1>7, <1>8, <1>9, <1>12, QuietPIDs
<1> QED
  BY <1>1, <1>7, <1>8, <1>9, <1>10, <1>11, <1>13, QuietHistory

LEMMA CheckHistory ==
  ASSUME IInv, IInv', HistoryInv, NEW p \in Processes, check(p)
  PROVE  HistoryInv'
<1> DEFINE q == proc[p]
           b == q.buf
<1>1. q.pc = "check" /\ UNCHANGED <<sent, feedback, pidsSent, order, announced, again, scarce, crossed>>
  BY DEF check, At, history
<1>2. q \in ProcType /\ Where(q) /\ TypeOK
  BY Basics
<1>3. b # None /\ ~q.complete /\ q.status = {} /\ q.src # None
  BY <1>1, <1>2 DEF Where
<1>4. /\ b \in Buffers /\ states[b] \in BufferType /\ Holds(q) /\ Has(q) /\ states[b].writeLock = p
      /\ q.frame \in Nat
  BY <1>1, <1>3, WriterBasics DEF Holds, Has
<1>5. ~Working(q)
  BY <1>1 DEF Working
<1>6. PIDsInv => HasPIDs(q, states, pidsSent)
  BY DEF PIDsInv
<1>7. CASE /\ states' = [states EXCEPT ![b] = doneWritingState(states[b], FALSE)]
           /\ proc' = [proc EXCEPT ![p] = [q EXCEPT !.pc = "select", !.buf = None]]
  <2> DEFINE nq == [q EXCEPT !.pc = "select", !.buf = None]
             s == doneWritingState(states[b], FALSE)
  <2>1. /\ nq \in ProcType /\ nq.pc = "select" /\ nq.buf = None /\ ~nq.complete
        /\ nq.src = q.src /\ nq.got = q.got /\ nq.frame = q.frame
    BY <1>2, <1>3 DEF ProcType, Labels
  <2>2. /\ s \in BufferType /\ s.frame = states[b].frame /\ s.status = states[b].status
        /\ s.complete = states[b].complete /\ s.shows = states[b].shows /\ s.pids = states[b].pids
    <3>1. /\ states'[b] \in BufferType /\ states'[b] = s
      <4>1. (IInv => TypeOK)'
        BY IInvParts, PTL
      <4>2. states' \in [Buffers -> BufferType]
        BY <4>1 DEF TypeOK
      <4> QED
        BY <1>2, <1>4, <1>7, <4>2 DEF TypeOK
    <3>2. (states[b].complete \/ FALSE) = states[b].complete
      BY <1>4 DEF BufferType
    <3>3. s = [states[b] EXCEPT !.writing = states[b].writing - 1, !.complete = states[b].complete,
                                !.writeLock = "free"]
      BY <3>2 DEF doneWritingState
    <3> QED
      BY <1>4, <3>1, <3>3 DEF BufferType
  <2>3. states' = [states EXCEPT ![b] = s] /\ proc' = [proc EXCEPT ![p] = nq]
    BY <1>7
  <2> HIDE DEF nq, s, b
  <2>4. SameData /\ \A c \in Buffers : states'[c].pids = states[c].pids
    <3>1. /\ SameData
          /\ \A c \in Buffers : states'[c].pids = IF c = b THEN s.pids ELSE states[c].pids
      BY <1>1, <1>4, <2>2, <2>3, SameFields
    <3> QED
      BY <2>2, <3>1
  <2>5. Turns(p, nq)
    BY <1>1, <2>1, <2>3, SameRequest DEF Active
  <2>6. Where(nq)
    BY <2>1, <2>3, Afterwards
  <2>7. Task(nq, states) /\ Begun(nq) /\ MotionTells(nq) /\ MainTells(nq)
    BY <2>1, NothingInHand
  <2>8. PIDsInv => HasPIDs(nq, states, pidsSent)
    BY <1>6, <2>1 DEF HasPIDs
  <2>9. ~scarce' /\ ~crossed' => PIDsInv'
    BY <1>1, <2>1, <2>4, <2>5, <2>6, <2>8, QuietPIDs
  <2> QED
    BY <1>1, <1>5, <2>4, <2>5, <2>6, <2>7, <2>9, QuietHistory
<1>8. CASE /\ proc' = [proc EXCEPT ![p] = [q EXCEPT !.pc = "got", !.state = b,
                        !.status = states[b].status, !.complete = states[b].complete]]
           /\ UNCHANGED states
  <2> DEFINE nq == [q EXCEPT !.pc = "got", !.state = b,
                             !.status = states[b].status, !.complete = states[b].complete]
  <2>1. /\ nq \in ProcType /\ nq.pc = "got" /\ nq.buf = b /\ nq.state = b
        /\ nq.src = q.src /\ nq.got = q.got /\ nq.frame = q.frame
        /\ nq.complete = states[b].complete /\ nq.status = states[b].status
    BY <1>2, <1>4 DEF ProcType, Labels, BufferType
  <2>2. proc' = [proc EXCEPT ![p] = nq]
    BY <1>8
  <2> HIDE DEF nq
  <2>3. SameData /\ \A c \in Buffers : states'[c].pids = states[c].pids
    BY <1>1, <1>8, NoReading, SameBuffersData
  <2>4. Turns(p, nq)
    BY <1>1, <2>1, <2>2, SameRequest DEF Active
  <2>5. Where(nq)
    BY <2>1, <2>2, Afterwards
  <2>6. ASSUME ~scarce PROVE Task(nq, states) /\ Begun(nq) /\ MotionTells(nq) /\ MainTells(nq)
    <3>1. Task(q, states) /\ BegunInv /\ Writer(q, states, LastFrame)
      BY <2>6, Basics DEF HistoryInv, TaskInv
    <3>2. ~Blank(states[b]) /\ states[b].frame = q.frame
      BY <1>4, <3>1 DEF Task, Writer
    <3>3. Task(nq, states)
      BY <1>3, <2>1, <3>2 DEF Task
    <3>4. Begun(nq)
      <4> SUFFICES ASSUME SENSORS_APPLIED \in states[b].status, ~states[b].complete
                   PROVE  Untold(q.frame)
        BY <2>1 DEF Begun
      <4>1. \A r \in Processes \ {p} : ~(Holds(proc[r]) /\ proc[r].buf = b)
        BY <1>4, NobodyElseHolds
      <4>2. \A r \in Processes : Working(proc[r]) => proc[r].buf # b
        BY <1>5, <4>1 DEF Working
      <4> QED
        BY <1>4, <3>1, <3>2, <4>2 DEF BegunInv
    <3>5. MotionTells(nq) /\ MainTells(nq)
      BY <2>1 DEF MotionTells, MainTells, Telling
    <3> QED
      BY <3>3, <3>4, <3>5
  <2>7. PIDsInv => HasPIDs(nq, states, pidsSent)
    BY <1>6, <2>1 DEF HasPIDs
  <2>8. ~scarce' /\ ~crossed' => PIDsInv'
    BY <1>1, <2>1, <2>3, <2>4, <2>5, <2>7, QuietPIDs
  <2> QED
    BY <1>1, <1>5, <2>2, <2>3, <2>4, <2>5, <2>6, <2>8, QuietHistory
<1> QED
  BY <1>7, <1>8 DEF check

LEMMA BeginReadHistory ==
  ASSUME IInv, IInv', HistoryInv, NEW p \in Processes, beginRead(p)
  PROVE  HistoryInv'
<1> DEFINE q == proc[p]
           fill == ~q.complete /\ (Partial(q) => HasFeedback(p))
           label == IF Stale(q) THEN "release" ELSE IF fill THEN "fill" ELSE Posts(p, q.complete)
           nq == [q EXCEPT !.partial = Partial(q), !.pc = label]
<1>1. /\ q.pc = "got" /\ ~q.polls /\ proc' = [proc EXCEPT ![p] = nq]
      /\ UNCHANGED <<sent, feedback, pidsSent, order, states, announced, again, scarce, crossed>>
  BY DEF beginRead, At, history
<1>2. /\ label \in {"release", "fill", "post"} /\ Partial(q) \in BOOLEAN
      /\ label = "post" => p = "Main" /\ q.complete
  BY DEF Posts, Partial
<1>3. q \in ProcType /\ Where(q) /\ label \in Labels
  BY <1>2, Basics DEF Labels
<1> HIDE DEF label, fill
<1>4. /\ nq \in ProcType /\ nq.pc = label /\ nq.state = q.state /\ nq.src = q.src /\ nq.buf = q.buf
      /\ nq.got = q.got /\ nq.frame = q.frame /\ nq.complete = q.complete /\ nq.status = q.status
      /\ nq.partial = Partial(q) /\ nq.default = q.default
  BY <1>2, <1>3 DEF ProcType
<1> HIDE DEF nq
<1>5. SameData /\ \A c \in Buffers : states'[c].pids = states[c].pids
  BY <1>1, NoReading, SameBuffersData
<1>6. Turns(p, nq)
  <2>1. "got" \in Active /\ "release" \notin Active
    BY DEF Active
  <2> QED
    BY <1>1, <1>2, <1>4, <2>1, SameRequest
<1>7. Where(nq)
  BY <1>1, <1>4, Afterwards
<1>8. Working(q) => Working(nq) /\ nq.buf = q.buf
  BY <1>1, <1>2, <1>4 DEF Working, Holds
<1>9. ASSUME ~scarce
      PROVE  /\ Task(nq, states) /\ Begun(nq)
             /\ p = "Motion" => MotionTells(nq)
             /\ p = "Main" => MainTells(nq)
  <2>1. Task(q, states) /\ Begun(q) /\ Writer(q, states, LastFrame)
    BY <1>9, Basics DEF HistoryInv, TaskInv, BegunInv
  <2>2. Working(nq) => Working(q)
    BY <1>1, <1>4 DEF Working, Holds
  <2>3. Task(nq, states)
    <3>1. Has(nq) => Has(q)
      BY <1>1, <1>4 DEF Has
    <3>2. nq.complete => nq.buf # None /\ nq.state = nq.buf
      BY <1>1, <1>4, <2>1 DEF Task
    <3> QED
      BY <1>2, <1>4, <2>1, <2>2, <3>1, <3>2 DEF Task
  <2>4. Begun(nq)
    BY <1>4, <2>1, <2>2 DEF Begun
  <2>5. p = "Motion" => MotionTells(nq)
    <3>1. ~(nq.partial /\ nq.complete)
      BY <1>4 DEF Partial
    <3> QED
      BY <1>2, <1>4, <3>1 DEF MotionTells, Telling
  <2>6. p = "Main" => MainTells(nq)
    <3> SUFFICES ASSUME label = "post"
                 PROVE  /\ q.src # None /\ q.complete
                        /\ states[q.state].shows >= q.frame
      BY <1>2, <1>4 DEF MainTells
    <3>1. q.complete /\ q.src # None /\ q.buf # None /\ q.state = q.buf
      BY <1>1, <1>2, <1>3, <2>1 DEF Task, Where
    <3>2. Holds(q) /\ Has(q)
      BY <1>1, <3>1 DEF Holds, Has
    <3>3. ~Blank(states[q.buf]) /\ states[q.buf].frame = q.frame
      BY <2>1, <3>2 DEF Task, Writer
    <3>4. SENSORS_APPLIED \in q.status => states[q.buf].shows = q.frame
      BY <1>1, <2>1, <3>2 DEF Writer
    <3>5. SENSORS_APPLIED \in q.status \/ states[q.buf].complete
      BY <1>1, <2>1, <3>1, <3>2 DEF Writer
    <3>6. states[q.buf].complete => states[q.buf].shows = q.frame
      BY <1>9, <3>1, <3>3, Basics, WriterBasics DEF Truthful, Blank
    <3>7. q.frame \in Int
      BY <3>1, WriterBasics
    <3> QED
      BY <3>1, <3>4, <3>5, <3>6, <3>7
  <2> QED
    BY <2>3, <2>4, <2>5, <2>6
<1>10. PIDsInv => HasPIDs(nq, states, pidsSent)
  <2>1. PIDsInv => HasPIDs(q, states, pidsSent)
    BY DEF PIDsInv
  <2> QED
    BY <1>2, <1>4, <2>1 DEF HasPIDs
<1>11. ~scarce' /\ ~crossed' => PIDsInv'
  BY <1>1, <1>2, <1>4, <1>5, <1>6, <1>7, <1>10, QuietPIDs
<1> QED
  BY <1>1, <1>5, <1>6, <1>7, <1>8, <1>9, <1>11, QuietHistory

LEMMA UpdatePIDsHistory ==
  ASSUME IInv, IInv', HistoryInv, NEW p \in Processes, updatePIDs(p)
  PROVE  HistoryInv'
<1> DEFINE q == proc[p]
           b == IF q.complete THEN q.state ELSE q.src
           nq == [q EXCEPT !.pc = "release", !.state = b]
<1>1. /\ q.pc = "got" /\ q.polls /\ proc' = [proc EXCEPT ![p] = nq]
      /\ UNCHANGED <<sent, feedback, order, announced, again, scarce>>
  BY DEF updatePIDs, At
<1>2. \/ pidsSent' = pidsSent + 1 /\ states' = [states EXCEPT ![b].pids = pidsSent + 1]
         /\ crossed' = (crossed \/ b # q.src \/ b # Readable \/ proc["Main"].src # None)
      \/ UNCHANGED <<pidsSent, states, crossed>>
  BY Zenon DEF updatePIDs
<1>3. q \in ProcType /\ Where(q) /\ TypeOK /\ None \notin Buffers
  BY Basics
<1>4. /\ q.default # None /\ q.src # None /\ q.state = IF q.buf = None THEN q.default ELSE q.buf
      /\ q.default \in Buffers /\ q.src \in Buffers
  BY <1>1, <1>3 DEF Where, ProcType
<1>5. b \in Buffers /\ (q.complete => b = q.state)
  BY <1>3, <1>4 DEF ProcType
<1> HIDE DEF b
<1>6. /\ nq \in ProcType /\ nq.pc = "release" /\ nq.state = b /\ nq.src = q.src /\ nq.buf = q.buf
      /\ nq.got = q.got /\ nq.frame = q.frame /\ nq.complete = q.complete /\ nq.status = q.status
      /\ nq.polls
  BY <1>1, <1>3, <1>5 DEF ProcType, Labels
<1>7. crossed => crossed'
  BY <1>2, Zenon
<1> HIDE DEF nq
<1>8. Turns(p, nq)
  BY <1>1, <1>6, <1>7, SameRequest DEF Active
<1>9. Where(nq)
  BY <1>1, <1>6, Afterwards
<1>10. /\ SameData
       /\ \/ pidsSent' = pidsSent /\ crossed' = crossed /\ \A c \in Buffers : states'[c].pids = states[c].pids
          \/ pidsSent' = pidsSent + 1 /\ (~crossed' => b = q.src /\ b = Readable /\ proc["Main"].src = None)
             /\ states'[b].pids = pidsSent + 1
  <2>1. CASE UNCHANGED <<pidsSent, states, crossed>>
    BY <1>1, <2>1, NoReading, SameBuffersData
  <2>2. CASE /\ pidsSent' = pidsSent + 1 /\ states' = [states EXCEPT ![b].pids = pidsSent + 1]
             /\ crossed' = (crossed \/ b # q.src \/ b # Readable \/ proc["Main"].src # None)
    <3> DEFINE s == [states[b] EXCEPT !.pids = pidsSent + 1]
    <3>1. states[b] \in BufferType /\ pidsSent + 1 \in Nat /\ states' = [states EXCEPT ![b] = s]
      BY <1>3, <1>5, <2>2 DEF TypeOK
    <3>2. /\ s \in BufferType /\ s.frame = states[b].frame /\ s.status = states[b].status
          /\ s.complete = states[b].complete /\ s.shows = states[b].shows /\ s.pids = pidsSent + 1
      BY <3>1 DEF BufferType
    <3> HIDE DEF s
    <3>3. SameData /\ \A c \in Buffers : states'[c].pids = IF c = b THEN s.pids ELSE states[c].pids
      BY <1>1, <1>5, <3>1, <3>2, SameFields
    <3>4. states'[b].pids = pidsSent + 1
      BY <1>5, <3>2, <3>3
    <3>5. ~crossed' => b = q.src /\ b = Readable /\ proc["Main"].src = None
      BY <2>2, Zenon
    <3> QED
      BY <2>2, <3>3, <3>4, <3>5
  <2> QED
    BY <1>2, <2>1, <2>2
<1>11. Working(q) => Working(nq) /\ nq.buf = q.buf
  BY <1>1, <1>6 DEF Working, Holds
<1>12. ASSUME ~scarce PROVE Task(nq, states) /\ Begun(nq) /\ MotionTells(nq) /\ MainTells(nq)
  <2>1. Task(q, states) /\ Begun(q)
    BY <1>12 DEF HistoryInv, TaskInv, BegunInv
  <2>2. Working(nq) => Working(q)
    BY <1>1, <1>6 DEF Working, Holds
  <2>3. Task(nq, states)
    <3>1. Has(nq) => Has(q)
      BY <1>1, <1>6 DEF Has
    <3>2. nq.complete => nq.buf # None /\ nq.state = nq.buf
      BY <1>1, <1>5, <1>6, <2>1 DEF Task
    <3> QED
      BY <1>6, <2>1, <2>2, <3>1, <3>2 DEF Task
  <2>4. Begun(nq)
    BY <1>6, <2>1, <2>2 DEF Begun
  <2>5. MotionTells(nq) /\ MainTells(nq)
    BY <1>6 DEF MotionTells, MainTells, Telling
  <2> QED
    BY <2>3, <2>4, <2>5
<1>13. PIDsInv => HasPIDs(nq, states, pidsSent)
  <2>1. PIDsInv => HasPIDs(q, states, pidsSent)
    BY DEF PIDsInv
  <2> QED
    BY <1>6, <2>1 DEF HasPIDs
<1>14. ASSUME ~scarce', ~crossed' PROVE PIDsInv'
  <2>1. CASE pidsSent' = pidsSent /\ \A c \in Buffers : states'[c].pids = states[c].pids
    BY <1>6, <1>8, <1>9, <1>10, <1>13, <1>14, <2>1, QuietPIDs
  <2>2. CASE /\ pidsSent' = pidsSent + 1 /\ b = q.src /\ b = Readable /\ proc["Main"].src = None
             /\ states'[b].pids = pidsSent + 1
    <3>1. Readable' = Readable
      BY <1>1, <1>10, <1>14, SameDataFacts
    <3>2. /\ proc'[p] = nq /\ \A r \in Processes \ {p} : proc'[r] = proc[r]
          /\ \A r \in Processes : Where(proc[r])
      BY <1>8, TurnFacts
    <3>3. p # "Main" /\ p \in {"Main", "Motion"}
      BY <1>4, <2>2 DEF Processes
    <3>4. Where(proc["Main"]) /\ proc'["Main"] = proc["Main"]
      BY <3>2, <3>3 DEF Processes
    <3>5. proc["Main"].pc # "done"
      BY <2>2, <3>4 DEF Where
    <3>6. \A r \in Processes : HasPIDs(proc'[r], states', pidsSent')
      BY <1>6, <2>2, <3>2, <3>3, <3>4, <3>5 DEF HasPIDs, Processes
    <3> QED
      BY <2>2, <3>1, <3>6 DEF PIDsInv, HasPIDs
  <2> QED
    BY <1>10, <1>14, <2>1, <2>2
<1> QED
  BY <1>1, <1>8, <1>9, <1>10, <1>11, <1>12, <1>14, QuietHistory

LEMMA UnsourceHistory ==
  ASSUME IInv, IInv', HistoryInv, NEW p \in Processes, unsource(p)
  PROVE  HistoryInv'
<1> DEFINE q == proc[p]
           label == IF p = "Motion" /\ ~q.polls /\ Notify(q) THEN "post" ELSE "leave"
           nq == [q EXCEPT !.pc = label, !.src = None, !.buf = None, !.polls = FALSE,
                           !.status = {}, !.complete = FALSE, !.partial = FALSE]
<1>1. /\ q.pc = "unsource" /\ doneReadingState(q.src) /\ proc' = [proc EXCEPT ![p] = nq]
      /\ UNCHANGED <<sent, feedback, pidsSent, order, announced, again, scarce, crossed>>
  BY DEF unsource, At, history
<1>2. /\ q \in ProcType /\ Where(q) /\ TypeOK /\ None \notin Buffers /\ label \in {"post", "leave"}
      /\ label = "post" => p = "Motion" /\ ~q.polls /\ q.partial /\ q.complete
  BY Basics DEF Notify
<1> HIDE DEF label
<1>3. /\ nq \in ProcType /\ nq.pc = label /\ nq.src = None /\ nq.buf = None
      /\ nq.got = q.got /\ nq.frame = q.frame /\ nq.complete = FALSE
  BY <1>2 DEF ProcType, Labels
<1>4. q.src \in Buffers /\ states[q.src].reading > 0
  BY <1>1, <1>2, CountPositive DEF Where, ProcType
<1> HIDE DEF nq
<1>5. SameData /\ \A b \in Buffers : states'[b].pids = states[b].pids
  BY <1>1, <1>4, DoneReading, SameBuffersData
<1>6. Turns(p, nq)
  <2>1. p = "Motion" => nq.pc \notin {"reset"} /\ nq.src = None
    BY <1>2, <1>3
  <2>2. p = "Main" => nq.pc \notin Active
    BY <1>2, <1>3 DEF Active
  <2>3. p = "Main" => \A f : MainThrough(f) => MainThrough(f)'
    <3> SUFFICES ASSUME p = "Main", NEW f, MainThrough(f) PROVE MainThrough(f)'
      OBVIOUS
    <3>1. proc'["Main"] = nq
      BY <1>1, <1>2 DEF TypeOK
    <3> QED
      BY <1>3, <2>2, <3>1 DEF MainThrough
  <2> QED
    BY <1>1, <1>3, <2>1, <2>2, <2>3 DEF Turns
<1>7. Where(nq)
  BY <1>1, <1>3, Afterwards
<1>8. ASSUME ~scarce
      PROVE  /\ Task(nq, states) /\ Begun(nq)
             /\ p = "Motion" => MotionTells(nq)
             /\ p = "Main" => MainTells(nq)
  <2>1. Task(nq, states) /\ Begun(nq)
    BY <1>3 DEF Task, Begun, Has, Working, Holds
  <2>2. p = "Main" => MainTells(nq)
    BY <1>2, <1>3 DEF MainTells
  <2>3. p = "Motion" => MotionTells(nq)
    <3> SUFFICES ASSUME p = "Motion" PROVE MotionTells(nq)
      OBVIOUS
    <3>1. MotionTells(q)
      BY <1>8 DEF HistoryInv, TellInv
    <3>2. CASE label = "post"
      <4>1. Telling(q)
        BY <1>1, <1>2, <3>2 DEF Telling
      <4>2. Untold(q.frame) /\ Over(q.frame)
        BY <1>1, <3>1, <4>1 DEF MotionTells
      <4> QED
        BY <1>3, <3>2, <4>2 DEF MotionTells
    <3>3. CASE label = "leave"
      BY <1>3, <3>3 DEF MotionTells, Telling
    <3> QED
      BY <1>2, <3>2, <3>3
  <2> QED
    BY <2>1, <2>2, <2>3
<1>9. ~Working(q)
  BY <1>1 DEF Working, Holds
<1>10. ~scarce' /\ ~crossed' => PIDsInv'
  BY <1>1, <1>3, <1>5, <1>6, <1>7, QuietPIDs DEF HasPIDs
<1> QED
  BY <1>1, <1>5, <1>6, <1>7, <1>8, <1>9, <1>10, QuietHistory

-------------------------------------------------------------------------------
(* The steps that write a buffer                                            *)

\* Only b changes, and not back from being complete.
Changes(b) ==
  /\ states' \in [Buffers -> BufferType] /\ order' = order
  /\ \A c \in Buffers \ {b} :
       /\ states'[c].frame = states[c].frame /\ states'[c].status = states[c].status
       /\ states'[c].complete = states[c].complete /\ states'[c].shows = states[c].shows
  /\ states'[b].frame = states[b].frame
  /\ states[b].complete => states'[b].complete /\ states'[b].shows = states[b].shows
  /\ Blank(states'[b]) <=> Blank(states[b])

LEMMA ChangesFacts ==
  ASSUME IInv, IInv', HistoryInv, ~scarce, ~scarce', NEW b \in Buffers, Changes(b)
  PROVE  /\ SortedInv' /\ Newest' = Newest /\ Distinct(order')
         /\ states'[Readable'].shows >= states[Readable].shows
         /\ states'[Readable'].shows \in Int /\ states[Readable].shows \in Int
         /\ \A f \in Int : Over(f) => Over(f)'
<1>1. Newest' = Newest /\ Distinct(order')
  BY DEF Changes, Newest, HistoryInv
<1>2. ReadFacts /\ ReadFacts'
  BY ReadLast, PrimedFacts
<1>3. \A c \in Buffers : /\ Blank(states'[c]) <=> Blank(states[c])
                         /\ states'[c].frame = states[c].frame /\ states[c].frame \in Nat
                         /\ states[c].complete => states'[c].complete /\ states'[c].shows = states[c].shows
                         /\ states[c].shows \in Int /\ states'[c].shows \in Int
  <2>1. \A c \in Buffers : states[c] \in BufferType /\ states'[c] \in BufferType
    BY DEF Changes, IInv, TypeOK
  <2>2. \A c \in Buffers : states[c].shows \in Int /\ states'[c].shows \in Int /\ states[c].frame \in Nat
    BY <2>1 DEF BufferType, None
  <2> QED
    BY <2>2 DEF Changes, Blank
<1>4. SortedInv'
  <2>1. SortedInv /\ Newest \in Buffers
    BY <1>2 DEF HistoryInv, ReadFacts
  <2>2. ~Blank(states'[Newest])
    BY <1>3, <2>1 DEF SortedInv
  <2>3. \A c \in Buffers : Blank(states'[c]) => states'[c].frame = 0
    BY <1>3, <2>1 DEF SortedInv
  <2>4. \A a, c \in Buffers : Precedes(order', a, c) =>
          Blank(states'[a]) \/ (~Blank(states'[c]) /\ states'[a].frame < states'[c].frame)
    BY <1>3, <2>1 DEF SortedInv, Changes
  <2> QED
    BY <1>1, <2>2, <2>3, <2>4 DEF SortedInv
<1>5. Ranked'
  BY <1>1, <1>4, PrimedFacts
<1>6. PICK x : x = Readable'
  OBVIOUS
<1>7. x \in Buffers /\ Readable \in Buffers /\ states[Readable].complete
  BY <1>2, <1>6 DEF ReadFacts
<1>8. \A c \in Buffers : states'[c].complete => states'[c].shows <= states'[x].shows
  BY <1>5, <1>6 DEF Ranked
<1>9. states'[x].shows >= states[Readable].shows /\ states'[x].shows \in Int /\ states[Readable].shows \in Int
  <2>1. states'[Readable].shows <= states'[x].shows /\ states'[Readable].shows = states[Readable].shows
    BY <1>3, <1>7, <1>8
  <2> QED
    BY <1>3, <1>7, <2>1
<1>10. ASSUME NEW f \in Int, Over(f) PROVE Over(f)'
  <2>1. Newest \in Buffers
    BY <1>2 DEF ReadFacts
  <2>2. f <= states'[Newest].frame
    BY <1>3, <1>10, <2>1 DEF Over
  <2>3. \A c \in Buffers : states'[c].frame = f => states'[c].complete
    BY <1>3, <1>10 DEF Over
  <2>4. states'[x].shows >= f
    BY <1>9, <1>10 DEF Over
  <2> QED
    BY <1>1, <1>6, <2>2, <2>3, <2>4 DEF Over
<1> QED
  BY <1>1, <1>4, <1>6, <1>9, <1>10

\* A writer changes the buffer it holds, or lets it go.
LEMMA WriteHistory ==
  ASSUME IInv, IInv', HistoryInv, NEW p \in Processes, NEW nq, Turns(p, nq),
         NEW b \in Buffers, b = proc[p].buf, Working(proc[p]), Changes(b),
         announced' = announced, again' = again, Where(nq),
         ~scarce' => Begun(nq) \/ Untold(nq.frame)',
         ~scarce => /\ Task(nq, states')
                    /\ \/ Working(nq) /\ nq.buf = b
                       \/ SENSORS_APPLIED \in states'[b].status /\ ~states'[b].complete
                            => Untold(states[b].frame)
                    /\ Working(nq) => nq.buf = b,
         ~scarce' => (p = "Motion" => MotionTells(nq)') /\ (p = "Main" => MainTells(nq)'),
         ~scarce' /\ ~crossed' => PIDsInv'
  PROVE  HistoryInv'
<1>1. /\ proc'[p] = nq /\ \A r \in Processes \ {p} : proc'[r] = proc[r]
      /\ \A r \in Processes : proc[r] \in ProcType /\ proc'[r] \in ProcType /\ Where(proc[r])
      /\ RoleInv'
  BY TurnFacts
<1>2. Distinct(order')
  BY DEF Changes, HistoryInv
<1>3. \A r \in Processes \ {p} : ~(Holds(proc[r]) /\ proc[r].buf = b)
  <2>1. states[b].writeLock = p
    BY DEF Working, IInv, LockInv
  <2> QED
    BY <2>1, NobodyElseHolds
<1>4. ASSUME ~scarce' PROVE SortedInv' /\ TaskInv' /\ BegunInv' /\ ToldInv' /\ TellInv'
  <2>1. ~scarce /\ TaskInv /\ BegunInv /\ TellInv
    BY <1>4 DEF Turns, HistoryInv
  <2>2. /\ SortedInv'
        /\ states'[Readable'].shows >= states[Readable].shows
        /\ states'[Readable'].shows \in Int /\ states[Readable].shows \in Int
        /\ \A f \in Int : Over(f) => Over(f)'
    BY <1>4, <2>1, ChangesFacts
  <2>3. (\A f : Untold(f) => Untold(f)') /\ ToldInv'
    BY <2>1, UntoldStays
  <2>4. TaskInv'
    <3>1. ASSUME NEW r \in Processes \ {p} PROVE Task(proc[r], states')
      <4>1. Task(proc[r], states)
        BY <2>1 DEF TaskInv
      <4>2. CASE proc[r].buf = b
        BY <1>3, <4>1, <4>2 DEF Task, Has, Working, Holds, Changes
      <4>3. CASE proc[r].buf # b
        <5>1. proc[r].buf # None => proc[r].buf \in Buffers \ {b}
          BY <1>1, <4>3 DEF ProcType
        <5> QED
          BY <4>1, <5>1 DEF Task, Has, Working, Holds, Changes, Blank
      <4> QED
        BY <4>2, <4>3
    <3>2. \A r \in Processes : Task(proc'[r], states')
      BY <1>1, <2>1, <3>1
    <3> QED
      BY <3>2 DEF TaskInv, Task, Has, Working, Holds
  <2>5. BegunInv'
    <3>1. ASSUME NEW r \in Processes, Working(proc'[r]), SENSORS_APPLIED \in proc'[r].status,
                 ~proc'[r].complete
          PROVE  Untold(proc[r].frame)'
      <4>1. PICK f : f = proc'[r].frame
        OBVIOUS
      <4>2. Untold(f) \/ Untold(f)'
        <5>1. CASE r = p
          <6>1. f = nq.frame
            BY <1>1, <4>1, <5>1
          <6>2. Untold(f) \/ Untold(nq.frame)'
            BY <1>1, <1>4, <3>1, <5>1, <6>1 DEF Begun
          <6>3. Untold(nq.frame)' => Untold(f)'
            BY <6>1
          <6> QED
            BY <6>2, <6>3
        <5>2. CASE r # p
          BY <1>1, <2>1, <3>1, <4>1, <5>2 DEF BegunInv, Begun
        <5> QED
          BY <5>1, <5>2
      <4>3. Untold(f)'
        BY <2>3, <4>2
      <4> QED
        BY <4>1, <4>3 DEF Untold, MainThrough
    <3>2. ASSUME NEW c \in Buffers, \A r \in Processes : Working(proc'[r]) => proc'[r].buf # c,
                 SENSORS_APPLIED \in states'[c].status, ~states'[c].complete
          PROVE  Untold(states[c].frame)'
      <4>1. Untold(states[c].frame)
        <5>1. CASE c = b
          <6>1. ~(Working(nq) /\ nq.buf = b)
            BY <1>1, <3>2, <5>1
          <6> QED
            BY <2>1, <3>2, <5>1, <6>1
        <5>2. CASE c # b
          <6>1. \A r \in Processes : Working(proc[r]) => proc[r].buf # c
            BY <1>1, <3>2, <5>2
          <6>2. SENSORS_APPLIED \in states[c].status /\ ~states[c].complete
            BY <3>2, <5>2 DEF Changes
          <6> QED
            BY <2>1, <6>1, <6>2 DEF BegunInv
        <5> QED
          BY <5>1, <5>2
      <4>2. PICK f : f = states[c].frame
        OBVIOUS
      <4>3. Untold(f)'
        BY <2>3, <4>1, <4>2
      <4>4. f = states'[c].frame
        BY <4>2 DEF Changes
      <4> QED
        BY <4>3, <4>4 DEF Untold, MainThrough
    <3> QED
      BY <3>1, <3>2, Zenon DEF BegunInv, Begun, Working, Holds
  <2>6. TellInv'
    <3>1. PICK m, a : m = proc'["Motion"] /\ a = proc'["Main"]
      OBVIOUS
    <3>2. MotionTells(proc["Motion"]) /\ MainTells(proc["Main"])
      BY <2>1 DEF TellInv
    <3>3. CASE p = "Main"
      <4>1. a = nq /\ m = proc["Motion"] /\ m \in ProcType
        BY <1>1, <3>1, <3>3 DEF Processes
      <4>2. m.frame \in Int
        BY <4>1 DEF ProcType, None
      <4>3. MotionTells(m)
        BY <3>2, <4>1
      <4>4. MotionTells(m)'
        BY <2>3, <2>2, <4>2, <4>3 DEF MotionTells, Telling
      <4>5. MainTells(a)'
        <5>1. MainTells(nq)'
          BY <1>4, <3>3
        <5> QED
          BY <4>1, <5>1
      <4> QED
        BY <3>1, <4>4, <4>5 DEF TellInv, MotionTells, MainTells, Telling
    <3>4. CASE p = "Motion"
      <4>1. m = nq /\ a = proc["Main"] /\ a \in ProcType /\ Where(a) /\ "Main" \in Processes \ {p}
        BY <1>1, <3>1, <3>4 DEF Processes
      <4>2. a.frame \in Int
        BY <4>1 DEF ProcType, None
      <4>3. MainTells(a) /\ Task(a, states) /\ ReadsComplete(a, states)
        BY <2>1, <3>2, <4>1, Basics DEF TaskInv
      <4>4. a.pc = "post" => states'[a.state].shows = states[a.state].shows
        <5> SUFFICES ASSUME a.pc = "post" PROVE states'[a.state].shows = states[a.state].shows
          OBVIOUS
        <5>1. CASE a.src = None
          <6>1. a.state = a.default /\ a.default \in Buffers /\ states[a.default].complete
            BY <4>1, <4>3, <5>1 DEF MainTells, Where, ReadsComplete, ProcType
          <6> QED
            BY <6>1 DEF Changes
        <5>2. CASE a.src # None
          <6>1. a.buf # None /\ a.state = a.buf /\ a.buf \in Buffers
            BY <4>1, <4>3, <5>2 DEF MainTells, Task, ProcType
          <6>2. a.buf # b
            BY <1>3, <4>1, <6>1 DEF Holds
          <6> QED
            BY <6>1, <6>2 DEF Changes
        <5> QED
          BY <5>1, <5>2
      <4>5. MainTells(a)'
        BY <2>2, <4>2, <4>3, <4>4 DEF MainTells
      <4>6. MotionTells(m)'
        <5>1. MotionTells(nq)'
          BY <1>4, <3>4
        <5> QED
          BY <4>1, <5>1
      <4> QED
        BY <3>1, <4>5, <4>6 DEF TellInv, MotionTells, MainTells, Telling
    <3> QED
      BY <3>3, <3>4 DEF Processes
  <2> QED
    BY <2>2, <2>3, <2>4, <2>5, <2>6
<1> QED
  BY <1>1, <1>2, <1>4 DEF HistoryInv

\* Without a buffer to spare only the order and the roles are known.
LEMMA ScarceHistory ==
  ASSUME IInv, HistoryInv, NEW p \in Processes, NEW nq, Turns(p, nq), order' = order, scarce'
  PROVE  HistoryInv'
<1>1. RoleInv' /\ Distinct(order')
  BY TurnFacts DEF HistoryInv
<1> QED
  BY <1>1 DEF HistoryInv

LEMMA SameReading ==
  ASSUME IInv, IInv', HistoryInv, ~scarce, ~scarce', order' = order,
         \A c \in Buffers : states'[c].complete = states[c].complete
  PROVE  Readable' = Readable /\ Readable \in Buffers
<1>1. ReadFacts /\ ReadFacts'
  BY ReadLast, PrimedFacts
<1>2. states'[Readable].complete /\ states[Readable'].complete /\ Readable \in Buffers
  BY <1>1 DEF ReadFacts
<1>3. Precedes(order', Readable, Readable') => Precedes(order, Readable, Readable')
  OBVIOUS
<1> QED
  BY <1>2, <1>3, SameReadable DEF HistoryInv

\* No buffer with the last PID settings loses them.
LEMMA KeptPIDs ==
  ASSUME IInv, IInv', HistoryInv, NEW p \in Processes, NEW nq, Turns(p, nq),
         pidsSent' = pidsSent, ~scarce', ~crossed', states'[Readable'].pids = pidsSent,
         \A c \in Buffers : states[c].pids = pidsSent => states'[c].pids = pidsSent,
         HasPIDs(nq, states', pidsSent)
  PROVE  PIDsInv'
<1>1. /\ proc'[p] = nq /\ \A r \in Processes \ {p} : proc'[r] = proc[r]
      /\ \A r \in Processes : proc[r] \in ProcType
  BY TurnFacts
<1>2. PIDsInv /\ TaskInv
  BY DEF Turns, HistoryInv
<1>3. ASSUME NEW r \in Processes \ {p} PROVE HasPIDs(proc[r], states', pidsSent)
  <2>1. PICK x : x = proc[r]
    OBVIOUS
  <2>2. HasPIDs(x, states, pidsSent) /\ x \in ProcType /\ (x.complete => x.buf # None)
    BY <1>1, <1>2, <2>1 DEF PIDsInv, TaskInv, Task
  <2>3. HasPIDs(x, states', pidsSent)
    BY <2>2 DEF HasPIDs, ProcType
  <2> QED
    BY <2>1, <2>3
<1>4. \A r \in Processes : HasPIDs(proc'[r], states', pidsSent')
  BY <1>1, <1>3
<1> QED
  BY <1>4 DEF PIDsInv, HasPIDs

LEMMA EndReadHistory ==
  ASSUME IInv, IInv', HistoryInv, NEW p \in Processes, endRead(p)
  PROVE  HistoryInv'
<1> DEFINE q == proc[p]
           b == q.state
           flags == q.status \cup {SENSORS_APPLIED} \cup (IF HasFeedback(p) THEN {FEEDBACK_APPLIED} ELSE {})
           full == Completed(flags)
           label == Posts(p, full)
           s == [states[b] EXCEPT !.shows = IF q.partial THEN states[b].shows ELSE q.frame]
<1>1. PICK nq : nq = [q EXCEPT !.pc = label, !.status = flags, !.complete = full]
  OBVIOUS
<1>2. /\ q.pc = "fill" /\ proc' = [proc EXCEPT ![p] = nq]
      /\ states' = [states EXCEPT ![b] = s]
      /\ UNCHANGED <<sent, feedback, pidsSent, order, announced, again, scarce, crossed>>
  BY <1>1 DEF endRead, At, history
<1>3. q \in ProcType /\ Where(q) /\ TypeOK
  BY Basics
<1>4. flags \in SUBSET Flags /\ SENSORS_APPLIED \in flags /\ full \in BOOLEAN
      /\ label \in {"post", "release"} /\ (label = "post" <=> p = "Main" /\ full)
      /\ (p = "Motion" => full)
  BY <1>3 DEF Flags, ProcType, Completed, Posts, HasFeedback
<1>5. /\ b \in Buffers /\ q.src # None /\ q.frame \in 0 .. LastFrame /\ LastFrame \in Nat
      /\ b = IF q.buf = None THEN q.default ELSE q.buf
  BY <1>2, <1>3, Basics DEF Where, ProcType
<1> HIDE DEF flags, label, full
<1>6. /\ nq \in ProcType /\ nq.pc = label /\ nq.state = q.state /\ nq.partial = q.partial
      /\ nq.src = q.src /\ nq.buf = q.buf /\ nq.got = q.got /\ nq.frame = q.frame
      /\ SENSORS_APPLIED \in nq.status /\ nq.complete = full
  <2>1. label \in Labels
    BY <1>4 DEF Labels
  <2> QED
    BY <1>1, <1>3, <1>4, <2>1 DEF ProcType
<1>7. states[b] \in BufferType
  BY <1>3, <1>5 DEF TypeOK
<1>8. /\ s \in BufferType /\ s.frame = states[b].frame /\ s.status = states[b].status
      /\ s.complete = states[b].complete /\ s.pids = states[b].pids
      /\ s.shows = IF q.partial THEN states[b].shows ELSE q.frame
  BY <1>5, <1>7, Basics DEF BufferType
<1>9. states' \in [Buffers -> BufferType] /\ \A c \in Buffers : states'[c] = IF c = b THEN s ELSE states[c]
  BY <1>2, <1>3, <1>8 DEF TypeOK
<1> HIDE DEF s
<1>10. Turns(p, nq)
  BY <1>2, <1>4, <1>6, SameRequest DEF Active
<1>11. Where(nq)
  BY <1>2, <1>6, Afterwards
<1>12. CASE scarce
  BY <1>2, <1>10, <1>12, ScarceHistory
<1>13. CASE ~scarce
  <2>1. /\ Writer(q, states, LastFrame) /\ Begun(q) /\ ToldInv /\ RoleInv
    BY <1>13, Basics DEF HistoryInv, BegunInv
  <2>2. q.buf = b /\ Working(q) /\ ~q.complete /\ ~states[b].complete /\ b # None
        /\ (q.partial => SENSORS_APPLIED \in q.status)
    BY <1>2, <1>5, <2>1 DEF Writer, Working, Holds
  <2>3. q.partial => Untold(q.frame) /\ states[b].shows = q.frame
    BY <2>1, <2>2 DEF Begun, Writer, Working
  <2>4. Changes(b)
    BY <1>2, <1>8, <1>9, <2>2 DEF Changes, Blank
  <2>5. Working(nq) /\ nq.buf = b
    BY <1>4, <1>6, <2>2 DEF Working, Holds
  <2>6. Task(nq, states')
    <3>1. nq.buf = b /\ nq.state = b /\ b # None /\ nq.pc # "done" /\ ~states'[b].complete
      BY <1>4, <1>5, <1>6, <1>8, <1>9, <2>2
    <3> QED
      BY <3>1 DEF Task, Blank
  <2>7. (\A f : Untold(f) => Untold(f)') /\ proc'[p] = nq
    BY <1>2, <1>10, UntoldStays, TurnFacts
  <2>8. Begun(nq) \/ Untold(nq.frame)'
    <3>1. CASE full
      BY <1>6, <3>1 DEF Begun
    <3>2. CASE q.partial
      BY <1>6, <2>3, <3>2 DEF Begun
    <3>3. CASE ~full /\ ~q.partial
      <4>1. p = "Main" /\ label = "release"
        BY <1>4, <3>3 DEF Processes
      <4>2. PICK f : f = nq.frame
        OBVIOUS
      <4>3. f \in 0 .. q.got - 1 /\ q.frame = f /\ q.pc \in Active
        <5>1. q.frame < q.got /\ q.pc \in Active /\ q.got \in Nat
          BY <1>2, <1>3, <2>1, <4>1 DEF RoleInv, Active, ProcType
        <5> QED
          BY <1>5, <1>6, <4>2, <5>1
      <4>4. f \notin announced
        BY <2>1, <4>1, <4>3 DEF ToldInv, MainThrough
      <4>5. MainThrough(f)'
        BY <1>6, <2>7, <4>1, <4>3 DEF MainThrough, Active
      <4>6. Untold(f)'
        BY <1>2, <4>4, <4>5 DEF Untold
      <4> QED
        BY <4>2, <4>6 DEF Untold, MainThrough
    <3> QED
      BY <3>1, <3>2, <3>3, <1>4
  <2>9. p = "Motion" => MotionTells(nq)'
    <3> SUFFICES ASSUME p = "Motion" PROVE MotionTells(nq)'
      OBVIOUS
    <3>1. label = "release"
      BY <1>4
    <3>2. PICK f : f = nq.frame
      OBVIOUS
    <3>3. nq.partial => Untold(f)'
      BY <1>6, <2>3, <2>7, <3>2
    <3> QED
      BY <1>6, <2>2, <3>1, <3>2, <3>3 DEF MotionTells, Telling, Untold, MainThrough
  <2>10. MainTells(nq)'
    <3>1. states'[b].shows = q.frame
      BY <1>5, <1>8, <1>9, <2>3
    <3>2. q.frame >= q.frame
      BY <1>5
    <3> QED
      BY <1>4, <1>5, <1>6, <3>1, <3>2 DEF MainTells
  <2>11. ASSUME ~scarce', ~crossed' PROVE PIDsInv'
    <3>1. PIDsInv
      BY <1>2, <2>11 DEF HistoryInv
    <3>2. Readable' = Readable /\ Readable \in Buffers
      BY <1>2, <1>8, <1>9, <1>13, <2>11, SameReading
    <3>3. \A c \in Buffers : states'[c].pids = states[c].pids
      BY <1>8, <1>9
    <3>4. HasPIDs(q, states, pidsSent) /\ states[Readable].pids = pidsSent
      BY <3>1 DEF PIDsInv
    <3>5. HasPIDs(nq, states', pidsSent)
      BY <1>4, <1>6, <3>3, <3>4 DEF HasPIDs, ProcType
    <3> QED
      BY <1>2, <1>10, <2>11, <3>2, <3>3, <3>4, <3>5, KeptPIDs
  <2> QED
    BY <1>2, <1>5, <1>10, <1>11, <2>2, <2>4, <2>5, <2>6, <2>8, <2>9, <2>10, <2>11, WriteHistory
<1> QED
  BY <1>12, <1>13

LEMMA ReleaseHistory ==
  ASSUME IInv, IInv', HistoryInv, NEW p \in Processes, release(p)
  PROVE  HistoryInv'
<1> DEFINE q == proc[p]
           b == q.buf
           settings(c) == IF c = q.state THEN CarriedOver(q) ELSE states[c].pids
           flags(c) == IF c = b THEN q.status ELSE states[c].status
<1>1. PICK nq : nq = [q EXCEPT !.pc = "done"]
  OBVIOUS
<1>2. /\ q.pc = "release" /\ proc' = [proc EXCEPT ![p] = nq]
      /\ UNCHANGED <<sent, feedback, pidsSent, order, announced, again, scarce, crossed>>
  BY <1>1 DEF release, At, Goto, history
<1>3. \A c \in Buffers : states'[c] = [states[c] EXCEPT !.pids = settings(c), !.status = flags(c)]
  BY DEF release
<1>4. q \in ProcType /\ Where(q) /\ TypeOK
  BY Basics
<1>5. /\ nq \in ProcType /\ nq.pc = "done" /\ nq.partial = q.partial /\ nq.polls = q.polls
      /\ nq.src = q.src /\ nq.buf = q.buf /\ nq.got = q.got /\ nq.frame = q.frame
      /\ nq.complete = q.complete /\ nq.status = q.status /\ nq.state = q.state
  BY <1>1, <1>4 DEF ProcType, Labels
<1>6. /\ q.src \in Buffers /\ q.src # None /\ q.state \in Buffers
      /\ q.buf # None => q.buf \in Buffers
  BY <1>2, <1>4 DEF Where, ProcType
<1>7. /\ states' \in [Buffers -> BufferType]
      /\ \A c \in Buffers :
           /\ states'[c].frame = states[c].frame /\ states'[c].complete = states[c].complete
           /\ states'[c].shows = states[c].shows /\ states'[c].status = flags(c)
           /\ states'[c].pids = settings(c)
  <2> HIDE DEF flags, settings
  <2>1. states' \in [Buffers -> BufferType]
    BY DEF IInv, TypeOK
  <2>2. ASSUME NEW c \in Buffers
        PROVE  /\ states'[c].frame = states[c].frame /\ states'[c].complete = states[c].complete
               /\ states'[c].shows = states[c].shows /\ states'[c].status = flags(c)
               /\ states'[c].pids = settings(c)
    <3>1. PICK i, j : i = settings(c) /\ j = flags(c)
      OBVIOUS
    <3>2. states[c] \in BufferType /\ states'[c] = [states[c] EXCEPT !.pids = i, !.status = j]
      BY <1>3, <1>4, <3>1 DEF TypeOK
    <3>3. /\ states'[c].frame = states[c].frame /\ states'[c].complete = states[c].complete
          /\ states'[c].shows = states[c].shows /\ states'[c].status = j /\ states'[c].pids = i
      BY <3>2 DEF BufferType
    <3> QED
      BY <3>1, <3>3
  <2> QED
    BY <2>1, <2>2
<1>8. Turns(p, nq)
  BY <1>2, <1>5, SameRequest DEF Active
<1>9. Where(nq)
  BY <1>2, <1>5, Afterwards
<1>10. CASE scarce
  BY <1>2, <1>8, <1>10, ScarceHistory
<1>11. CASE ~scarce
  <2>1. Task(q, states) /\ Begun(q) /\ TellInv
    BY <1>11 DEF HistoryInv, TaskInv, BegunInv
  <2>2. ASSUME ~scarce', ~crossed' PROVE PIDsInv'
    <3>1. PIDsInv
      BY <1>2, <2>2 DEF HistoryInv
    <3>2. Readable' = Readable /\ Readable \in Buffers
      BY <1>2, <1>7, <1>11, <2>2, SameReading
    <3>3. HasPIDs(q, states, pidsSent) /\ states[Readable].pids = pidsSent
      BY <3>1 DEF PIDsInv
    <3>4. states[q.src].pids = pidsSent
      BY <1>6, <3>3 DEF HasPIDs
    <3>5. \A c \in Buffers : states[c].pids = pidsSent => states'[c].pids = pidsSent
      BY <1>7, <3>4 DEF CarriedOver
    <3>6. q.complete => states'[q.buf].pids = pidsSent
      BY <1>2, <1>6, <1>7, <2>1, <3>4 DEF CarriedOver, Task
    <3>7. HasPIDs(nq, states', pidsSent)
      BY <1>5, <1>6, <3>4, <3>5, <3>6 DEF HasPIDs
    <3> QED
      BY <1>2, <1>8, <2>2, <3>2, <3>3, <3>5, <3>7, KeptPIDs
  <2>3. CASE b = None
    <3>1. SameData
      BY <1>2, <1>4, <1>7, <2>3, Basics DEF SameData
    <3>2. ~q.complete
      BY <2>1, <2>3 DEF Task
    <3>3. Task(nq, states) /\ Begun(nq) /\ MotionTells(nq) /\ MainTells(nq)
      BY <1>5, <2>3, <3>2, NothingInHand
    <3>4. ~Working(q)
      BY <2>3 DEF Working, Holds
    <3> QED
      BY <1>2, <1>8, <1>9, <2>2, <3>1, <3>3, <3>4, QuietHistory
  <2>4. CASE b # None
    <3>1. b \in Buffers /\ Working(q)
      BY <1>2, <1>6, <2>4 DEF Working, Holds
    <3>2. Changes(b)
      BY <1>2, <1>7, <3>1 DEF Changes, Blank
    <3>3. Working(nq) /\ nq.buf = b
      BY <1>5, <2>4 DEF Working, Holds
    <3>4. Task(nq, states')
      <4>1. ~Blank(states'[b]) /\ (~q.complete => ~states'[b].complete) /\ states'[b].status = q.status
        BY <1>2, <1>7, <2>1, <2>4, <3>1 DEF Task, Has, Blank
      <4> QED
        BY <1>5, <2>4, <4>1 DEF Task
    <3>5. Begun(nq)
      BY <1>5, <2>1, <3>1 DEF Begun
    <3>6. p = "Motion" => MotionTells(nq)'
      <4> SUFFICES ASSUME p = "Motion" PROVE MotionTells(nq)'
        OBVIOUS
      <4>1. MotionTells(q)
        BY <2>1 DEF TellInv
      <4>2. PICK f : f = nq.frame
        OBVIOUS
      <4>3. Telling(nq) => Untold(f) /\ SENSORS_APPLIED \in nq.status
        BY <1>2, <1>5, <4>1, <4>2 DEF MotionTells, Telling
      <4>4. Untold(f) => Untold(f)'
        BY <1>2, <1>8, UntoldStays
      <4> QED
        BY <1>5, <2>4, <4>2, <4>3, <4>4 DEF MotionTells, Telling, Untold, MainThrough
    <3>7. MainTells(nq)'
      BY <1>5 DEF MainTells
    <3> QED
      BY <1>2, <1>8, <1>9, <2>2, <3>1, <3>2, <3>3, <3>4, <3>5, <3>6, <3>7, WriteHistory
  <2> QED
    BY <2>3, <2>4
<1> QED
  BY <1>10, <1>11

LEMMA DoneHistory ==
  ASSUME IInv, IInv', HistoryInv, NEW p \in Processes, done(p)
  PROVE  HistoryInv'
<1> DEFINE q == proc[p]
           b == q.buf
           s == doneWritingState(states[b], q.complete)
<1>1. PICK nq : nq = [q EXCEPT !.pc = "unsource", !.state = q.default]
  OBVIOUS
<1>2. /\ q.pc = "done" /\ proc' = [proc EXCEPT ![p] = nq]
      /\ states' = IF b = None THEN states ELSE [states EXCEPT ![b] = s]
      /\ UNCHANGED <<sent, feedback, pidsSent, order, announced, again, scarce, crossed>>
  BY <1>1 DEF done, At, history
<1>3. q \in ProcType /\ Where(q) /\ TypeOK
  BY Basics
<1>4. /\ nq \in ProcType /\ nq.pc = "unsource" /\ nq.partial = q.partial /\ nq.polls = q.polls
      /\ nq.src = q.src /\ nq.buf = q.buf /\ nq.got = q.got /\ nq.frame = q.frame
      /\ nq.complete = q.complete /\ nq.status = q.status
  BY <1>1, <1>3 DEF ProcType, Labels
<1>5. Turns(p, nq)
  BY <1>2, <1>4, SameRequest DEF Active
<1>6. Where(nq)
  BY <1>2, <1>4, Afterwards
<1>7. CASE scarce
  BY <1>2, <1>5, <1>7, ScarceHistory
<1>8. CASE ~scarce /\ b = None
  <2>1. SameData /\ \A c \in Buffers : states'[c].pids = states[c].pids
    BY <1>2, <1>8, NoReading, SameBuffersData
  <2>2. ~q.complete
    BY <1>8 DEF HistoryInv, TaskInv, Task
  <2>3. Task(nq, states) /\ Begun(nq) /\ MotionTells(nq) /\ MainTells(nq)
    BY <1>4, <1>8, <2>2, NothingInHand
  <2>4. ~Working(q)
    BY <1>8 DEF Working, Holds
  <2>5. PIDsInv => HasPIDs(nq, states, pidsSent)
    <3>1. PIDsInv => HasPIDs(q, states, pidsSent)
      BY DEF PIDsInv
    <3> QED
      BY <1>4, <3>1 DEF HasPIDs
  <2>6. ~scarce' /\ ~crossed' => PIDsInv'
    BY <1>2, <1>4, <1>5, <1>6, <2>1, <2>5, QuietPIDs
  <2> QED
    BY <1>2, <1>5, <1>6, <2>1, <2>3, <2>4, <2>6, QuietHistory
<1>9. CASE ~scarce /\ b # None
  <2>1. /\ b \in Buffers /\ states[b] \in BufferType /\ Working(q) /\ Has(q) /\ q.frame \in Nat
        /\ Task(q, states) /\ Begun(q) /\ TellInv /\ Writer(q, states, LastFrame)
    BY <1>2, <1>9, WriterBasics, Basics DEF Working, Holds, Has, HistoryInv, TaskInv, BegunInv
  <2>2. PICK full : full = (states[b].complete \/ q.complete)
    OBVIOUS
  <2>3. full \in BOOLEAN /\ (full <=> states[b].complete \/ q.complete)
    BY <2>2
  <2>4. /\ s \in BufferType /\ s.frame = states[b].frame /\ s.status = states[b].status
        /\ s.shows = states[b].shows /\ s.pids = states[b].pids /\ s.complete = full
    <3>1. s = [states[b] EXCEPT !.writing = states[b].writing - 1, !.complete = full,
                                !.writeLock = "free"]
      BY <2>2, Zenon DEF doneWritingState
    <3>2. states[b].writing - 1 \in Nat
      BY <1>9, <2>1, WriterBasics DEF BufferType
    <3> HIDE DEF s
    <3> QED
      BY <2>1, <2>3, <3>1, <3>2 DEF BufferType
  <2> HIDE DEF s
  <2>5. states' \in [Buffers -> BufferType] /\ \A c \in Buffers : states'[c] = IF c = b THEN s ELSE states[c]
    BY <1>2, <1>3, <1>9, <2>4 DEF TypeOK
  <2>6. ~Blank(states[b]) /\ states[b].frame = q.frame /\ states[b].status = q.status
        /\ (SENSORS_APPLIED \in q.status => states[b].shows = q.frame)
        /\ (q.complete => SENSORS_APPLIED \in q.status \/ states[b].complete)
    BY <1>2, <1>9, <2>1 DEF Task, Writer, Working
  <2>7. states[b].shows = None => ~full
    <3>1. q.frame # None
      BY <2>1 DEF None
    <3> QED
      BY <2>3, <2>6, <3>1 DEF Blank
  <2>8. Changes(b)
    BY <1>2, <2>3, <2>4, <2>5, <2>6, <2>7 DEF Changes, Blank
  <2>9. SENSORS_APPLIED \in states'[b].status /\ ~states'[b].complete => Untold(states[b].frame)
    BY <2>1, <2>3, <2>4, <2>5, <2>6 DEF Begun
  <2>10. ~Working(nq) /\ Begun(nq) /\ Task(nq, states') /\ MainTells(nq)'
    BY <1>4, <1>9 DEF Working, Holds, Begun, Task, Has, MainTells
  <2>11. ASSUME ~scarce', p = "Motion" PROVE MotionTells(nq)'
    <3>1. PICK f : f = q.frame
      OBVIOUS
    <3>2. ASSUME Telling(nq)
          PROVE  Untold(f)' /\ Over(f)'
      <4>1. Telling(q) /\ q.complete
        BY <1>2, <1>4, <3>2 DEF Telling
      <4>2. Untold(f) /\ SENSORS_APPLIED \in q.status
        BY <1>2, <2>1, <2>11, <3>1, <4>1 DEF TellInv, MotionTells
      <4>3. Untold(f)'
        BY <1>2, <1>5, <4>2, UntoldStays
      <4>4. SortedInv' /\ Newest' = Newest /\ Distinct(order')
        BY <1>9, <2>1, <2>8, <2>11, ChangesFacts
      <4>5. Ranked /\ Ranked' /\ ReadFacts /\ ReadFacts'
        BY <1>9, <2>11, <4>4, RankedFacts, ReadLast, PrimedFacts DEF HistoryInv
      <4>6. states'[b].complete /\ states'[b].shows = f /\ states'[b].frame = f /\ states[b].frame = f
        BY <2>1, <2>3, <2>4, <2>5, <2>6, <3>1, <4>1, <4>2
      <4>7. f <= states'[Newest].frame
        <5>1. Newest \in Buffers /\ states[Newest].frame \in Nat
          BY <1>3, <4>5 DEF ReadFacts, TypeOK, BufferType
        <5>2. b = Newest \/ f < states[Newest].frame
          BY <2>1, <2>6, <4>5, <4>6 DEF Ranked
        <5>3. states'[Newest].frame = states[Newest].frame
          BY <2>4, <2>5, <5>1
        <5> QED
          BY <2>1, <3>1, <4>6, <5>1, <5>2, <5>3
      <4>8. \A c \in Buffers : states'[c].frame = f => states'[c].complete
        <5> SUFFICES ASSUME NEW c \in Buffers, states'[c].frame = f, c # b PROVE states'[c].complete
          BY <4>6
        <5>1. states'[c] = states[c]
          BY <2>5
        <5>2. Blank(states[c])
          BY <2>1, <2>6, <4>5, <4>6, <5>1 DEF Ranked
        <5> QED
          BY <5>1, <5>2 DEF Blank
      <4>9. PICK x : x = Readable'
        OBVIOUS
      <4>10. states'[x].shows >= f
        <5>1. states'[b].shows <= states'[x].shows /\ x \in Buffers
          BY <2>1, <4>5, <4>6, <4>9 DEF Ranked, ReadFacts
        <5>2. states'[x].shows \in Int /\ f \in Int
          BY <2>1, <2>5, <3>1, <5>1 DEF BufferType, None
        <5> QED
          BY <4>6, <5>1, <5>2
      <4>11. Over(f)'
        BY <4>4, <4>7, <4>8, <4>9, <4>10 DEF Over
      <4> QED
        BY <4>3, <4>11
    <3>3. Telling(nq) => Untold(nq.frame)' /\ Over(nq.frame)'
      BY <1>4, <3>1, <3>2 DEF Untold, MainThrough, Over
    <3> QED
      BY <1>4, <3>3 DEF MotionTells, Telling
  <2>12. ASSUME ~scarce', ~crossed' PROVE PIDsInv'
    <3>1. PIDsInv
      BY <1>2, <2>12 DEF HistoryInv
    <3>2. HasPIDs(q, states, pidsSent) /\ states[Readable].pids = pidsSent
      BY <3>1 DEF PIDsInv
    <3>3. \A c \in Buffers : states'[c].pids = states[c].pids
      BY <2>4, <2>5
    <3>4. ReadFacts /\ ReadFacts'
      BY <1>9, <2>12, ReadLast, PrimedFacts
    <3>5. PICK x : x = Readable'
      OBVIOUS
    <3>6. x \in Buffers /\ states'[x].complete
      BY <3>4, <3>5 DEF ReadFacts
    <3>7. states'[x].pids = pidsSent
      <4>1. CASE states[x].complete
        <5>1. states'[Readable].complete
          BY <2>3, <2>4, <2>5, <3>4 DEF ReadFacts
        <5>2. Precedes(order', Readable, Readable') => Precedes(order, Readable, Readable')
          BY <1>2
        <5>3. Readable' = Readable
          BY <1>9, <2>12, <3>5, <4>1, <5>1, <5>2, SameReadable DEF HistoryInv
        <5> QED
          BY <3>2, <3>3, <3>5, <3>6, <5>3
      <4>2. CASE ~states[x].complete
        <5>1. x = b /\ q.complete
          BY <2>3, <2>4, <2>5, <3>6, <4>2
        <5> QED
          BY <1>2, <3>2, <3>3, <3>6, <5>1 DEF HasPIDs
      <4> QED
        BY <4>1, <4>2
    <3>8. HasPIDs(nq, states', pidsSent)
      BY <1>3, <1>4, <3>2, <3>3 DEF HasPIDs, ProcType
    <3> QED
      BY <1>2, <1>5, <2>12, <3>2, <3>3, <3>5, <3>7, <3>8, KeptPIDs
  <2> QED
    BY <1>2, <1>5, <1>6, <2>1, <2>8, <2>9, <2>10, <2>11, <2>12, WriteHistory
<1> QED
  BY <1>7, <1>8, <1>9

-------------------------------------------------------------------------------
(* The step that gives a buffer to a frame                                  *)

\* The buffer that is chosen has the frame already, or gets it as its newest.
LEMMA Chosen ==
  ASSUME TypeOK, NEW f \in Nat, NEW b, b = selectWriteState(f), b # None
  PROVE  /\ b \in Buffers
         /\ \/ b = Newest /\ states[b].frame = f
            \/ states[b].frame < f /\ states[Newest].frame < f
<1>1. Newest \in Buffers /\ \A c \in Buffers : states[c].frame \in Nat
  BY OrderFacts DEF TypeOK, BufferType
<1>2. \A S : Oldest(f, S) = None \/ (Oldest(f, S) \in Buffers /\ states[Oldest(f, S)].frame < f)
  BY OldestFacts
<1>3. /\ ~Overtaken(f)
      /\ \/ b = Newest /\ states[b].frame = f
         \/ states[Newest].frame # f /\ \E S : b = Oldest(f, S)
  BY DEF selectWriteState, Unused
<1>4. states[Newest].frame <= f
  BY <1>1, <1>3 DEF Overtaken
<1> QED
  BY <1>1, <1>2, <1>3, <1>4

\* b has been moved to the back with the frame f.
Promoted(b, f) ==
  /\ b \in Buffers /\ f \in Nat
  /\ states' \in [Buffers -> BufferType]
  /\ order' = Append(RemoveFirst(order, b), b)
  /\ \A c \in Buffers : states'[c].shows = states[c].shows /\ states'[c].pids = states[c].pids
  /\ \A c \in Buffers \ {b} :
       /\ states'[c].frame = states[c].frame /\ states'[c].status = states[c].status
       /\ states'[c].complete = states[c].complete
  /\ states'[b].frame = f
  /\ \/ /\ b = Newest /\ states[b].frame = f
        /\ states'[b].status = states[b].status /\ states'[b].complete = states[b].complete
     \/ /\ states[Newest].frame < f /\ states'[b].status = {} /\ ~states'[b].complete
        /\ b # Readable /\ \A r \in Processes : ~(Has(proc[r]) /\ proc[r].buf = b)

LEMMA PromotedFacts ==
  ASSUME IInv, IInv', HistoryInv, ~scarce, ~scarce', NEW b, NEW f, Promoted(b, f)
  PROVE  /\ SortedInv' /\ Readable' = Readable
         /\ \A c \in Buffers : Blank(states'[c]) => Blank(states[c])
         /\ ~Blank(states'[b])
         /\ \A g \in Int : Over(g) => Over(g)'
<1>1. b \in Buffers /\ f \in Nat /\ TypeOK /\ Distinct(order) /\ SortedInv
  BY Basics DEF Promoted, IInv, HistoryInv
<1>2. /\ Newest' = b
      /\ \A a, c \in Buffers : Precedes(order', a, c) => a # b /\ (c = b \/ Precedes(order, a, c))
  BY <1>1, MovedToBack DEF Promoted
<1>3. Ranked /\ ReadFacts /\ ReadFacts'
  BY <1>1, RankedFacts, ReadLast, PrimedFacts
<1>4. \A c \in Buffers : states[c].frame \in Nat /\ states[c].shows \in Int
  BY <1>1 DEF TypeOK, BufferType, None
<1>5. Newest \in Buffers /\ Readable \in Buffers
  BY <1>3 DEF ReadFacts
<1>6. order \in Seq(Buffers) /\ ToSet(order) = Buffers /\ order # << >> /\ Newest = Last(order)
  <2>1. Len(order) # 0
    BY <1>1, OrderFacts
  <2>2. order # << >>
    BY <2>1, EmptySeq
  <2> QED
    BY <1>1, <2>2 DEF Newest, TypeOK
<1>7. ~Blank(states'[b])
  BY <1>1 DEF Promoted, SortedInv, Blank
<1>8. \A c \in Buffers : Blank(states'[c]) => Blank(states[c]) /\ states'[c].frame = states[c].frame
  BY <1>7 DEF Promoted, Blank
<1>9. \A c \in Buffers : Blank(states[c]) /\ c # b => Blank(states'[c])
  BY DEF Promoted, Blank
<1>10. states[Newest].frame <= f
  BY <1>1, <1>4, <1>5 DEF Promoted
<1>11. ASSUME NEW a \in Buffers, NEW c \in Buffers, Precedes(order', a, c)
       PROVE  Blank(states'[a]) \/ (~Blank(states'[c]) /\ states'[a].frame < states'[c].frame)
  <2>1. a # b /\ (c = b \/ Precedes(order, a, c)) /\ states'[a].frame = states[a].frame
    BY <1>2, <1>11 DEF Promoted
  <2>2. CASE c # b
    <3>1. Blank(states[a]) \/ (~Blank(states[c]) /\ states[a].frame < states[c].frame)
      BY <1>1, <2>1, <2>2 DEF SortedInv
    <3>2. states'[c].frame = states[c].frame
      BY <2>2 DEF Promoted
    <3> QED
      BY <1>8, <1>9, <2>1, <3>1, <3>2
  <2>3. CASE c = b
    <3>1. CASE b = Newest /\ states[b].frame = f
      <4>1. Precedes(order, a, Newest)
        BY <1>5, <1>6, <2>1, <3>1, NewestFacts
      <4>2. Blank(states[a]) \/ states[a].frame < f
        BY <1>1, <1>5, <3>1, <4>1 DEF SortedInv
      <4> QED
        BY <1>7, <1>9, <2>1, <2>3, <4>2 DEF Promoted
    <3>2. CASE states[Newest].frame < f
      <4>1. Blank(states[a]) \/ states[a].frame <= states[Newest].frame
        BY <1>3, <1>4, <1>5 DEF Ranked
      <4>2. Blank(states[a]) \/ states[a].frame < f
        BY <1>1, <1>4, <1>5, <3>2, <4>1
      <4> QED
        BY <1>7, <1>9, <2>1, <2>3, <4>2 DEF Promoted
    <3> QED
      BY <3>1, <3>2 DEF Promoted
  <2> QED
    BY <2>2, <2>3
<1>12. SortedInv'
  <2>1. \A c \in Buffers : Blank(states'[c]) => states'[c].frame = 0
    BY <1>1, <1>8 DEF SortedInv
  <2> QED
    BY <1>2, <1>7, <1>11, <2>1 DEF SortedInv
<1>13. Readable' = Readable
  <2>1. PICK x : x = Readable'
    OBVIOUS
  <2>2. states'[x].complete /\ x \in Buffers
    BY <1>3, <2>1 DEF ReadFacts
  <2>3. states'[Readable].complete
    BY <1>3, <1>5 DEF ReadFacts, Promoted
  <2>4. states[x].complete
    BY <2>2 DEF Promoted
  <2>5. Precedes(order', Readable, x) => Precedes(order, Readable, x)
    <3> SUFFICES ASSUME Precedes(order', Readable, x) PROVE Precedes(order, Readable, x)
      OBVIOUS
    <3>1. Readable # b /\ (x = b \/ Precedes(order, Readable, x))
      BY <1>2, <1>5, <2>2
    <3>2. CASE x = b
      <4>1. b = Newest
        BY <2>2, <3>2 DEF Promoted
      <4> QED
        BY <1>5, <1>6, <3>1, <3>2, <4>1, NewestFacts
    <3> QED
      BY <3>1, <3>2
  <2> QED
    BY <1>1, <2>1, <2>3, <2>4, <2>5, SameReadable
<1>14. ASSUME NEW g \in Int, Over(g) PROVE Over(g)'
  <2>1. g <= states[Newest].frame /\ states[Newest].frame \in Nat
    BY <1>4, <1>5, <1>14 DEF Over
  <2>2. g <= states'[b].frame
    BY <1>1, <1>10, <2>1 DEF Promoted
  <2>3. ASSUME NEW c \in Buffers, states'[c].frame = g PROVE states'[c].complete
    <3>1. CASE c # b \/ (b = Newest /\ states[b].frame = f /\ states'[b].complete = states[b].complete)
      <4>1. states[c].frame = g /\ states'[c].complete = states[c].complete
        BY <2>3, <3>1 DEF Promoted
      <4> QED
        BY <1>14, <4>1 DEF Over
    <3>2. CASE c = b /\ states[Newest].frame < f
      BY <1>1, <2>1, <2>3, <3>2 DEF Promoted
    <3> QED
      BY <3>1, <3>2 DEF Promoted
  <2>4. states'[Readable].shows >= g
    BY <1>5, <1>14 DEF Over, Promoted
  <2> QED
    BY <1>2, <1>13, <2>2, <2>3, <2>4 DEF Over
<1> QED
  BY <1>7, <1>8, <1>12, <1>13, <1>14

LEMMA SelectHistory ==
  ASSUME IInv, IInv', HistoryInv, NEW p \in Processes, getCurrentWriteState(p)
  PROVE  HistoryInv'
<1> DEFINE q == proc[p]
           f == q.frame
<1>1. PICK b : b = selectWriteState(f)
  OBVIOUS
<1> DEFINE needed == states[b].frame # f /\ (states[b].writing > 0 \/ b = Readable)
           r == Renewed(states[b], f)
<1>2. /\ q.pc = "select" /\ UNCHANGED <<sent, feedback, pidsSent, announced, again, crossed>>
      /\ \/ b = None /\ Goto(p, "got") /\ scarce' = (scarce \/ ~Overtaken(f)) /\ UNCHANGED <<order, states>>
         \/ /\ b # None /\ order' = Append(RemoveFirst(order, b), b)
            /\ states' = [states EXCEPT ![b] = [r EXCEPT !.writing = r.writing + 1]]
            /\ proc' = [proc EXCEPT ![p] = [q EXCEPT !.pc = "lock", !.buf = b]]
            /\ scarce' = (scarce \/ needed)
  BY <1>1 DEF getCurrentWriteState, At
<1>3. q \in ProcType /\ Where(q) /\ TypeOK
  BY Basics
<1>4. q.buf = None /\ q.src # None /\ ~q.complete /\ q.status = {} /\ f \in Nat
  BY <1>2, <1>3, Basics DEF Where
<1>5. ~Working(q)
  BY <1>2 DEF Working, Holds
<1>6. PIDsInv => HasPIDs(q, states, pidsSent)
  BY DEF PIDsInv
<1>7. CASE b = None
  <2>1. PICK nq : nq = [q EXCEPT !.pc = "got"]
    OBVIOUS
  <2>2. /\ nq \in ProcType /\ nq.pc = "got" /\ nq.src = q.src /\ nq.buf = None /\ nq.got = q.got
        /\ nq.frame = f /\ ~nq.complete /\ proc' = [proc EXCEPT ![p] = nq]
    BY <1>2, <1>3, <1>4, <1>7, <2>1 DEF ProcType, Labels, Goto
  <2>3. scarce => scarce'
    <3>1. scarce' = (scarce \/ ~Overtaken(f))
      BY <1>2, <1>7
    <3> QED
      BY <3>1, Zenon
  <2>4. SameData /\ \A c \in Buffers : states'[c].pids = states[c].pids
    BY <1>2, <1>7, NoReading, SameBuffersData
  <2>5. Turns(p, nq)
    BY <1>2, <2>2, <2>3, SameRequest DEF Active
  <2>6. Where(nq)
    BY <2>2, Afterwards
  <2>7. Task(nq, states) /\ Begun(nq) /\ MotionTells(nq) /\ MainTells(nq)
    BY <2>2, NothingInHand
  <2>8. PIDsInv => HasPIDs(nq, states, pidsSent)
    BY <1>6, <2>2 DEF HasPIDs
  <2>9. ~scarce' /\ ~crossed' => PIDsInv'
    BY <1>2, <2>2, <2>4, <2>5, <2>6, <2>8, QuietPIDs
  <2> QED
    BY <1>2, <1>5, <2>4, <2>5, <2>6, <2>7, <2>9, QuietHistory
<1>8. CASE b # None
  <2>1. PICK nq : nq = [q EXCEPT !.pc = "lock", !.buf = b]
    OBVIOUS
  <2>2. /\ b \in Buffers
        /\ \/ b = Newest /\ states[b].frame = f
           \/ states[b].frame < f /\ states[Newest].frame < f
    BY <1>1, <1>3, <1>4, <1>8, Chosen
  <2>3. /\ nq \in ProcType /\ nq.pc = "lock" /\ nq.src = q.src /\ nq.buf = b /\ nq.got = q.got
        /\ nq.frame = f /\ ~nq.complete /\ proc' = [proc EXCEPT ![p] = nq]
    BY <1>2, <1>3, <1>4, <1>8, <2>1, <2>2 DEF ProcType, Labels
  <2>4. (scarce => scarce') /\ (~scarce' => ~needed)
    <3>1. scarce' = (scarce \/ needed)
      BY <1>2, <1>8
    <3> HIDE DEF needed
    <3> QED
      BY <3>1, Zenon
  <2>5. Turns(p, nq)
    BY <1>2, <2>3, <2>4, SameRequest DEF Active
  <2>6. /\ proc'[p] = nq /\ \A x \in Processes \ {p} : proc'[x] = proc[x]
        /\ \A x \in Processes : proc[x] \in ProcType /\ proc'[x] \in ProcType /\ Where(proc[x])
        /\ RoleInv'
    BY <2>5, TurnFacts
  <2>7. Distinct(order')
    BY <1>2, <1>3, <1>8, <2>2, MovedToBack DEF HistoryInv
  <2>8. ASSUME ~scarce'
        PROVE  /\ SortedInv' /\ TaskInv' /\ BegunInv' /\ ToldInv' /\ TellInv'
               /\ ~crossed' => PIDsInv'
    <3>1. ~scarce /\ TaskInv /\ BegunInv /\ TellInv /\ ~needed
      BY <2>4, <2>8 DEF HistoryInv
    <3>2. /\ r \in BufferType /\ r.frame = f /\ r.shows = states[b].shows /\ r.pids = states[b].pids
          /\ r.complete = (IF states[b].frame = f THEN states[b].complete ELSE FALSE)
          /\ r.status = IF states[b].frame = f THEN states[b].status ELSE {}
      <4>1. states[b] \in BufferType
        BY <1>3, <2>2 DEF TypeOK
      <4>2. CASE states[b].frame = f
        BY <4>1, <4>2 DEF Renewed
      <4>3. CASE states[b].frame # f
        <5>1. r = [states[b] EXCEPT !.frame = f, !.status = {}, !.complete = FALSE]
          BY <4>3 DEF Renewed
        <5> HIDE DEF r
        <5> QED
          BY <1>4, <4>1, <4>3, <5>1 DEF BufferType
      <4> QED
        BY <4>2, <4>3
    <3> HIDE DEF r
    <3>3. PICK s : s = [r EXCEPT !.writing = r.writing + 1]
      OBVIOUS
    <3>4. /\ s \in BufferType /\ s.frame = f /\ s.shows = states[b].shows /\ s.pids = states[b].pids
          /\ s.complete = (IF states[b].frame = f THEN states[b].complete ELSE FALSE)
          /\ s.status = IF states[b].frame = f THEN states[b].status ELSE {}
      <4>1. r.writing + 1 \in Nat
        BY <3>2 DEF BufferType
      <4> QED
        BY <3>2, <3>3, <4>1 DEF BufferType
    <3>5. states' \in [Buffers -> BufferType] /\ \A c \in Buffers : states'[c] = IF c = b THEN s ELSE states[c]
      BY <1>2, <1>3, <1>8, <3>3, <3>4 DEF TypeOK
    <3>6. Promoted(b, f)
      <4>1. CASE states[b].frame = f
        <5>1. b = Newest
          BY <1>4, <2>2, <4>1
        <5> QED
          BY <1>2, <1>4, <1>8, <2>2, <3>4, <3>5, <4>1, <5>1 DEF Promoted
      <4>2. CASE states[b].frame # f
        <5>1. states[Newest].frame < f /\ b # Readable /\ ~(states[b].writing > 0)
          BY <2>2, <3>1, <4>2
        <5>2. \A x \in Processes : ~(Has(proc[x]) /\ proc[x].buf = b)
          BY <5>1, CountPositive
        <5> QED
          BY <1>2, <1>4, <1>8, <2>2, <3>4, <3>5, <4>2, <5>1, <5>2 DEF Promoted
      <4> QED
        BY <4>1, <4>2
    <3>7. /\ SortedInv' /\ Readable' = Readable
          /\ \A c \in Buffers : Blank(states'[c]) => Blank(states[c])
          /\ ~Blank(states'[b])
          /\ \A g \in Int : Over(g) => Over(g)'
      BY <2>8, <3>1, <3>6, PromotedFacts
    <3>8. (\A g : Untold(g) => Untold(g)') /\ ToldInv'
      BY <1>2, <2>5, <3>1, UntoldStays
    <3>9. TaskInv'
      <4>1. ASSUME NEW x \in Processes \ {p} PROVE Task(proc[x], states')
        <5>1. Task(proc[x], states)
          BY <3>1 DEF TaskInv
        <5>2. proc[x].buf # None => proc[x].buf \in Buffers
          BY <2>6 DEF ProcType
        <5>3. Has(proc[x]) => /\ states'[proc[x].buf].complete = states[proc[x].buf].complete
                              /\ states'[proc[x].buf].status = states[proc[x].buf].status
          BY <3>6, <5>2 DEF Promoted, Has
        <5>4. Working(proc[x]) \/ (proc[x].buf # None /\ proc[x].pc = "done") => Has(proc[x])
          BY DEF Working, Holds, Has
        <5>5. Has(proc[x]) => ~Blank(states'[proc[x].buf])
          BY <3>7, <5>1, <5>2 DEF Task, Has
        <5> QED
          BY <5>1, <5>3, <5>4, <5>5 DEF Task
      <4>2. Task(nq, states')
        BY <2>3, <3>7 DEF Task, Working, Holds
      <4>3. \A x \in Processes : Task(proc'[x], states')
        BY <2>6, <4>1, <4>2
      <4> QED
        BY <4>3 DEF TaskInv, Task, Has, Working, Holds
    <3>10. BegunInv'
      <4>1. ~Working(nq)
        BY <2>3 DEF Working, Holds
      <4>2. ASSUME NEW x \in Processes, Working(proc'[x]), SENSORS_APPLIED \in proc'[x].status,
                   ~proc'[x].complete
            PROVE  Untold(proc[x].frame)'
        <5>1. PICK g : g = proc'[x].frame
          OBVIOUS
        <5>2. Untold(g)
          BY <2>6, <3>1, <4>1, <4>2, <5>1 DEF BegunInv, Begun
        <5>3. Untold(g)'
          BY <3>8, <5>2
        <5> QED
          BY <5>1, <5>3 DEF Untold, MainThrough
      <4>3. ASSUME NEW c \in Buffers, \A x \in Processes : Working(proc'[x]) => proc'[x].buf # c,
                   SENSORS_APPLIED \in states'[c].status, ~states'[c].complete
            PROVE  Untold(states[c].frame)'
        <5>1. \A x \in Processes : Working(proc[x]) => proc[x].buf # c
          BY <1>5, <2>6, <4>3
        <5>2. /\ states'[c].frame = states[c].frame /\ states'[c].status = states[c].status
              /\ states'[c].complete = states[c].complete
          BY <3>6, <4>3 DEF Promoted
        <5>3. PICK g : g = states[c].frame
          OBVIOUS
        <5>4. Untold(g)
          BY <3>1, <4>3, <5>1, <5>2, <5>3 DEF BegunInv
        <5>5. Untold(g)'
          BY <3>8, <5>4
        <5> QED
          BY <5>2, <5>3, <5>5 DEF Untold, MainThrough
      <4> QED
        BY <4>2, <4>3, Zenon DEF BegunInv, Begun, Working, Holds
    <3>11. TellInv'
      <4>1. PICK m, a : m = proc'["Motion"] /\ a = proc'["Main"]
        OBVIOUS
      <4>2. m \in ProcType /\ a \in ProcType /\ "Main" \in Processes /\ "Motion" \in Processes
        BY <2>6, <4>1 DEF Processes
      <4>3. MotionTells(m) /\ MainTells(a)
        <5>1. MotionTells(nq) /\ MainTells(nq)
          BY <2>3 DEF MotionTells, Telling, MainTells
        <5>2. MotionTells(proc["Motion"]) /\ MainTells(proc["Main"])
          BY <3>1 DEF TellInv
        <5> QED
          BY <2>6, <4>1, <4>2, <5>1, <5>2
      <4>4. m.frame \in Int
        BY <4>2 DEF ProcType, None
      <4>5. MotionTells(m)'
        BY <3>7, <3>8, <4>3, <4>4 DEF MotionTells, Telling
      <4>6. Where(a)
        <5>1. Where(nq)
          BY <2>3, Afterwards
        <5> QED
          BY <2>6, <4>1, <4>2, <5>1
      <4>7. a.pc = "post" => a.state \in Buffers
        BY <4>2, <4>6 DEF Where, ProcType
      <4>8. MainTells(a)'
        <5>1. Readable \in Buffers
          BY Basics
        <5>2. /\ states'[Readable].shows = states[Readable].shows
              /\ a.pc = "post" => states'[a.state].shows = states[a.state].shows
          BY <3>6, <4>7, <5>1 DEF Promoted
        <5> QED
          BY <3>7, <4>3, <5>2 DEF MainTells
      <4> QED
        BY <4>1, <4>5, <4>8 DEF TellInv, MotionTells, MainTells, Telling
    <3>12. ASSUME ~crossed' PROVE PIDsInv'
      <4>1. PIDsInv
        BY <1>2, <3>1, <3>12 DEF HistoryInv
      <4>2. HasPIDs(q, states, pidsSent) /\ states[Readable].pids = pidsSent /\ Readable \in Buffers
        BY <4>1, Basics DEF PIDsInv
      <4>3. \A c \in Buffers : states'[c].pids = states[c].pids
        BY <3>6 DEF Promoted
      <4>4. q.src \in Buffers
        BY <1>3, <1>4 DEF ProcType
      <4>5. HasPIDs(nq, states', pidsSent)
        BY <1>4, <2>3, <4>2, <4>3, <4>4 DEF HasPIDs
      <4> QED
        BY <1>2, <2>5, <2>8, <3>7, <3>12, <4>2, <4>3, <4>5, KeptPIDs
    <3> QED
      BY <3>7, <3>8, <3>9, <3>10, <3>11, <3>12
  <2> QED
    BY <2>6, <2>7, <2>8 DEF HistoryInv
<1> QED
  BY <1>7, <1>8

-------------------------------------------------------------------------------
(* The step that announces a frame, and those that do nothing here         *)

LEMMA PostHistory ==
  ASSUME IInv, IInv', HistoryInv, NEW p \in Processes, post(p)
  PROVE  HistoryInv'
<1> DEFINE q == proc[p]
           label == IF q.src = None THEN "leave" ELSE "release"
<1>1. PICK nq : nq = [q EXCEPT !.pc = label]
  OBVIOUS
<1>2. PICK f : f = q.frame
  OBVIOUS
<1>3. /\ q.pc = "post" /\ proc' = [proc EXCEPT ![p] = nq]
      /\ again' = (again \/ f \in announced) /\ announced' = announced \cup {f}
      /\ UNCHANGED <<sent, feedback, pidsSent, order, states, scarce, crossed>>
  BY <1>1, <1>2 DEF post, At, Goto
<1>4. q \in ProcType /\ Where(q) /\ TypeOK /\ label \in Labels /\ f \in Nat
  BY <1>2, <1>3, Basics DEF Labels
<1>5. /\ nq \in ProcType /\ nq.pc = label /\ nq.src = q.src /\ nq.buf = q.buf /\ nq.got = q.got
      /\ nq.frame = f /\ nq.complete = q.complete /\ nq.status = q.status /\ nq.state = q.state
      /\ nq.partial = q.partial
  BY <1>1, <1>2, <1>4 DEF ProcType
<1>6. p = "Motion" => label = "leave"
  BY <1>3 DEF HistoryInv, RoleInv
<1>7. Turns(p, nq)
  BY <1>2, <1>3, <1>5, <1>6, SameRequest DEF Active
<1>8. CASE scarce
  BY <1>3, <1>7, <1>8, ScarceHistory
<1>9. CASE ~scarce
  <2>1. /\ TaskInv /\ BegunInv /\ ToldInv /\ TellInv /\ RoleInv /\ Task(q, states) /\ ~scarce'
        /\ \A x \in Processes : Writer(proc[x], states, LastFrame)
    BY <1>3, <1>9, Basics DEF HistoryInv, TaskInv
  <2>2. /\ proc'[p] = nq /\ \A x \in Processes \ {p} : proc'[x] = proc[x]
        /\ \A x \in Processes : proc[x] \in ProcType /\ proc'[x] \in ProcType /\ Where(proc[x])
        /\ \A g : MainThrough(g) => MainThrough(g)'
        /\ RoleInv'
    BY <1>7, TurnFacts
  <2>3. SameData /\ \A c \in Buffers : states'[c].pids = states[c].pids
    BY <1>3, NoReading, SameBuffersData
  <2>4. Where(nq)
    BY <1>3, <1>5, Afterwards
  <2>5. /\ SortedInv' /\ Readable' = Readable /\ Distinct(order')
        /\ \A x \in ProcType : Where(x) => (Task(x, states) <=> Task(x, states'))
        /\ \A g : Over(g) => Over(g)'
    BY <1>9, <2>1, <2>3, SameDataFacts
  <2>6. p = "Main" => /\ ~MainThrough(f) /\ MainThrough(f)'
                      /\ q.src # None => q.complete
    <3> SUFFICES ASSUME p = "Main"
                 PROVE  ~MainThrough(f) /\ MainThrough(f)' /\ (q.src # None => q.complete)
      OBVIOUS
    <3>1. q.pc \in Active /\ q.frame = f
      BY <1>2, <1>3 DEF Active
    <3>2. f < q.got /\ q.got \in Nat
      BY <1>4, <2>1, <3>1 DEF RoleInv, ProcType
    <3>3. f \in 0 .. q.got - 1
      BY <1>4, <3>2
    <3>4. MainThrough(f)'
      BY <1>5, <2>2, <3>3 DEF MainThrough, Active
    <3>5. q.src # None => q.complete
      BY <1>3, <2>1 DEF TellInv, MainTells
    <3> QED
      BY <3>1, <3>4, <3>5 DEF MainThrough
  <2>7. p = "Motion" => Untold(f) /\ Over(f)
    BY <1>2, <1>3, <2>1 DEF TellInv, MotionTells, Telling
  <2>8. f \notin announced /\ MainThrough(f)'
    BY <2>1, <2>2, <2>6, <2>7 DEF ToldInv, Untold, Processes
  <2>9. ToldInv'
    BY <1>3, <2>1, <2>2, <2>8 DEF ToldInv
  <2>10. \A g : Untold(g) /\ (p = "Main" \/ g # f) => Untold(g)'
    BY <1>3, <2>2, <2>6 DEF Untold
  <2>11. TaskInv'
    <3>1. Task(nq, states)
      <4>1. label = "leave" => q.buf = None /\ ~q.complete
        BY <1>4 DEF Where
      <4>2. CASE label = "leave"
        BY <1>5, <4>1, <4>2 DEF Task, Has, Working, Holds
      <4>3. CASE label = "release"
        BY <1>3, <1>5, <2>1, <4>3 DEF Task, Has, Working, Holds
      <4> QED
        BY <4>2, <4>3
    <3>2. \A x \in Processes : Task(proc'[x], states')
      BY <1>5, <2>1, <2>2, <2>4, <2>5, <3>1 DEF TaskInv
    <3> QED
      BY <3>2 DEF TaskInv, Task, Has, Working, Holds
  <2>12. BegunInv'
    <3>1. ASSUME NEW x \in Processes, Working(proc'[x]), SENSORS_APPLIED \in proc'[x].status,
                 ~proc'[x].complete
          PROVE  Untold(proc[x].frame)'
      <4>1. PICK y, g : y = proc'[x] /\ g = y.frame
        OBVIOUS
      <4>2. CASE x = p
        <5>1. y = nq /\ q.src # None
          BY <1>5, <2>2, <3>1, <4>1, <4>2 DEF Working, Holds
        <5>2. p = "Main"
          BY <1>5, <1>6, <3>1, <4>1, <5>1 DEF Working, Holds, Processes
        <5> QED
          BY <1>5, <2>6, <3>1, <4>1, <5>1, <5>2
      <4>3. CASE x # p
        <5>1. y = proc[x] /\ Untold(g)
          BY <2>1, <2>2, <3>1, <4>1, <4>3 DEF BegunInv, Begun
        <5>2. p = "Motion" => g # f
          <6>1. y.buf \in Buffers /\ Has(y)
            BY <2>2, <3>1, <4>1, <5>1 DEF Working, Holds, Has, ProcType
          <6>2. ~states[y.buf].complete /\ states[y.buf].frame = g
            BY <2>1, <3>1, <4>1, <5>1, <6>1 DEF TaskInv, Task, Writer
          <6> QED
            BY <2>7, <6>1, <6>2 DEF Over
        <5>3. Untold(g)'
          BY <2>10, <5>1, <5>2 DEF Processes
        <5> QED
          BY <4>1, <5>3 DEF Untold, MainThrough
      <4> QED
        BY <4>2, <4>3
    <3>2. ASSUME NEW c \in Buffers, \A x \in Processes : Working(proc'[x]) => proc'[x].buf # c,
                 SENSORS_APPLIED \in states'[c].status, ~states'[c].complete
          PROVE  Untold(states[c].frame)'
      <4>1. Working(q) => Working(nq) /\ nq.buf = q.buf
        BY <1>4, <1>5 DEF Working, Holds, Where
      <4>2. \A x \in Processes : Working(proc[x]) => proc[x].buf # c
        BY <2>2, <3>2, <4>1
      <4>3. PICK g : g = states[c].frame
        OBVIOUS
      <4>4. states' = states
        BY <1>3
      <4>5. Untold(g)
        BY <2>1, <3>2, <4>2, <4>3, <4>4 DEF BegunInv
      <4>6. p = "Motion" => g # f
        BY <2>7, <3>2, <4>3, <4>4 DEF Over
      <4>7. Untold(g)'
        BY <2>10, <4>5, <4>6 DEF Processes
      <4> QED
        BY <4>3, <4>4, <4>7 DEF Untold, MainThrough
    <3> QED
      BY <3>1, <3>2, Zenon DEF BegunInv, Begun, Working, Holds
  <2>13. TellInv'
    <3>1. PICK m, a : m = proc'["Motion"] /\ a = proc'["Main"]
      OBVIOUS
    <3>2. MotionTells(proc["Motion"]) /\ MainTells(proc["Main"])
      BY <2>1 DEF TellInv
    <3>3. MotionTells(m)'
      <4>1. CASE p = "Main"
        <5>1. MotionTells(m)
          BY <2>2, <3>1, <3>2, <4>1 DEF Processes
        <5> QED
          BY <2>5, <2>10, <4>1, <5>1 DEF MotionTells, Telling
      <4>2. CASE p = "Motion"
        <5>1. m.pc = "leave"
          BY <1>5, <1>6, <2>2, <3>1, <4>2
        <5> QED
          BY <5>1 DEF MotionTells, Telling
      <4> QED
        BY <4>1, <4>2 DEF Processes
    <3>4. MainTells(a)'
      <4>1. CASE p = "Main"
        <5>1. a.pc \in {"leave", "release"}
          BY <1>5, <2>2, <3>1, <4>1
        <5> QED
          BY <5>1 DEF MainTells
      <4>2. CASE p = "Motion"
        <5>1. MainTells(a)
          BY <2>2, <3>1, <3>2, <4>2 DEF Processes
        <5> QED
          BY <1>3, <2>5, <5>1 DEF MainTells
      <4> QED
        BY <4>1, <4>2 DEF Processes
    <3> QED
      BY <3>1, <3>3, <3>4 DEF TellInv, MotionTells, MainTells, Telling
  <2>14. ~scarce' /\ ~crossed' => PIDsInv'
    <3>1. PIDsInv => HasPIDs(nq, states, pidsSent)
      <4>1. PIDsInv => HasPIDs(q, states, pidsSent)
        BY DEF PIDsInv
      <4> QED
        BY <1>5, <4>1 DEF HasPIDs
    <3> QED
      BY <1>3, <1>5, <2>3, <2>4, <1>7, <3>1, QuietPIDs
  <2> QED
    BY <2>2, <2>5, <2>9, <2>11, <2>12, <2>13, <2>14 DEF HistoryInv
<1> QED
  BY <1>8, <1>9

LEMMA StillHistory ==
  ASSUME HistoryInv, UNCHANGED <<pidsSent, order, states, proc, announced, again, scarce, crossed>>
  PROVE  HistoryInv'
<1>1. Readable' = Readable /\ Newest' = Newest
  BY DEF Readable, Newest, SelectLastInSeq
<1>2. SortedInv' <=> SortedInv
  BY <1>1 DEF SortedInv, Blank
<1>3. \A g : (MainThrough(g) <=> MainThrough(g)') /\ (Untold(g) <=> Untold(g)') /\ (Over(g) <=> Over(g)')
  BY <1>1 DEF MainThrough, Untold, Over
<1>4. TaskInv' <=> TaskInv
  BY DEF TaskInv, Task, Has, Working, Holds
<1>5. BegunInv' <=> BegunInv
  BY DEF BegunInv, Begun, Working, Holds, Untold, MainThrough
<1>6. ToldInv' <=> ToldInv
  BY DEF ToldInv, MainThrough
<1>7. TellInv' <=> TellInv
  BY <1>1 DEF TellInv, MotionTells, MainTells, Telling, Untold, MainThrough, Over
<1>8. PIDsInv' <=> PIDsInv
  BY <1>1 DEF PIDsInv, HasPIDs
<1>9. RoleInv' /\ Distinct(order')
  BY DEF HistoryInv, RoleInv
<1> QED
  BY <1>2, <1>4, <1>5, <1>6, <1>7, <1>8, <1>9 DEF HistoryInv

-------------------------------------------------------------------------------
(* The history holds                                                        *)

LEMMA InitHistory == Init => HistoryInv
<1> SUFFICES ASSUME Init PROVE HistoryInv
  OBVIOUS
<1>1. /\ NUM_STATES \in Nat /\ NUM_STATES >= 2 /\ Buffers = 0 .. NUM_STATES - 1
      /\ NUM_STATES - 1 \in Buffers /\ Processes = {"Main", "Motion"}
  BY Bounds DEF Buffers, Processes
<1>2. IInv
  BY InitInv
<1>3. order = [i \in 1 .. NUM_STATES |-> i - 1] /\ Len(order) = NUM_STATES
  <2>1. order = [i \in 1 .. NUM_STATES |-> i - 1] /\ DOMAIN order = 1 .. NUM_STATES
    BY DEF Init
  <2>2. Len(order) \in Nat /\ DOMAIN order = 1 .. Len(order)
    BY <1>2, Basics, OrderFacts DEF IInv
  <2> QED
    BY <1>1, <2>1, <2>2
<1>4. \A b \in Buffers : /\ states[b].frame = 0 /\ states[b].status = {} /\ states[b].shows = None
                         /\ states[b].complete = (b # NUM_STATES - 1) /\ states[b].pids = 0
  <2> SUFFICES ASSUME NEW b \in Buffers
               PROVE  /\ states[b].frame = 0 /\ states[b].status = {} /\ states[b].shows = None
                      /\ states[b].complete = (b # NUM_STATES - 1) /\ states[b].pids = 0
    OBVIOUS
  <2>1. states[b] = [frame |-> 0, reading |-> 0, writing |-> 0, status |-> {},
            complete |-> (b # NUM_STATES - 1), writeLock |-> "free", shows |-> None, pids |-> 0]
    BY DEF Init
  <2> QED
    BY <2>1
<1>5. \A p \in Processes : /\ proc[p].pc = "idle" /\ proc[p].src = None /\ proc[p].buf = None
                           /\ ~proc[p].complete /\ proc[p].status = {}
  BY DEF Init
<1>6. pidsSent = 0 /\ announced = {} /\ ~again
  BY DEF Init
<1>7. Newest = NUM_STATES - 1
  BY <1>1, <1>3 DEF Newest, Last
<1>8. Distinct(order)
  BY <1>1, <1>3 DEF Distinct
<1>9. RoleInv
  BY <1>1, <1>5 DEF RoleInv, Active
<1>10. SortedInv
  <2>1. ~Blank(states[Newest]) /\ \A b \in Buffers : Blank(states[b]) <=> b # NUM_STATES - 1
    BY <1>1, <1>4, <1>7 DEF Blank
  <2>2. ASSUME NEW a \in Buffers, NEW c \in Buffers, Precedes(order, a, c) PROVE Blank(states[a])
    <3>1. PICK i, j \in 1 .. NUM_STATES : i < j /\ i - 1 = a /\ j - 1 = c
      BY <1>3, <2>2 DEF Precedes
    <3>2. a # NUM_STATES - 1
      BY <1>1, <3>1
    <3> QED
      BY <2>1, <3>2
  <2> QED
    BY <1>4, <2>1, <2>2 DEF SortedInv
<1>11. TaskInv
  BY <1>5 DEF TaskInv, Task, Has, Working, Holds
<1>12. BegunInv
  BY <1>4, <1>5 DEF BegunInv, Begun
<1>13. ToldInv /\ TellInv
  BY <1>1, <1>5, <1>6 DEF ToldInv, TellInv, MotionTells, MainTells, Telling
<1>14. PIDsInv
  <2>1. Readable \in Buffers
    BY <1>1, <1>2, Basics
  <2> QED
    BY <1>4, <1>5, <1>6, <2>1 DEF PIDsInv, HasPIDs
<1> QED
  BY <1>8, <1>9, <1>10, <1>11, <1>12, <1>13, <1>14 DEF HistoryInv

LEMMA HistoryStep == IInv /\ IInv' /\ HistoryInv /\ [Next]_vars => HistoryInv'
<1> SUFFICES ASSUME IInv, IInv', HistoryInv, [Next]_vars PROVE HistoryInv'
  OBVIOUS
<1>1. ASSUME NEW p \in Processes, Enter(p) \/ isUnread(p) \/ poll(p) \/ Update(p)
      PROVE  HistoryInv'
  BY <1>1, EnterHistory, IsUnreadHistory, PollHistory, ResetHistory, UseSourceHistory, SelectHistory,
     LockBufferHistory, CheckHistory, BeginReadHistory, EndReadHistory, UpdatePIDsHistory,
     ReleaseHistory, DoneHistory, UnsourceHistory, PostHistory, LeaveHistory DEF Update
<1>2. CASE FrameSent \/ UNCHANGED vars
  BY <1>2, StillHistory DEF FrameSent, vars, history
<1> QED
  BY <1>1, <1>2 DEF Next

(* The invariant with its history: frames grow towards the back of the      *)
(* pool, a frame that has been begun and not completed is one that Main has *)
(* left for Motion to announce, and the last PID settings are in the buffer *)
(* that is read and in whatever will be read after it.                      *)
THEOREM History == Spec => [](IInv /\ HistoryInv)
<1>1. Init => IInv /\ HistoryInv
  BY InitInv, InitHistory
<1>2. IInv /\ HistoryInv /\ [Next]_vars => (IInv /\ HistoryInv)'
  BY InductiveStep, HistoryStep
<1> QED
  BY <1>1, <1>2, PTL DEF Spec

(* Behaviors hear of a frame once, whichever of the two processes completes *)
(* it, and what they are then given to read is that frame or a later one.   *)
THEOREM Announcing == Spec => []AnnouncedOnce
<1>1. IInv /\ HistoryInv => AnnouncedOnce
  <2> SUFFICES ASSUME IInv, HistoryInv, ~scarce PROVE AnnouncedOnce
    BY DEF AnnouncedOnce
  <2>1. ~again /\ TellInv
    BY DEF HistoryInv, ToldInv
  <2>2. ASSUME NEW p \in Processes, At(p, "post")
        PROVE  states[IF p = "Main" THEN proc[p].state ELSE Readable].shows >= proc[p].frame
    <3>1. p = "Main" => states[proc[p].state].shows >= proc[p].frame
      BY <2>1, <2>2 DEF TellInv, MainTells, At
    <3>2. p = "Motion" => states[Readable].shows >= proc[p].frame
      BY <2>1, <2>2 DEF TellInv, MotionTells, Telling, Over, At
    <3> QED
      BY <3>1, <3>2 DEF Processes
  <2> QED
    BY <2>1, <2>2 DEF AnnouncedOnce
<1> QED
  BY <1>1, History, PTL

(* PID settings outlive the frame in which they were made: the last ones    *)
(* are in the frame that is read and in the source of every writer, and a   *)
(* frame gets them from its source before it is marked complete.            *)
THEOREM PIDsKept == Spec => []PIDsCarriedOver
<1>1. IInv /\ HistoryInv => PIDsCarriedOver
  BY DEF HistoryInv, PIDsInv, PIDsCarriedOver
<1> QED
  BY <1>1, History, PTL

===============================================================================
