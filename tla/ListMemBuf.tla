----------------------------- MODULE ListMemBuf ------------------------------
(***************************************************************************)
(* ListMemBuf<T,MAX,index_t> (src/IPC/ListMemBuf.h): a doubly linked list  *)
(* with its own allocator, in one block of memory and without pointers, so *)
(* that it can live in a shared memory region.  The links are index        *)
(* numbers; a slot in the free queue uses only its next link and leaves    *)
(* prev, and next of the last free slot, as they were.                     *)
(***************************************************************************)
EXTENDS Integers, Sequences, Functions

CONSTANT MAX    \* MAX_ENTRIES

ASSUME MaxAssumption == MAX \in Nat \ {0}

VARIABLE list

Slots == 0 .. MAX - 1
End == -1
Index == Slots \cup {End}

Init == list = [next |-> [x \in Slots |-> IF x + 1 < MAX THEN x + 1 ELSE End],
                prev |-> [x \in Slots |-> End],
                activeBegin |-> End, activeBack |-> End,
                freeBegin |-> 0, freeBack |-> MAX - 1,
                cursize |-> 0,
                alive |-> {}]       \* the slots where a T is constructed

(* -------- the free queue: pop at the front, push at the back -------------*)

pop_free(l) ==
    [l EXCEPT !.freeBegin = IF @ = l.freeBack THEN End ELSE l.next[@],
              !.freeBack = IF l.freeBegin = @ THEN End ELSE @,
              !.cursize = @ + 1,
              !.alive = @ \cup {l.freeBegin}]

(* Never link the slot behind the last free one. *)
push_free_Unlinked(l, x) ==
    [l EXCEPT !.freeBegin = IF l.freeBack = End THEN x ELSE @,
              !.freeBack = x,
              !.cursize = @ - 1,
              !.alive = @ \ {x}]

push_free(l, x) ==
    [l EXCEPT !.freeBegin = IF l.freeBack = End THEN x ELSE @,
              !.next = IF l.freeBack = End THEN @ ELSE [@ EXCEPT ![l.freeBack] = x],
              !.freeBack = x,
              !.cursize = @ - 1,
              !.alive = @ \ {x}]

(* --------------------------- insertion ---------------------------------- *)

(* Give entries[x].prev (or .next) the value v; at an end of the list the  *)
(* code changes activeBegin or activeBack instead.                         *)
SetPrev(l, x, v) == IF x = End THEN [l EXCEPT !.activeBack = v]
                               ELSE [l EXCEPT !.prev[x] = v]
SetNext(l, x, v) == IF x = End THEN [l EXCEPT !.activeBegin = v]
                               ELSE [l EXCEPT !.next[x] = v]

(* new_front() when a slot t is free. *)
new_front(l) ==
    LET t == l.freeBegin
        m == pop_free(l)
    IN  [SetPrev([m EXCEPT !.prev[t] = End, !.next[t] = m.activeBegin],
                 m.activeBegin, t) EXCEPT !.activeBegin = t]

new_back(l) ==
    LET t == l.freeBegin
        m == pop_free(l)
    IN  [SetNext([m EXCEPT !.prev[t] = m.activeBack, !.next[t] = End],
                 m.activeBack, t) EXCEPT !.activeBack = t]

new_before(l, x) ==
    IF x = End THEN new_back(l)
    ELSE IF l.prev[x] = End THEN new_front(l)
    ELSE LET t == l.freeBegin
             m == pop_free(l)
         IN  [m EXCEPT !.next[t] = x, !.prev[t] = m.prev[x],
                       !.prev[x] = t, !.next[m.prev[x]] = t]

next(l, x) == IF x = End THEN l.activeBegin ELSE l.next[x]
prev(l, x) == IF x = End THEN l.activeBack ELSE l.prev[x]

(* On the wrong side of it. *)
new_after_Before(l, x) == new_before(l, x)

new_after(l, x) == new_before(l, next(l, x))

(* ---------------------------- removal ----------------------------------- *)

pop_front(l) ==
    LET t == l.activeBegin
        n == l.next[t]
    IN  push_free([SetPrev(l, n, End) EXCEPT !.activeBegin = n], t)

pop_back(l) ==
    LET t == l.activeBack
        p == l.prev[t]
    IN  push_free([SetNext(l, p, End) EXCEPT !.activeBack = p], t)

erase(l, x) ==
    IF x = l.activeBegin THEN pop_front(l)
    ELSE IF x = l.activeBack THEN pop_back(l)
    ELSE push_free([l EXCEPT !.prev[l.next[x]] = l.prev[x],
                             !.next[l.prev[x]] = l.next[x]], x)

(* Follow a link from a first slot, MAX steps at most. *)
Chain(first, link) ==
    LET walk[n \in 0 .. MAX] ==
            IF n = 0 THEN << >>
            ELSE LET s == walk[n - 1]
                     x == IF s = << >> THEN first ELSE link[s[Len(s)]]
                 IN  IF x = End THEN s ELSE Append(s, x)
    IN  walk[MAX]

(* clear() destroys what it meets walking from activeBegin. *)
clear(l) ==
    IF l.cursize = 0 THEN l
    ELSE [l EXCEPT !.alive = @ \ Range(Chain(l.activeBegin, l.next)),
                   !.next = IF l.freeBack = End THEN @
                            ELSE [@ EXCEPT ![l.freeBack] = l.activeBegin],
                   !.freeBegin = IF l.freeBack = End THEN l.activeBegin ELSE @,
                   !.freeBack = l.activeBack,
                   !.activeBegin = End, !.activeBack = End,
                   !.cursize = 0]

(* ------------------------------ swap ------------------------------------ *)

(* Neighbours, first before second. *)
SwapNeighbours(l, first, second) ==
    LET p == l.prev[first]
        n == l.next[second]
        m == [l EXCEPT !.prev[second] = p, !.next[first] = n,
                       !.next[second] = first, !.prev[first] = second]
    IN  SetPrev(SetNext(m, p, second), n, first)

SwapDistant(l, a, b) ==
    LET m == [l EXCEPT !.prev[a] = l.prev[b], !.next[a] = l.next[b],
                       !.prev[b] = l.prev[a], !.next[b] = l.next[a]]
        ma == SetPrev(SetNext(m, m.prev[a], a), m.next[a], a)
    IN  SetPrev(SetNext(ma, ma.prev[b], b), ma.next[b], b)

swap(l, a, b) ==
    IF a = b \/ a = End \/ b = End THEN l
    ELSE IF l.prev[a] = b THEN SwapNeighbours(l, b, a)
    ELSE IF l.next[a] = b THEN SwapNeighbours(l, a, b)
    ELSE SwapDistant(l, a, b)

(* ----------------- the sequences the links stand for -------------------- *)

UsedSeq == Chain(list.activeBegin, list.next)
UsedReversed == Chain(list.activeBack, list.prev)

(* The free queue ends at freeBack, whatever that slot's next link says. *)
FreeSeq ==
    IF list.freeBegin = End THEN << >>
    ELSE Chain(list.freeBegin, [list.next EXCEPT ![list.freeBack] = End])

Used == Range(UsedSeq)

(* ------------------------- actions: the public calls -------------------- *)

(* push_*() is new_*() and an assignment to the slot.  They return end()   *)
(* and change nothing when no slot is free.                                *)
Put(after) == list.freeBegin # End /\ list' = after

PushFront == Put(new_front(list))
PushBack == Put(new_back(list))
PushBefore(x) == Put(new_before(list, x))
PushAfter(x) == Put(new_after(list, x))

(* Callers check empty() first: pop_* and erase have no guard of their own. *)
PopFront == Used # {} /\ list' = pop_front(list)
PopBack == Used # {} /\ list' = pop_back(list)
EraseOne(x) == list' = erase(list, x)
ClearAll == list' = clear(list)
SwapTwo(a, b) == list' = swap(list, a, b)

Next == \/ PushFront \/ PushBack
        \/ \E x \in Used \cup {End} : PushBefore(x) \/ PushAfter(x)
        \/ PopFront \/ PopBack
        \/ \E x \in Used : EraseOne(x)
        \/ ClearAll
        \/ \E a, b \in Used : SwapTwo(a, b)

Spec == Init /\ [][Next]_list

(* ----------------------------- properties ------------------------------- *)

TypeOK ==
    list \in [next : [Slots -> Index], prev : [Slots -> Index],
              alive : SUBSET Slots,
              activeBegin : Index, activeBack : Index,
              freeBegin : Index, freeBack : Index, cursize : 0 .. MAX]

(* No slot is lost and none is in use and free at once, whatever the order *)
(* of insertions, removals, swaps and clears; walking forwards and walking *)
(* backwards meet the same elements in opposite order, and size(),         *)
(* countf() and countb() agree (the header says the two counts "should     *)
(* equal size").  A T is constructed in a slot exactly while the slot is   *)
(* in use: none is destroyed twice, leaked or overwritten by another.      *)
NoSlotLost ==
    /\ Len(UsedSeq) + Len(FreeSeq) = MAX
    /\ Used \cup Range(FreeSeq) = Slots
    /\ UsedReversed = [k \in 1 .. Len(UsedSeq) |-> UsedSeq[Len(UsedSeq) + 1 - k]]
    /\ list.cursize = Len(UsedSeq)
    /\ list.alive = Used

(* The links implement the abstract pool: each call does to the sequence   *)
(* of used slots and to the queue of free ones what the operation of that  *)
(* name does in PoolOps, to the very element it was given; the other ones  *)
(* keep their order, and slots are used again first in first out.          *)
Abstract == INSTANCE OrderedPool WITH
                pool <- [used |-> UsedSeq, free |-> FreeSeq]

EachCallAsNamed ==
    /\ PushFront => Abstract!EntersInFront
    /\ PushBack => Abstract!EntersAtBack
    /\ PopFront => Abstract!FirstLeaves
    /\ PopBack => Abstract!LastLeaves
    /\ \A x \in Used \cup {End} : /\ PushBefore(x) => Abstract!EntersBefore(x)
                                  /\ PushAfter(x) => Abstract!EntersBehind(x)
    /\ \A x \in Used : EraseOne(x) => Abstract!Leaves(x)
    /\ ClearAll => Abstract!AllLeave
    /\ \A a, b \in Used : SwapTwo(a, b) => Abstract!TradePlaces(a, b)

ImplementsPool == Abstract!Spec /\ [][EachCallAsNamed]_list
=============================================================================
