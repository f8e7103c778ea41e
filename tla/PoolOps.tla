------------------------------- MODULE PoolOps -------------------------------
(***************************************************************************)
(* What a ListMemBuf promises its users (src/IPC/ListMemBuf.h): a fixed    *)
(* set of slots, each either in the ordered list of used slots or in the   *)
(* first-in-first-out queue of free ones.  A pool is a record of the two   *)
(* sequences of slot numbers.  ListMemBuf.tla shows that the linked list   *)
(* of the code implements this; the modules of its users build on it.      *)
(***************************************************************************)
EXTENDS Integers, Sequences, Functions

(* No slot: the index_t value -1, which end() returns. *)
End == -1

(* The constructor: every slot is free, in the order of the slot numbers. *)
EmptyPool(max) == [used |-> << >>, free |-> [i \in 1 .. max |-> i - 1]]

IsFull(p) == p.free = << >>
UsedSlots(p) == Range(p.used)

(* The slot the next insertion takes, end() when none is left. *)
NextSlot(p) == IF IsFull(p) THEN End ELSE Head(p.free)

(* The first slot in the free queue becomes the k-th in use. *)
Insert(p, k) ==
    [used |-> SubSeq(p.used, 1, k - 1) \o <<Head(p.free)>> \o SubSeq(p.used, k, Len(p.used)),
     free |-> Tail(p.free)]

PushBack(p) == Insert(p, Len(p.used) + 1)
PushFront(p) == Insert(p, 1)

(* The k-th slot in use goes to the back of the free queue. *)
TakeOut(p, k) ==
    [used |-> SubSeq(p.used, 1, k - 1) \o SubSeq(p.used, k + 1, Len(p.used)),
     free |-> Append(p.free, p.used[k])]

(* The position of a slot that is in use. *)
Position(p, x) == CHOOSE k \in DOMAIN p.used : p.used[k] = x

Erase(p, x) == TakeOut(p, Position(p, x))

Clear(p) == [used |-> << >>, free |-> p.free \o p.used]

Exchange(p, j, k) ==
    [p EXCEPT !.used = [@ EXCEPT ![j] = p.used[k], ![k] = p.used[j]]]

(* next() and prev(): the neighbours of a slot; those of end() are the     *)
(* two ends of the list.                                                   *)
NextOf(p, x) ==
    LET k == IF x = End THEN 1 ELSE Position(p, x) + 1
    IN  IF k > Len(p.used) THEN End ELSE p.used[k]

PrevOf(p, x) ==
    LET k == IF x = End THEN Len(p.used) ELSE Position(p, x) - 1
    IN  IF k < 1 THEN End ELSE p.used[k]
=============================================================================
