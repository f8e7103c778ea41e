----------------------------- MODULE OrderedPool -----------------------------
(***************************************************************************)
(* The abstract specification of a ListMemBuf: an ordered pool of slots,   *)
(* with one action for each public call.  No links, no counter.            *)
(***************************************************************************)
EXTENDS PoolOps

CONSTANT MAX

VARIABLE pool

Init == pool = EmptyPool(MAX)

Enter(k) == ~IsFull(pool) /\ pool' = Insert(pool, k)

(* Where x is; end() is behind the last element and before the first. *)
Before(x) == IF x = End THEN Len(pool.used) + 1 ELSE Position(pool, x)
Behind(x) == IF x = End THEN 1 ELSE Position(pool, x) + 1

EntersInFront == ~IsFull(pool) /\ pool' = PushFront(pool)
EntersAtBack == ~IsFull(pool) /\ pool' = PushBack(pool)
EntersBefore(x) == Enter(Before(x))
EntersBehind(x) == Enter(Behind(x))

FirstLeaves == pool' = TakeOut(pool, 1)
LastLeaves == pool' = TakeOut(pool, Len(pool.used))
Leaves(x) == pool' = Erase(pool, x)
AllLeave == pool' = Clear(pool)

TradePlaces(x, y) == pool' = Exchange(pool, Position(pool, x), Position(pool, y))

Next ==
    \/ EntersInFront \/ EntersAtBack
    \/ \E x \in UsedSlots(pool) \cup {End} : EntersBefore(x) \/ EntersBehind(x)
    \/ pool.used # << >> /\ (FirstLeaves \/ LastLeaves)
    \/ \E x \in UsedSlots(pool) : Leaves(x)
    \/ AllLeave
    \/ \E x, y \in UsedSlots(pool) : TradePlaces(x, y)

Spec == Init /\ [][Next]_pool
=============================================================================
