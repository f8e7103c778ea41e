------------------------ MODULE SoftMutexLockProofs ------------------------
(***************************************************************************)
(* Proofs about SoftMutexLock, for every number of doors, every recursion  *)
(* bound and every mix of lock() and try_lock(): the lock excludes, its    *)
(* shared fields describe the holder, and it serves first come first.      *)
(***************************************************************************)
EXTENDS SoftMutexLock, TLAPS

Granted == {"own"} \union Critical
BurnsLamport == {"bl_set", "bl_low", "bl_back", "bl_wait", "bl_up"}
Waiting == {"fcfs_c", "fcfs_v", "fcfs_t"}

\* Where the loop index of a process points.
ScanInv ==
  \A i \in Doors :
    /\ pc[i] \in {"snap"} \union Waiting => scan[i] \in Doors
    /\ pc[i] = "bl_low" => scan[i] <= i
    /\ pc[i] \in {"bl_back", "bl_wait"} => scan[i] < i
    /\ pc[i] = "bl_up" => i < scan[i]

\* The flags other processes read, as a function of where their owner is.
FlagInv ==
  \A i \in Doors :
    /\ pc[i] \in {"bl_low", "bl_back", "bl_up"} \union Granted => BL_in_use[i]
    /\ pc[i] \in {"leave"} \union Queued => BL_ready[i]

\* i has found the door of j free since it raised its own flag.
Checked(i, j) ==
  \/ pc[i] = "bl_low" /\ j < scan[i]
  \/ pc[i] = "bl_up" /\ j < scan[i]
  \/ pc[i] \in Granted

\* Burns-Lamport: of two processes one has still to look at the other's door.
ExclusionInv ==
  \A i, j \in Doors : Checked(i, j) /\ Checked(j, i) => i = j

OwnerInv ==
  /\ \A i \in Doors :
       /\ pc[i] \in {"count", "cs", "unown"} => owner_index = i
       /\ pc[i] = "cs" => lockcount > 0
       /\ pc[i] \in Critical \ {"cs"} => lockcount = 0
       /\ pc[i] = "unuse" => owner_index = NO_OWNER
  /\ (\A i \in Doors : pc[i] \notin Critical) => owner_index = NO_OWNER /\ lockcount = 0

\* i has copied the turn of k, and has not passed the door of k.
HoldsTurn(i, k) ==
  /\ pc[i] = "snap" /\ k < scan[i] => S[i][k] = turn[k]
  /\ pc[i] \in {"flip", "ready", "leave"} => S[i][k] = turn[k]
  /\ pc[i] \in Waiting => S[i][k] = turn[k] /\ scan[i] <= k
  /\ pc[i] \notin BurnsLamport \union Granted

\* First come first served: whoever came first is still queued, with the
\* turn the later process copied, so the later one waits at its door.
FCFSInv ==
  \A i \in Doors : \A k \in ahead[i] :
    i # k /\ pc[k] \in Queued /\ block[k] /\ HoldsTurn(i, k)

IInv == TypeOK /\ ScanInv /\ FlagInv /\ ExclusionInv /\ OwnerInv /\ FCFSInv

(* The arithmetic of door indices, so that Doors need not be expanded.      *)
LEMMA DoorFacts ==
  /\ num_doors \in Nat \ {0}
  /\ \A i \in Doors : i \in Nat /\ i < num_doors /\ i + 1 \in 0 .. num_doors
  /\ \A k \in 0 .. num_doors : k \in Int /\ (k # num_doors => k \in Doors)
  /\ \A k \in Doors : k + 1 # num_doors => k + 1 \in Doors
  /\ 0 \in Doors /\ 0 \in 0 .. num_doors /\ NO_OWNER \notin Doors
BY DoorsAssumption DEF Doors, NO_OWNER

(* Consecutive door indices.                                                *)
LEMMA DoorOrder ==
  /\ \A j, k \in Doors : j < k + 1 => j < k \/ j = k
  /\ \A j, k \in Doors : k <= j /\ j # k => k + 1 <= j
BY DoorFacts

(* Every step of the lock keeps its fields in their types.                  *)
LEMMA TypeStep ==
  ASSUME TypeOK, ScanInv, OwnerInv, [Next]_vars
  PROVE  TypeOK'
<1> USE DoorFacts, LevelAssumption, ModesAssumption
    DEF TypeOK, doorVars, lockVars, At, Goto, Scan, Labels, Queued, Critical, Waiting
<1>1. ASSUME NEW i \in Doors, Call(i) PROVE TypeOK'
  BY <1>1 DEF Call
<1>2. ASSUME NEW i \in Doors, EnterDoorway(i) PROVE TypeOK'
  BY <1>2 DEF EnterDoorway
<1>3. ASSUME NEW i \in Doors, CopyTurn(i) PROVE TypeOK'
  <2>1. CASE scan[i] + 1 = num_doors
    BY <1>3, <2>1 DEF CopyTurn, ScanInv
  <2>2. CASE scan[i] + 1 # num_doors
    BY <1>3, <2>2 DEF CopyTurn, ScanInv
  <2> QED
    BY <1>3, <2>1, <2>2 DEF CopyTurn
<1>4. ASSUME NEW i \in Doors, FlipTurn(i) PROVE TypeOK'
  <2>1. 1 - next_turn_bit[i] \in Bits
    BY DEF Bits
  <2>2. \A b \in Bits : (~turn[i][b]) \in BOOLEAN
    BY Zenon
  <2>3. [turn[i] EXCEPT ![1 - next_turn_bit[i]] = ~@] \in Turns
    BY <2>1, <2>2 DEF Turns
  <2> QED
    BY <1>4, <2>1, <2>3 DEF FlipTurn
<1>5. ASSUME NEW i \in Doors, SetReady(i) PROVE TypeOK'
  BY <1>5 DEF SetReady
<1>6. ASSUME NEW i \in Doors, LeaveDoorway(i) PROVE TypeOK'
  BY <1>6 DEF LeaveDoorway
<1>7. ASSUME NEW i \in Doors, ReadInUse(i) PROVE TypeOK'
  BY <1>7 DEF ReadInUse
<1>8. ASSUME NEW i \in Doors, ReadReady(i) PROVE TypeOK'
  <2>1. CASE BL_ready[scan[i]]
    BY <1>8, <2>1 DEF ReadReady, PassDoor, PassLastDoor, ScanInv
  <2>2. CASE ~BL_ready[scan[i]] /\ PassDoor(i)
    BY <1>8, <2>2 DEF ReadReady, PassDoor, ScanInv
  <2>3. CASE ~BL_ready[scan[i]] /\ PassLastDoor(i)
    BY <1>8, <2>3 DEF ReadReady, PassLastDoor, ForgetTurns, ScanInv, NoTurns, Turns, Bits
  <2> QED
    BY <1>8, <2>1, <2>2, <2>3 DEF ReadReady
<1>9. ASSUME NEW i \in Doors, ReadTurn(i) PROVE TypeOK'
  <2>1. CASE S[i][scan[i]] = turn[scan[i]]
    BY <1>9, <2>1 DEF ReadTurn, ScanInv
  <2>2. CASE S[i][scan[i]] # turn[scan[i]] /\ PassDoor(i)
    BY <1>9, <2>2 DEF ReadTurn, PassDoor, ScanInv
  <2>3. CASE S[i][scan[i]] # turn[scan[i]] /\ PassLastDoor(i)
    BY <1>9, <2>3 DEF ReadTurn, PassLastDoor, ForgetTurns, ScanInv, NoTurns, Turns, Bits
  <2> QED
    BY <1>9, <2>1, <2>2, <2>3 DEF ReadTurn
<1>10. ASSUME NEW i \in Doors, GiveUp(i) PROVE TypeOK'
  BY <1>10 DEF GiveUp, ForgetTurns, Dequeue, NoTurns, Turns, Bits
<1>11. ASSUME NEW i \in Doors, SetInUse(i) PROVE TypeOK'
  BY <1>11 DEF SetInUse
<1>12. ASSUME NEW i \in Doors, ReadLower(i) PROVE TypeOK'
  <2>1. CASE scan[i] = i
    BY <1>12, <2>1 DEF ReadLower, ScanInv
  <2>2. CASE scan[i] < i /\ ~BL_in_use[scan[i]]
    BY <1>12, <2>2 DEF ReadLower, ScanInv
  <2>3. CASE scan[i] < i /\ BL_in_use[scan[i]]
    BY <1>12, <2>3 DEF ReadLower, ScanInv
  <2> QED
    BY <1>12, <2>1, <2>2, <2>3 DEF ReadLower
<1>13. ASSUME NEW i \in Doors, BackOff(i) PROVE TypeOK'
  BY <1>13 DEF BackOff
<1>14. ASSUME NEW i \in Doors, AwaitLower(i) PROVE TypeOK'
  BY <1>14 DEF AwaitLower
<1>15. ASSUME NEW i \in Doors, AwaitUpper(i) PROVE TypeOK'
  <2>1. CASE scan[i] = num_doors
    BY <1>15, <2>1 DEF AwaitUpper
  <2>2. CASE scan[i] < num_doors
    <3>1. scan[i] \in Doors
      BY <2>2
    <3>2. scan[i] + 1 \in 0 .. num_doors
      BY <3>1
    <3> QED
      BY <1>15, <2>2, <3>2 DEF AwaitUpper
  <2> QED
    BY <1>15, <2>1, <2>2 DEF AwaitUpper
<1>16. ASSUME NEW i \in Doors, TakeOwnership(i) PROVE TypeOK'
  BY <1>16 DEF TakeOwnership, Dequeue
<1>17. ASSUME NEW i \in Doors, CountLevel(i) PROVE TypeOK'
  BY <1>17 DEF CountLevel, OwnerInv
<1>18. ASSUME NEW i \in Doors, ClearOwner(i) PROVE TypeOK'
  BY <1>18 DEF ClearOwner
<1>19. ASSUME NEW i \in Doors, ClearInUse(i) PROVE TypeOK'
  BY <1>19 DEF ClearInUse
<1>20. ASSUME NEW i \in Doors, ClearReady(i) PROVE TypeOK'
  BY <1>20 DEF ClearReady
<1>21. ASSUME NEW i \in Doors, Relock(i) PROVE TypeOK'
  BY <1>21 DEF Relock
<1>22. ASSUME NEW i \in Doors, Unlock(i) PROVE TypeOK'
  BY <1>22 DEF Unlock, LowerLevel
<1>23. ASSUME NEW i \in Doors, ReleaseAll(i) PROVE TypeOK'
  BY <1>23 DEF ReleaseAll, LowerLevel
<1>24. CASE UNCHANGED vars
  BY <1>24 DEF vars
<1> QED
  BY <1>1, <1>2, <1>3, <1>4, <1>5, <1>6, <1>7, <1>8, <1>9, <1>10, <1>11, <1>12, <1>13, <1>14, <1>15, <1>16, <1>17, <1>18, <1>19, <1>20, <1>21, <1>22, <1>23, <1>24 DEF Next, Advance

(* Every step keeps the loop indices of do_try_lock in their ranges.        *)
LEMMA ScanStep ==
  ASSUME IInv, [Next]_vars
  PROVE  ScanInv'
<1> USE DoorFacts, LevelAssumption, ModesAssumption
    DEF IInv, TypeOK, ScanInv, doorVars, lockVars, At, Goto, Scan, Labels, Queued, Critical, Waiting
<1>1. ASSUME NEW i \in Doors, Call(i) PROVE ScanInv'
  BY <1>1 DEF Call
<1>2. ASSUME NEW i \in Doors, EnterDoorway(i) PROVE ScanInv'
  BY <1>2 DEF EnterDoorway
<1>3. ASSUME NEW i \in Doors, CopyTurn(i) PROVE ScanInv'
  BY <1>3 DEF CopyTurn
<1>4. ASSUME NEW i \in Doors, FlipTurn(i) PROVE ScanInv'
  BY <1>4 DEF FlipTurn
<1>5. ASSUME NEW i \in Doors, SetReady(i) PROVE ScanInv'
  BY <1>5 DEF SetReady
<1>6. ASSUME NEW i \in Doors, LeaveDoorway(i) PROVE ScanInv'
  BY <1>6 DEF LeaveDoorway
<1>7. ASSUME NEW i \in Doors, ReadInUse(i) PROVE ScanInv'
  BY <1>7 DEF ReadInUse
<1>8. ASSUME NEW i \in Doors, ReadReady(i) PROVE ScanInv'
  BY <1>8 DEF ReadReady, PassDoor, PassLastDoor, ForgetTurns
<1>9. ASSUME NEW i \in Doors, ReadTurn(i) PROVE ScanInv'
  <2>1. CASE S[i][scan[i]] = turn[scan[i]]
    BY <1>9, <2>1 DEF ReadTurn
  <2>2. CASE S[i][scan[i]] # turn[scan[i]] /\ PassDoor(i)
    BY <1>9, <2>2 DEF ReadTurn, PassDoor
  <2>3. CASE S[i][scan[i]] # turn[scan[i]] /\ PassLastDoor(i)
    BY <1>9, <2>3 DEF ReadTurn, PassLastDoor, ForgetTurns
  <2> QED
    BY <1>9, <2>1, <2>2, <2>3 DEF ReadTurn
<1>10. ASSUME NEW i \in Doors, GiveUp(i) PROVE ScanInv'
  BY <1>10 DEF GiveUp, ForgetTurns, Dequeue
<1>11. ASSUME NEW i \in Doors, SetInUse(i) PROVE ScanInv'
  BY <1>11 DEF SetInUse
<1>12. ASSUME NEW i \in Doors, ReadLower(i) PROVE ScanInv'
  BY <1>12 DEF ReadLower
<1>13. ASSUME NEW i \in Doors, BackOff(i) PROVE ScanInv'
  BY <1>13 DEF BackOff
<1>14. ASSUME NEW i \in Doors, AwaitLower(i) PROVE ScanInv'
  BY <1>14 DEF AwaitLower
<1>15. ASSUME NEW i \in Doors, AwaitUpper(i) PROVE ScanInv'
  BY <1>15 DEF AwaitUpper
<1>16. ASSUME NEW i \in Doors, TakeOwnership(i) PROVE ScanInv'
  BY <1>16 DEF TakeOwnership, Dequeue
<1>17. ASSUME NEW i \in Doors, CountLevel(i) PROVE ScanInv'
  BY <1>17 DEF CountLevel
<1>18. ASSUME NEW i \in Doors, ClearOwner(i) PROVE ScanInv'
  BY <1>18 DEF ClearOwner
<1>19. ASSUME NEW i \in Doors, ClearInUse(i) PROVE ScanInv'
  BY <1>19 DEF ClearInUse
<1>20. ASSUME NEW i \in Doors, ClearReady(i) PROVE ScanInv'
  BY <1>20 DEF ClearReady
<1>21. ASSUME NEW i \in Doors, Relock(i) PROVE ScanInv'
  BY <1>21 DEF Relock
<1>22. ASSUME NEW i \in Doors, Unlock(i) PROVE ScanInv'
  BY <1>22 DEF Unlock, LowerLevel
<1>23. ASSUME NEW i \in Doors, ReleaseAll(i) PROVE ScanInv'
  BY <1>23 DEF ReleaseAll, LowerLevel
<1>24. CASE UNCHANGED vars
  BY <1>24 DEF vars
<1> QED
  BY <1>1, <1>2, <1>3, <1>4, <1>5, <1>6, <1>7, <1>8, <1>9, <1>10, <1>11, <1>12, <1>13, <1>14, <1>15, <1>16, <1>17, <1>18, <1>19, <1>20, <1>21, <1>22, <1>23, <1>24 DEF Next, Advance

(* Every step keeps the flags of a door in step with its process.           *)
LEMMA FlagStep ==
  ASSUME IInv, [Next]_vars
  PROVE  FlagInv'
<1> USE DoorFacts, LevelAssumption, ModesAssumption
    DEF IInv, TypeOK, ScanInv, doorVars, lockVars, At, Goto, Scan, Labels, Queued, Critical, Waiting, FlagInv, Granted
<1>1. ASSUME NEW i \in Doors, Call(i) PROVE FlagInv'
  BY <1>1 DEF Call
<1>2. ASSUME NEW i \in Doors, EnterDoorway(i) PROVE FlagInv'
  BY <1>2 DEF EnterDoorway
<1>3. ASSUME NEW i \in Doors, CopyTurn(i) PROVE FlagInv'
  BY <1>3 DEF CopyTurn
<1>4. ASSUME NEW i \in Doors, FlipTurn(i) PROVE FlagInv'
  BY <1>4 DEF FlipTurn
<1>5. ASSUME NEW i \in Doors, SetReady(i) PROVE FlagInv'
  BY <1>5 DEF SetReady
<1>6. ASSUME NEW i \in Doors, LeaveDoorway(i) PROVE FlagInv'
  BY <1>6 DEF LeaveDoorway
<1>7. ASSUME NEW i \in Doors, ReadInUse(i) PROVE FlagInv'
  BY <1>7 DEF ReadInUse
<1>8. ASSUME NEW i \in Doors, ReadReady(i) PROVE FlagInv'
  BY <1>8 DEF ReadReady, PassDoor, PassLastDoor, ForgetTurns
<1>9. ASSUME NEW i \in Doors, ReadTurn(i) PROVE FlagInv'
  BY <1>9 DEF ReadTurn, PassDoor, PassLastDoor, ForgetTurns
<1>10. ASSUME NEW i \in Doors, GiveUp(i) PROVE FlagInv'
  BY <1>10 DEF GiveUp, ForgetTurns, Dequeue
<1>11. ASSUME NEW i \in Doors, SetInUse(i) PROVE FlagInv'
  BY <1>11 DEF SetInUse
<1>12. ASSUME NEW i \in Doors, ReadLower(i) PROVE FlagInv'
  BY <1>12 DEF ReadLower
<1>13. ASSUME NEW i \in Doors, BackOff(i) PROVE FlagInv'
  BY <1>13 DEF BackOff
<1>14. ASSUME NEW i \in Doors, AwaitLower(i) PROVE FlagInv'
  BY <1>14 DEF AwaitLower
<1>15. ASSUME NEW i \in Doors, AwaitUpper(i) PROVE FlagInv'
  BY <1>15 DEF AwaitUpper
<1>16. ASSUME NEW i \in Doors, TakeOwnership(i) PROVE FlagInv'
  BY <1>16 DEF TakeOwnership, Dequeue
<1>17. ASSUME NEW i \in Doors, CountLevel(i) PROVE FlagInv'
  BY <1>17 DEF CountLevel
<1>18. ASSUME NEW i \in Doors, ClearOwner(i) PROVE FlagInv'
  BY <1>18 DEF ClearOwner
<1>19. ASSUME NEW i \in Doors, ClearInUse(i) PROVE FlagInv'
  BY <1>19 DEF ClearInUse
<1>20. ASSUME NEW i \in Doors, ClearReady(i) PROVE FlagInv'
  BY <1>20 DEF ClearReady
<1>21. ASSUME NEW i \in Doors, Relock(i) PROVE FlagInv'
  BY <1>21 DEF Relock
<1>22. ASSUME NEW i \in Doors, Unlock(i) PROVE FlagInv'
  BY <1>22 DEF Unlock, LowerLevel
<1>23. ASSUME NEW i \in Doors, ReleaseAll(i) PROVE FlagInv'
  BY <1>23 DEF ReleaseAll, LowerLevel
<1>24. CASE UNCHANGED vars
  BY <1>24 DEF vars
<1> QED
  BY <1>1, <1>2, <1>3, <1>4, <1>5, <1>6, <1>7, <1>8, <1>9, <1>10, <1>11, <1>12, <1>13, <1>14, <1>15, <1>16, <1>17, <1>18, <1>19, <1>20, <1>21, <1>22, <1>23, <1>24 DEF Next, Advance

(* No step lets two processes each find the other's door free: whoever has *)
(* looked had raised its own BL_in_use before.                              *)
LEMMA ExclusionStep ==
  ASSUME IInv, [Next]_vars
  PROVE  ExclusionInv'
<1> USE DoorFacts, LevelAssumption, ModesAssumption
    DEF IInv, TypeOK, ScanInv, doorVars, lockVars, At, Goto, Scan, Labels, Queued, Critical, Waiting, FlagInv, Granted, ExclusionInv, Checked
<1>1. ASSUME NEW i \in Doors, Call(i) PROVE ExclusionInv'
  BY <1>1 DEF Call
<1>2. ASSUME NEW i \in Doors, EnterDoorway(i) PROVE ExclusionInv'
  BY <1>2 DEF EnterDoorway
<1>3. ASSUME NEW i \in Doors, CopyTurn(i) PROVE ExclusionInv'
  <2>1. CASE scan[i] + 1 = num_doors
    BY <1>3, <2>1 DEF CopyTurn
  <2>2. CASE scan[i] + 1 # num_doors
    BY <1>3, <2>2 DEF CopyTurn
  <2> QED
    BY <1>3, <2>1, <2>2 DEF CopyTurn
<1>4. ASSUME NEW i \in Doors, FlipTurn(i) PROVE ExclusionInv'
  BY <1>4 DEF FlipTurn
<1>5. ASSUME NEW i \in Doors, SetReady(i) PROVE ExclusionInv'
  BY <1>5 DEF SetReady
<1>6. ASSUME NEW i \in Doors, LeaveDoorway(i) PROVE ExclusionInv'
  BY <1>6 DEF LeaveDoorway
<1>7. ASSUME NEW i \in Doors, ReadInUse(i) PROVE ExclusionInv'
  BY <1>7 DEF ReadInUse
<1>8. ASSUME NEW i \in Doors, ReadReady(i) PROVE ExclusionInv'
  <2>1. CASE BL_ready[scan[i]]
    BY <1>8, <2>1 DEF ReadReady, PassDoor, PassLastDoor
  <2>2. CASE ~BL_ready[scan[i]] /\ PassDoor(i)
    BY <1>8, <2>2 DEF ReadReady, PassDoor
  <2>3. CASE ~BL_ready[scan[i]] /\ PassLastDoor(i)
    BY <1>8, <2>3 DEF ReadReady, PassLastDoor, ForgetTurns
  <2> QED
    BY <1>8, <2>1, <2>2, <2>3 DEF ReadReady
<1>9. ASSUME NEW i \in Doors, ReadTurn(i) PROVE ExclusionInv'
  <2>1. CASE S[i][scan[i]] = turn[scan[i]]
    BY <1>9, <2>1 DEF ReadTurn
  <2>2. CASE S[i][scan[i]] # turn[scan[i]] /\ PassDoor(i)
    BY <1>9, <2>2 DEF ReadTurn, PassDoor
  <2>3. CASE S[i][scan[i]] # turn[scan[i]] /\ PassLastDoor(i)
    BY <1>9, <2>3 DEF ReadTurn, PassLastDoor, ForgetTurns
  <2> QED
    BY <1>9, <2>1, <2>2, <2>3 DEF ReadTurn
<1>10. ASSUME NEW i \in Doors, GiveUp(i) PROVE ExclusionInv'
  BY <1>10 DEF GiveUp, ForgetTurns, Dequeue
<1>11. ASSUME NEW i \in Doors, SetInUse(i) PROVE ExclusionInv'
  BY <1>11 DEF SetInUse
<1>12. ASSUME NEW i \in Doors, ReadLower(i) PROVE ExclusionInv'
  <2>1. CASE scan[i] = i
    <3> SUFFICES ASSUME NEW a \in Doors, NEW b \in Doors,
                        Checked(a, b)', Checked(b, a)', a # b
                 PROVE  FALSE
      BY DEF ExclusionInv
    <3>1. \A j \in Doors : j < i + 1 /\ j # i => j < scan[i]
      BY <2>1, DoorOrder
    <3>2. \A j \in Doors : j # i /\ Checked(i, j)' => Checked(i, j)
      BY <1>12, <2>1, <3>1 DEF ReadLower
    <3>3. \A j, k \in Doors : j # i /\ Checked(j, k)' => Checked(j, k)
      BY <1>12, <2>1 DEF ReadLower
    <3> QED
      BY <3>2, <3>3
  <2>2. CASE scan[i] < i /\ ~BL_in_use[scan[i]]
    BY <1>12, <2>2 DEF ReadLower
  <2>3. CASE scan[i] < i /\ BL_in_use[scan[i]]
    BY <1>12, <2>3 DEF ReadLower
  <2> QED
    BY <1>12, <2>1, <2>2, <2>3 DEF ReadLower
<1>13. ASSUME NEW i \in Doors, BackOff(i) PROVE ExclusionInv'
  BY <1>13 DEF BackOff
<1>14. ASSUME NEW i \in Doors, AwaitLower(i) PROVE ExclusionInv'
  BY <1>14 DEF AwaitLower
<1>15. ASSUME NEW i \in Doors, AwaitUpper(i) PROVE ExclusionInv'
  <2>1. CASE scan[i] = num_doors
    BY <1>15, <2>1 DEF AwaitUpper
  <2>2. CASE scan[i] < num_doors
    <3> SUFFICES ASSUME NEW a \in Doors, NEW b \in Doors,
                        Checked(a, b)', Checked(b, a)', a # b
                 PROVE  FALSE
      BY DEF ExclusionInv
    <3>1. scan[i] \in Doors /\ ~BL_in_use[scan[i]] /\ scan' = [scan EXCEPT ![i] = scan[i] + 1]
          /\ pc' = pc /\ pc[i] = "bl_up"
      BY <1>15, <2>2 DEF AwaitUpper
    <3>2. \A j \in Doors : j < scan[i] + 1 => j < scan[i] \/ j = scan[i]
      BY <3>1, DoorOrder
    <3>3. \A j \in Doors : ~Checked(scan[i], j)
      BY <3>1
    <3>4. \A j \in Doors : Checked(i, j)' => Checked(i, j) \/ j = scan[i]
      BY <3>1, <3>2
    <3>5. \A j, k \in Doors : j # i /\ Checked(j, k)' => Checked(j, k)
      BY <3>1
    <3> QED
      BY <3>1, <3>3, <3>4, <3>5
  <2> QED
    BY <1>15, <2>1, <2>2 DEF AwaitUpper
<1>16. ASSUME NEW i \in Doors, TakeOwnership(i) PROVE ExclusionInv'
  BY <1>16 DEF TakeOwnership, Dequeue
<1>17. ASSUME NEW i \in Doors, CountLevel(i) PROVE ExclusionInv'
  BY <1>17 DEF CountLevel
<1>18. ASSUME NEW i \in Doors, ClearOwner(i) PROVE ExclusionInv'
  BY <1>18 DEF ClearOwner
<1>19. ASSUME NEW i \in Doors, ClearInUse(i) PROVE ExclusionInv'
  BY <1>19 DEF ClearInUse
<1>20. ASSUME NEW i \in Doors, ClearReady(i) PROVE ExclusionInv'
  BY <1>20 DEF ClearReady
<1>21. ASSUME NEW i \in Doors, Relock(i) PROVE ExclusionInv'
  BY <1>21 DEF Relock
<1>22. ASSUME NEW i \in Doors, Unlock(i) PROVE ExclusionInv'
  BY <1>22 DEF Unlock, LowerLevel
<1>23. ASSUME NEW i \in Doors, ReleaseAll(i) PROVE ExclusionInv'
  BY <1>23 DEF ReleaseAll, LowerLevel
<1>24. CASE UNCHANGED vars
  BY <1>24 DEF vars
<1> QED
  BY <1>1, <1>2, <1>3, <1>4, <1>5, <1>6, <1>7, <1>8, <1>9, <1>10, <1>11, <1>12, <1>13, <1>14, <1>15, <1>16, <1>17, <1>18, <1>19, <1>20, <1>21, <1>22, <1>23, <1>24 DEF Next, Advance

(* Every step keeps owner_index and lockcount describing the holder.        *)
LEMMA OwnerStep ==
  ASSUME IInv, [Next]_vars
  PROVE  OwnerInv'
<1> USE DoorFacts, LevelAssumption, ModesAssumption
    DEF IInv, TypeOK, ScanInv, doorVars, lockVars, At, Goto, Scan, Labels, Queued, Critical, Waiting, Granted, ExclusionInv, Checked, OwnerInv, NO_OWNER
<1>1. ASSUME NEW i \in Doors, Call(i) PROVE OwnerInv'
  BY <1>1 DEF Call
<1>2. ASSUME NEW i \in Doors, EnterDoorway(i) PROVE OwnerInv'
  BY <1>2 DEF EnterDoorway
<1>3. ASSUME NEW i \in Doors, CopyTurn(i) PROVE OwnerInv'
  BY <1>3 DEF CopyTurn
<1>4. ASSUME NEW i \in Doors, FlipTurn(i) PROVE OwnerInv'
  BY <1>4 DEF FlipTurn
<1>5. ASSUME NEW i \in Doors, SetReady(i) PROVE OwnerInv'
  BY <1>5 DEF SetReady
<1>6. ASSUME NEW i \in Doors, LeaveDoorway(i) PROVE OwnerInv'
  BY <1>6 DEF LeaveDoorway
<1>7. ASSUME NEW i \in Doors, ReadInUse(i) PROVE OwnerInv'
  BY <1>7 DEF ReadInUse
<1>8. ASSUME NEW i \in Doors, ReadReady(i) PROVE OwnerInv'
  BY <1>8 DEF ReadReady, PassDoor, PassLastDoor, ForgetTurns
<1>9. ASSUME NEW i \in Doors, ReadTurn(i) PROVE OwnerInv'
  <2>1. CASE S[i][scan[i]] = turn[scan[i]]
    BY <1>9, <2>1 DEF ReadTurn
  <2>2. CASE S[i][scan[i]] # turn[scan[i]] /\ PassDoor(i)
    BY <1>9, <2>2 DEF ReadTurn, PassDoor
  <2>3. CASE S[i][scan[i]] # turn[scan[i]] /\ PassLastDoor(i)
    BY <1>9, <2>3 DEF ReadTurn, PassLastDoor, ForgetTurns
  <2> QED
    BY <1>9, <2>1, <2>2, <2>3 DEF ReadTurn
<1>10. ASSUME NEW i \in Doors, GiveUp(i) PROVE OwnerInv'
  BY <1>10 DEF GiveUp, ForgetTurns, Dequeue
<1>11. ASSUME NEW i \in Doors, SetInUse(i) PROVE OwnerInv'
  BY <1>11 DEF SetInUse
<1>12. ASSUME NEW i \in Doors, ReadLower(i) PROVE OwnerInv'
  <2>1. CASE scan[i] = i
    BY <1>12, <2>1 DEF ReadLower
  <2>2. CASE scan[i] < i /\ ~BL_in_use[scan[i]]
    BY <1>12, <2>2 DEF ReadLower
  <2>3. CASE scan[i] < i /\ BL_in_use[scan[i]]
    BY <1>12, <2>3 DEF ReadLower
  <2> QED
    BY <1>12, <2>1, <2>2, <2>3 DEF ReadLower
<1>13. ASSUME NEW i \in Doors, BackOff(i) PROVE OwnerInv'
  BY <1>13 DEF BackOff
<1>14. ASSUME NEW i \in Doors, AwaitLower(i) PROVE OwnerInv'
  BY <1>14 DEF AwaitLower
<1>15. ASSUME NEW i \in Doors, AwaitUpper(i) PROVE OwnerInv'
  BY <1>15 DEF AwaitUpper
<1>16. ASSUME NEW i \in Doors, TakeOwnership(i) PROVE OwnerInv'
  BY <1>16 DEF TakeOwnership, Dequeue
<1>17. ASSUME NEW i \in Doors, CountLevel(i) PROVE OwnerInv'
  BY <1>17 DEF CountLevel
<1>18. ASSUME NEW i \in Doors, ClearOwner(i) PROVE OwnerInv'
  BY <1>18 DEF ClearOwner
<1>19. ASSUME NEW i \in Doors, ClearInUse(i) PROVE OwnerInv'
  BY <1>19 DEF ClearInUse
<1>20. ASSUME NEW i \in Doors, ClearReady(i) PROVE OwnerInv'
  BY <1>20 DEF ClearReady
<1>21. ASSUME NEW i \in Doors, Relock(i) PROVE OwnerInv'
  BY <1>21 DEF Relock
<1>22. ASSUME NEW i \in Doors, Unlock(i) PROVE OwnerInv'
  BY <1>22 DEF Unlock, LowerLevel
<1>23. ASSUME NEW i \in Doors, ReleaseAll(i) PROVE OwnerInv'
  BY <1>23 DEF ReleaseAll, LowerLevel
<1>24. CASE UNCHANGED vars
  BY <1>24 DEF vars
<1> QED
  BY <1>1, <1>2, <1>3, <1>4, <1>5, <1>6, <1>7, <1>8, <1>9, <1>10, <1>11, <1>12, <1>13, <1>14, <1>15, <1>16, <1>17, <1>18, <1>19, <1>20, <1>21, <1>22, <1>23, <1>24 DEF Next, Advance

(* No step takes a process past the door of one that came first.            *)
LEMMA FCFSStep ==
  ASSUME IInv, [Next]_vars
  PROVE  FCFSInv'
<1> USE DoorFacts, LevelAssumption, ModesAssumption
    DEF IInv, TypeOK, ScanInv, doorVars, lockVars, At, Goto, Scan, Labels, Queued, Critical, Waiting, FlagInv, Granted, FCFSInv, HoldsTurn, BurnsLamport
<1>1. ASSUME NEW i \in Doors, Call(i) PROVE FCFSInv'
  BY <1>1 DEF Call
<1>2. ASSUME NEW i \in Doors, EnterDoorway(i) PROVE FCFSInv'
  BY <1>2 DEF EnterDoorway
<1>3. ASSUME NEW i \in Doors, CopyTurn(i) PROVE FCFSInv'
  <2>1. CASE scan[i] + 1 = num_doors
    BY <1>3, <2>1 DEF CopyTurn
  <2>2. CASE scan[i] + 1 # num_doors
    <3> SUFFICES ASSUME NEW a \in Doors, NEW k \in ahead'[a]
                 PROVE  (a # k /\ pc[k] \in Queued /\ block[k] /\ HoldsTurn(a, k))'
      BY DEF FCFSInv
    <3>1. scan[i] \in Doors /\ pc[i] = "snap" /\ pc' = pc
          /\ scan' = [scan EXCEPT ![i] = scan[i] + 1]
          /\ S' = [S EXCEPT ![i][scan[i]] = turn[scan[i]]]
          /\ UNCHANGED <<turn, block, ahead>>
      BY <1>3, <2>2 DEF CopyTurn
    <3>2. \A j \in Doors : j < scan[i] + 1 => j < scan[i] \/ j = scan[i]
      BY <3>1, DoorOrder
    <3> QED
      BY <3>1, <3>2
  <2> QED
    BY <1>3, <2>1, <2>2 DEF CopyTurn
<1>4. ASSUME NEW i \in Doors, FlipTurn(i) PROVE FCFSInv'
  BY <1>4 DEF FlipTurn
<1>5. ASSUME NEW i \in Doors, SetReady(i) PROVE FCFSInv'
  BY <1>5 DEF SetReady
<1>6. ASSUME NEW i \in Doors, LeaveDoorway(i) PROVE FCFSInv'
  BY <1>6 DEF LeaveDoorway
<1>7. ASSUME NEW i \in Doors, ReadInUse(i) PROVE FCFSInv'
  BY <1>7 DEF ReadInUse
<1>8. ASSUME NEW i \in Doors, ReadReady(i) PROVE FCFSInv'
  <2>1. CASE BL_ready[scan[i]]
    BY <1>8, <2>1 DEF ReadReady, PassDoor, PassLastDoor
  <2>2. CASE ~BL_ready[scan[i]] /\ PassDoor(i)
    <3> SUFFICES ASSUME NEW a \in Doors, NEW k \in ahead'[a]
                 PROVE  (a # k /\ pc[k] \in Queued /\ block[k] /\ HoldsTurn(a, k))'
      BY DEF FCFSInv
    <3>1. scan[i] \in Doors /\ pc[i] = "fcfs_v" /\ scan' = [scan EXCEPT ![i] = scan[i] + 1]
          /\ pc' = [pc EXCEPT ![i] = "fcfs_c"] /\ UNCHANGED <<turn, block, S, ahead>>
      BY <1>8, <2>2 DEF ReadReady, PassDoor
    <3>2. scan[i] \notin ahead[i]
      BY <2>2, <3>1
    <3>3. \A j \in Doors : scan[i] <= j /\ j # scan[i] => scan[i] + 1 <= j
      BY <3>1, DoorOrder
    <3> QED
      BY <3>1, <3>2, <3>3
  <2>3. CASE ~BL_ready[scan[i]] /\ PassLastDoor(i)
    <3>1. scan[i] \in Doors /\ scan[i] + 1 = num_doors /\ pc[i] = "fcfs_v"
          /\ ~BL_ready[scan[i]]
      BY <1>8, <2>3 DEF ReadReady, PassLastDoor
    <3>2. \A k \in Doors : scan[i] <= k => k = scan[i]
      BY <3>1, DoorOrder
    <3>3. ahead[i] = {}
      BY <3>1, <3>2
    <3>4. /\ \A a \in Doors : a # i => pc'[a] = pc[a] /\ S'[a] = S[a] /\ scan'[a] = scan[a]
          /\ pc' = [pc EXCEPT ![i] = "bl_set"] /\ UNCHANGED <<turn, block, ahead>>
      BY <1>8, <2>3 DEF ReadReady, PassLastDoor, ForgetTurns
    <3> SUFFICES ASSUME NEW a \in Doors, NEW k \in ahead[a]
                 PROVE  (a # k /\ pc[k] \in Queued /\ block[k] /\ HoldsTurn(a, k))'
      BY <3>4 DEF FCFSInv
    <3>5. a # i
      BY <3>3
    <3> QED
      BY <3>1, <3>4, <3>5
  <2> QED
    BY <1>8, <2>1, <2>2, <2>3 DEF ReadReady
<1>9. ASSUME NEW i \in Doors, ReadTurn(i) PROVE FCFSInv'
  <2>1. CASE S[i][scan[i]] = turn[scan[i]]
    BY <1>9, <2>1 DEF ReadTurn
  <2>2. CASE S[i][scan[i]] # turn[scan[i]] /\ PassDoor(i)
    <3> SUFFICES ASSUME NEW a \in Doors, NEW k \in ahead'[a]
                 PROVE  (a # k /\ pc[k] \in Queued /\ block[k] /\ HoldsTurn(a, k))'
      BY DEF FCFSInv
    <3>1. scan[i] \in Doors /\ pc[i] = "fcfs_t" /\ scan' = [scan EXCEPT ![i] = scan[i] + 1]
          /\ pc' = [pc EXCEPT ![i] = "fcfs_c"] /\ UNCHANGED <<turn, block, S, ahead>>
      BY <1>9, <2>2 DEF ReadTurn, PassDoor
    <3>2. scan[i] \notin ahead[i]
      BY <2>2, <3>1
    <3>3. \A j \in Doors : scan[i] <= j /\ j # scan[i] => scan[i] + 1 <= j
      BY <3>1, DoorOrder
    <3> QED
      BY <3>1, <3>2, <3>3
  <2>3. CASE S[i][scan[i]] # turn[scan[i]] /\ PassLastDoor(i)
    <3>1. scan[i] \in Doors /\ scan[i] + 1 = num_doors /\ pc[i] = "fcfs_t"
          /\ S[i][scan[i]] # turn[scan[i]]
      BY <1>9, <2>3 DEF ReadTurn, PassLastDoor
    <3>2. \A k \in Doors : scan[i] <= k => k = scan[i]
      BY <3>1, DoorOrder
    <3>3. ahead[i] = {}
      BY <3>1, <3>2
    <3>4. /\ \A a \in Doors : a # i => pc'[a] = pc[a] /\ S'[a] = S[a] /\ scan'[a] = scan[a]
          /\ pc' = [pc EXCEPT ![i] = "bl_set"] /\ UNCHANGED <<turn, block, ahead>>
      BY <1>9, <2>3 DEF ReadTurn, PassLastDoor, ForgetTurns
    <3> SUFFICES ASSUME NEW a \in Doors, NEW k \in ahead[a]
                 PROVE  (a # k /\ pc[k] \in Queued /\ block[k] /\ HoldsTurn(a, k))'
      BY <3>4 DEF FCFSInv
    <3>5. a # i
      BY <3>3
    <3> QED
      BY <3>1, <3>4, <3>5
  <2> QED
    BY <1>9, <2>1, <2>2, <2>3 DEF ReadTurn
<1>10. ASSUME NEW i \in Doors, GiveUp(i) PROVE FCFSInv'
  BY <1>10 DEF GiveUp, ForgetTurns, Dequeue
<1>11. ASSUME NEW i \in Doors, SetInUse(i) PROVE FCFSInv'
  BY <1>11 DEF SetInUse
<1>12. ASSUME NEW i \in Doors, ReadLower(i) PROVE FCFSInv'
  BY <1>12 DEF ReadLower
<1>13. ASSUME NEW i \in Doors, BackOff(i) PROVE FCFSInv'
  BY <1>13 DEF BackOff
<1>14. ASSUME NEW i \in Doors, AwaitLower(i) PROVE FCFSInv'
  BY <1>14 DEF AwaitLower
<1>15. ASSUME NEW i \in Doors, AwaitUpper(i) PROVE FCFSInv'
  <2>1. CASE scan[i] = num_doors
    BY <1>15, <2>1 DEF AwaitUpper
  <2>2. CASE scan[i] < num_doors
    <3> SUFFICES ASSUME NEW a \in Doors, NEW k \in ahead'[a]
                 PROVE  (a # k /\ pc[k] \in Queued /\ block[k] /\ HoldsTurn(a, k))'
      BY DEF FCFSInv
    <3>1. pc[i] = "bl_up" /\ pc' = pc /\ scan' = [scan EXCEPT ![i] = scan[i] + 1]
          /\ UNCHANGED <<turn, block, S, ahead>>
      BY <1>15, <2>2 DEF AwaitUpper
    <3>2. a # i
      BY <3>1
    <3> QED
      BY <3>1, <3>2
  <2> QED
    BY <1>15, <2>1, <2>2 DEF AwaitUpper
<1>16. ASSUME NEW i \in Doors, TakeOwnership(i) PROVE FCFSInv'
  BY <1>16 DEF TakeOwnership, Dequeue
<1>17. ASSUME NEW i \in Doors, CountLevel(i) PROVE FCFSInv'
  BY <1>17 DEF CountLevel
<1>18. ASSUME NEW i \in Doors, ClearOwner(i) PROVE FCFSInv'
  BY <1>18 DEF ClearOwner
<1>19. ASSUME NEW i \in Doors, ClearInUse(i) PROVE FCFSInv'
  BY <1>19 DEF ClearInUse
<1>20. ASSUME NEW i \in Doors, ClearReady(i) PROVE FCFSInv'
  BY <1>20 DEF ClearReady
<1>21. ASSUME NEW i \in Doors, Relock(i) PROVE FCFSInv'
  BY <1>21 DEF Relock
<1>22. ASSUME NEW i \in Doors, Unlock(i) PROVE FCFSInv'
  BY <1>22 DEF Unlock, LowerLevel
<1>23. ASSUME NEW i \in Doors, ReleaseAll(i) PROVE FCFSInv'
  BY <1>23 DEF ReleaseAll, LowerLevel
<1>24. CASE UNCHANGED vars
  BY <1>24 DEF vars
<1> QED
  BY <1>1, <1>2, <1>3, <1>4, <1>5, <1>6, <1>7, <1>8, <1>9, <1>10, <1>11, <1>12, <1>13, <1>14, <1>15, <1>16, <1>17, <1>18, <1>19, <1>20, <1>21, <1>22, <1>23, <1>24 DEF Next, Advance

-----------------------------------------------------------------------------
(* The constructor leaves the lock in the invariant.                        *)
LEMMA InitInv == Init => IInv
<1> SUFFICES ASSUME Init PROVE IInv
  OBVIOUS
<1> USE DoorFacts, LevelAssumption DEF Init, Labels, Queued, Critical, Granted
<1>1. TypeOK
  BY DEF TypeOK, Turns, NoTurns, Bits
<1>2. ScanInv /\ FlagInv
  BY DEF ScanInv, FlagInv, Waiting
<1>3. ExclusionInv /\ OwnerInv
  BY DEF ExclusionInv, Checked, OwnerInv
<1>4. FCFSInv
  BY DEF FCFSInv
<1> QED
  BY <1>1, <1>2, <1>3, <1>4 DEF IInv

(* The inductive invariant holds in every state of the lock.                *)
THEOREM Invariance == Spec => []IInv
<1>1. IInv /\ [Next]_vars => IInv'
  <2> SUFFICES ASSUME IInv, [Next]_vars PROVE IInv'
    OBVIOUS
  <2>1. TypeOK /\ ScanInv /\ OwnerInv
    BY DEF IInv
  <2>2. TypeOK'
    BY <2>1, TypeStep
  <2>3. ScanInv' /\ FlagInv' /\ ExclusionInv'
    BY ScanStep, FlagStep, ExclusionStep
  <2>4. OwnerInv' /\ FCFSInv'
    BY OwnerStep, FCFSStep
  <2> QED
    BY <2>2, <2>3, <2>4 DEF IInv
<1> QED
  BY <1>1, InitInv, PTL DEF Spec

(* The fields of the lock and the locals of do_try_lock keep their types,   *)
(* whatever the number of doors.                                            *)
THEOREM TypeCorrect == Spec => []TypeOK
<1>1. IInv => TypeOK
  BY DEF IInv
<1> QED
  BY <1>1, Invariance, PTL

(* Two processes never hold the MutexLock together.                         *)
THEOREM Exclusion == Spec => []MutualExclusion
<1>1. IInv => MutualExclusion
  BY DEF IInv, ExclusionInv, Checked, Granted, MutualExclusion
<1> QED
  BY <1>1, Invariance, PTL

(* owner_index and lockcount describe the holder while there is one, and    *)
(* are back at their initial values when there is none.                     *)
THEOREM OwnerDescribesHolder == Spec => []OwnerIsHolder
<1>1. IInv => OwnerIsHolder
  BY DEF IInv, OwnerInv, OwnerIsHolder, Critical
<1> QED
  BY <1>1, Invariance, PTL

(* Whoever gets the lock has overtaken no blocked caller that had left the  *)
(* doorway before it came, even when others give up with try_lock.          *)
THEOREM ServedInOrder == Spec => []FirstComeFirstServed
<1>1. IInv => FirstComeFirstServed
  BY DEF IInv, FCFSInv, HoldsTurn, Granted, Critical, FirstComeFirstServed
<1> QED
  BY <1>1, Invariance, PTL
=============================================================================
