--------------------------- MODULE SoftMutexLock ---------------------------
(***************************************************************************)
(* The software-only MutexLock<num_doors> of IPC/MutexLock.h, the lock the *)
(* processes of the robot (Main, Motion, Sound) share on Aperios: a        *)
(* first-come-first-served doorway in front of a Burns-Lamport section.    *)
(*                                                                         *)
(* A process is named by the index of its door: lookup() has been called   *)
(* by every process before (see README, SoftMutexLock).  Each action makes *)
(* at most one access to memory another process writes or reads, so every  *)
(* interleaving of the volatile accesses of do_try_lock is a behaviour.    *)
(*                                                                         *)
(* A busy loop is a guard that waits; the loop over the doors is the       *)
(* program counter "fcfs_..." or "bl_..." with the index in scan.          *)
(***************************************************************************)
EXTENDS Integers, FiniteSets

CONSTANTS
  num_doors,   \* the template parameter: doors, and processes that use them
  MaxLevel,    \* bound on the recursion depth of the holder
  Modes        \* the values of do_try_lock's argument block that are used:
               \* {TRUE} when only lock() is called, FALSE stands for try_lock()

ASSUME DoorsAssumption == num_doors \in Nat \ {0}
ASSUME LevelAssumption == MaxLevel \in Nat \ {0}
ASSUME ModesAssumption == Modes \subseteq BOOLEAN

Doors == 0 .. (num_doors - 1)
NO_OWNER == -1

VARIABLES
  FCFS_in_use,    \* doors[i].FCFS_in_use, "c_i" of the paper
  BL_ready,       \* doors[i].BL_ready, "v_i"
  BL_in_use,      \* doors[i].BL_in_use, "x_i"
  turn,           \* doors[i].turn, the two bits of the clock pulse
  next_turn_bit,  \* doors[i].next_turn_bit
  owner_index,    \* door of the owner, or NO_OWNER
  lockcount,      \* recursion depth
  pc,             \* where each process is
  block,          \* argument of the do_try_lock in progress
  S,              \* its local copy of everyone's turn
  scan,           \* its loop index j or t
  ahead           \* history: who had left the doorway when i entered it and
                  \* has neither got the lock nor given up since

doorVars == <<FCFS_in_use, BL_ready, BL_in_use, turn, next_turn_bit>>
lockVars == <<owner_index, lockcount>>
vars == <<FCFS_in_use, BL_ready, BL_in_use, turn, next_turn_bit,
          owner_index, lockcount, pc, block, S, scan, ahead>>

Bits == {0, 1}
Turns == [Bits -> BOOLEAN]
NoTurns == [j \in Doors |-> [b \in Bits |-> FALSE]]

\* Past the doorway, competing for the lock.
Queued == {"fcfs_c", "fcfs_v", "fcfs_t", "bl_set", "bl_low", "bl_back",
           "bl_wait", "bl_up", "own"}
\* Holding the lock: from the grant to the first write of its release.
Critical == {"count", "cs", "unown", "unuse"}
Labels == {"idle", "door", "snap", "flip", "ready", "leave", "giveup",
           "unready"} \union Queued \union Critical

Init ==
  /\ FCFS_in_use = [i \in Doors |-> FALSE]
  /\ BL_ready = [i \in Doors |-> FALSE]
  /\ BL_in_use = [i \in Doors |-> FALSE]
  /\ turn = [i \in Doors |-> [b \in Bits |-> FALSE]]
  /\ next_turn_bit = [i \in Doors |-> 0]
  /\ owner_index = NO_OWNER
  /\ lockcount = 0
  /\ pc = [i \in Doors |-> "idle"]
  /\ block = [i \in Doors |-> TRUE]
  /\ S = [i \in Doors |-> NoTurns]
  /\ scan = [i \in Doors |-> 0]
  /\ ahead = [i \in Doors |-> {}]

Goto(i, label) == pc' = [pc EXCEPT ![i] = label]
At(i, label) == pc[i] = label
Scan(i, k) == scan' = [scan EXCEPT ![i] = k]

\* i leaves the queue: nobody has to let it go first any longer.
Dequeue(i) == ahead' = [k \in Doors |-> ahead[k] \ {i}]

-----------------------------------------------------------------------------
(* lock(), try_lock() by a process that is not the owner.                  *)

Call(i) ==
  /\ At(i, "idle")
  /\ owner_index # i
  /\ \E b \in Modes : block' = [block EXCEPT ![i] = b]
  /\ Goto(i, "door")
  /\ UNCHANGED <<doorVars, lockVars, S, scan, ahead>>

EnterDoorway(i) ==
  /\ At(i, "door")
  /\ FCFS_in_use' = [FCFS_in_use EXCEPT ![i] = TRUE]
  /\ ahead' = [ahead EXCEPT ![i] =
                 {k \in Doors : pc[k] \in Queued /\ block[k]}]
  /\ Scan(i, 0)
  /\ Goto(i, "snap")
  /\ UNCHANGED <<BL_ready, BL_in_use, turn, next_turn_bit, lockVars, block, S>>

CopyTurn(i) ==
  /\ At(i, "snap")
  /\ S' = [S EXCEPT ![i][scan[i]] = turn[scan[i]]]
  /\ Scan(i, scan[i] + 1)
  /\ IF scan[i] + 1 = num_doors THEN Goto(i, "flip") ELSE UNCHANGED pc
  /\ UNCHANGED <<doorVars, lockVars, block, ahead>>

\* next_turn_bit is read by its own process only.
FlipTurn(i) ==
  /\ At(i, "flip")
  /\ next_turn_bit' = [next_turn_bit EXCEPT ![i] = 1 - @]
  /\ turn' = [turn EXCEPT ![i][1 - next_turn_bit[i]] = ~@]
  /\ Goto(i, "ready")
  /\ UNCHANGED <<FCFS_in_use, BL_ready, BL_in_use, lockVars, block, S, scan, ahead>>

SetReady(i) ==
  /\ At(i, "ready")
  /\ BL_ready' = [BL_ready EXCEPT ![i] = TRUE]
  /\ Goto(i, "leave")
  /\ UNCHANGED <<FCFS_in_use, BL_in_use, turn, next_turn_bit, lockVars, block,
                 S, scan, ahead>>

LeaveDoorway(i) ==
  /\ At(i, "leave")
  /\ FCFS_in_use' = [FCFS_in_use EXCEPT ![i] = FALSE]
  /\ Scan(i, 0)
  /\ Goto(i, "fcfs_c")
  /\ UNCHANGED <<BL_ready, BL_in_use, turn, next_turn_bit, lockVars, block, S, ahead>>

-----------------------------------------------------------------------------
(* The wait for those who came first: FCFS_in_use || (BL_ready && S==turn) *)
(* is three reads, each an action.                                         *)

\* The copy of the turns is a local that dies with the wait.
ForgetTurns(i) == S' = [S EXCEPT ![i] = NoTurns]

PassDoor(i) ==
  /\ scan[i] + 1 < num_doors
  /\ Scan(i, scan[i] + 1)
  /\ Goto(i, "fcfs_c")
  /\ UNCHANGED S

PassLastDoor(i) ==
  /\ scan[i] + 1 = num_doors
  /\ Scan(i, 0)
  /\ Goto(i, "bl_set")
  /\ ForgetTurns(i)

ReadInUse(i) ==
  /\ At(i, "fcfs_c")
  /\ \/ ~FCFS_in_use[scan[i]] /\ Goto(i, "fcfs_v")
     \/ FCFS_in_use[scan[i]] /\ ~block[i] /\ Goto(i, "giveup")
  /\ UNCHANGED <<doorVars, lockVars, block, S, scan, ahead>>

ReadReady(i) ==
  /\ At(i, "fcfs_v")
  /\ \/ BL_ready[scan[i]] /\ Goto(i, "fcfs_t") /\ UNCHANGED <<S, scan>>
     \/ ~BL_ready[scan[i]] /\ (PassDoor(i) \/ PassLastDoor(i))
  /\ UNCHANGED <<doorVars, lockVars, block, ahead>>

\* Mutant: whoever is ready is passed, whether his turn came first or not.
ReadTurn_Unheeded(i) ==
  /\ At(i, "fcfs_t")
  /\ PassDoor(i) \/ PassLastDoor(i)
  /\ UNCHANGED <<doorVars, lockVars, block, ahead>>

ReadTurn(i) ==
  /\ At(i, "fcfs_t")
  /\ \/ S[i][scan[i]] # turn[scan[i]] /\ (PassDoor(i) \/ PassLastDoor(i))
     \/ /\ S[i][scan[i]] = turn[scan[i]]
        /\ Goto(i, IF block[i] THEN "fcfs_c" ELSE "giveup")
        /\ UNCHANGED <<S, scan>>
  /\ UNCHANGED <<doorVars, lockVars, block, ahead>>

\* try_lock returns false.
GiveUp(i) ==
  /\ At(i, "giveup")
  /\ BL_ready' = [BL_ready EXCEPT ![i] = FALSE]
  /\ Dequeue(i)
  /\ ForgetTurns(i)
  /\ Scan(i, 0)
  /\ Goto(i, "idle")
  /\ UNCHANGED <<FCFS_in_use, BL_in_use, turn, next_turn_bit, lockVars, block>>

-----------------------------------------------------------------------------
(* Burns-Lamport.                                                          *)

\* Mutant: the flag is raised after the other doors have been looked at.
SetInUse_Late(i) ==
  /\ At(i, "bl_set")
  /\ Scan(i, 0)
  /\ Goto(i, "bl_low")
  /\ UNCHANGED <<doorVars, lockVars, block, S, ahead>>

SetInUse(i) ==
  /\ At(i, "bl_set")
  /\ BL_in_use' = [BL_in_use EXCEPT ![i] = TRUE]
  /\ Scan(i, 0)
  /\ Goto(i, "bl_low")
  /\ UNCHANGED <<FCFS_in_use, BL_ready, turn, next_turn_bit, lockVars, block, S, ahead>>

ReadLower(i) ==
  /\ At(i, "bl_low")
  /\ \/ scan[i] = i /\ Goto(i, "bl_up") /\ Scan(i, i + 1)
     \/ scan[i] < i /\ ~BL_in_use[scan[i]] /\ Scan(i, scan[i] + 1) /\ UNCHANGED pc
     \/ scan[i] < i /\ BL_in_use[scan[i]] /\ Goto(i, "bl_back") /\ UNCHANGED scan
  /\ UNCHANGED <<doorVars, lockVars, block, S, ahead>>

BackOff(i) ==
  /\ At(i, "bl_back")
  /\ BL_in_use' = [BL_in_use EXCEPT ![i] = FALSE]
  /\ Goto(i, IF block[i] THEN "bl_wait" ELSE "giveup")
  /\ UNCHANGED <<FCFS_in_use, BL_ready, turn, next_turn_bit, lockVars, block,
                 S, scan, ahead>>

AwaitLower(i) ==
  /\ At(i, "bl_wait")
  /\ ~BL_in_use[scan[i]]
  /\ Goto(i, "bl_set")
  /\ UNCHANGED <<doorVars, lockVars, block, S, scan, ahead>>

\* Spins whatever block is.
AwaitUpper(i) ==
  /\ At(i, "bl_up")
  /\ \/ scan[i] = num_doors /\ Goto(i, "own") /\ Scan(i, 0)
     \/ scan[i] < num_doors /\ ~BL_in_use[scan[i]] /\ Scan(i, scan[i] + 1) /\ UNCHANGED pc
  /\ UNCHANGED <<doorVars, lockVars, block, S, ahead>>

TakeOwnership(i) ==
  /\ At(i, "own")
  /\ owner_index' = i
  /\ Dequeue(i)
  /\ Goto(i, "count")
  /\ UNCHANGED <<doorVars, lockcount, block, S, scan>>

CountLevel(i) ==
  /\ At(i, "count")
  /\ lockcount' = lockcount + 1
  /\ Goto(i, "cs")
  /\ UNCHANGED <<doorVars, owner_index, block, S, scan, ahead>>

-----------------------------------------------------------------------------
(* The owner: lock() again, unlock(), releaseAll().                        *)

Relock(i) ==
  /\ At(i, "cs")
  /\ owner_index = i
  /\ lockcount < MaxLevel
  /\ lockcount' = lockcount + 1
  /\ UNCHANGED <<doorVars, owner_index, pc, block, S, scan, ahead>>

\* --lockcount, and the test that decides whether the lock is given back.
LowerLevel(i, level) ==
  /\ lockcount' = level - 1
  /\ Goto(i, IF level = 1 /\ owner_index # NO_OWNER THEN "unown" ELSE "cs")
  /\ UNCHANGED <<doorVars, owner_index, block, S, scan, ahead>>

Unlock(i) == At(i, "cs") /\ lockcount > 0 /\ LowerLevel(i, lockcount)

\* Mutant: releaseAll() forgets to set lockcount to 1 before it unlocks.
ReleaseAll_KeepsLevel(i) ==
  /\ At(i, "cs")
  /\ Goto(i, "unown")
  /\ UNCHANGED <<doorVars, lockVars, block, S, scan, ahead>>

ReleaseAll(i) == At(i, "cs") /\ LowerLevel(i, 1)

ClearOwner(i) ==
  /\ At(i, "unown")
  /\ owner_index' = NO_OWNER
  /\ Goto(i, "unuse")
  /\ UNCHANGED <<doorVars, lockcount, block, S, scan, ahead>>

ClearInUse(i) ==
  /\ At(i, "unuse")
  /\ BL_in_use' = [BL_in_use EXCEPT ![i] = FALSE]
  /\ Goto(i, "unready")
  /\ UNCHANGED <<FCFS_in_use, BL_ready, turn, next_turn_bit, lockVars, block,
                 S, scan, ahead>>

\* Mutant: BL_ready stays set after the release.
ClearReady_Forgotten(i) ==
  /\ At(i, "unready")
  /\ Goto(i, "idle")
  /\ UNCHANGED <<doorVars, lockVars, block, S, scan, ahead>>

ClearReady(i) ==
  /\ At(i, "unready")
  /\ BL_ready' = [BL_ready EXCEPT ![i] = FALSE]
  /\ Goto(i, "idle")
  /\ UNCHANGED <<FCFS_in_use, BL_in_use, turn, next_turn_bit, lockVars, block,
                 S, scan, ahead>>

-----------------------------------------------------------------------------
\* Steps of a call in progress, which the scheduler makes the process take.
Advance(i) ==
  \/ EnterDoorway(i) \/ CopyTurn(i) \/ FlipTurn(i) \/ SetReady(i) \/ LeaveDoorway(i)
  \/ ReadInUse(i) \/ ReadReady(i) \/ ReadTurn(i) \/ GiveUp(i)
  \/ SetInUse(i) \/ ReadLower(i) \/ BackOff(i) \/ AwaitLower(i) \/ AwaitUpper(i)
  \/ TakeOwnership(i) \/ CountLevel(i)
  \/ ClearOwner(i) \/ ClearInUse(i) \/ ClearReady(i)

Next == \E i \in Doors : Call(i) \/ Advance(i) \/ Relock(i) \/ Unlock(i) \/ ReleaseAll(i)

Spec == Init /\ [][Next]_vars

\* Every process is scheduled, and a holder releases: the lock is only held
\* around short sections of code (a MarkScope or a lock/unlock pair).
Fairness ==
  \A i \in Doors : WF_vars(Advance(i)) /\ WF_vars(ReleaseAll(i))

FairSpec == Spec /\ Fairness

-----------------------------------------------------------------------------
TypeOK ==
  /\ FCFS_in_use \in [Doors -> BOOLEAN]
  /\ BL_ready \in [Doors -> BOOLEAN]
  /\ BL_in_use \in [Doors -> BOOLEAN]
  /\ turn \in [Doors -> Turns]
  /\ next_turn_bit \in [Doors -> Bits]
  /\ owner_index \in Doors \union {NO_OWNER}
  /\ lockcount \in 0 .. MaxLevel
  /\ pc \in [Doors -> Labels]
  /\ block \in [Doors -> BOOLEAN]
  /\ S \in [Doors -> [Doors -> Turns]]
  /\ scan \in [Doors -> 0 .. num_doors]
  /\ ahead \in [Doors -> SUBSET Doors]

(* "Use this to prevent more than one process from accessing a data         *)
(* structure at the same time": two processes never hold the lock together. *)
MutualExclusion ==
  \A i, j \in Doors : pc[i] \in Critical /\ pc[j] \in Critical => i = j

(* The shared fields tell the truth about the holder: while a process is in *)
(* its critical section owner_index is its door and lockcount its depth,    *)
(* and when nobody is, the next owner starts from depth 0.                  *)
OwnerIsHolder ==
  /\ \A i \in Doors : pc[i] = "cs" => owner_index = i /\ lockcount > 0
  /\ (\A i \in Doors : pc[i] \notin Critical) => owner_index = NO_OWNER /\ lockcount = 0

(* First come, first served: a process that gets the lock has overtaken     *)
(* nobody who had called lock() and left the doorway before it came.        *)
FirstComeFirstServed ==
  \A i \in Doors : pc[i] \in Critical => ahead[i] = {}

(* lock() "blocks ... until a lock is achieved": while nobody uses          *)
(* try_lock(), every call gets the lock in the end.                         *)
LockIsAchieved ==
  [](\A i \in Doors : pc[i] # "idle" => block[i])
    => \A i \in Doors : (pc[i] = "door") ~> (pc[i] = "cs")
=============================================================================
