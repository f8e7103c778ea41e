---------------------------- MODULE SemMutexLock ----------------------------
(***************************************************************************)
(* The MutexLock<num_doors> of IPC/MutexLock.h that every build except     *)
(* Aperios uses: a SysV semaphore counts the recursion levels, and         *)
(* owner_index and owner_thread, plain fields in shared memory, say whose  *)
(* they are.  Each action makes one semaphore operation or one access to a *)
(* field.                                                                  *)
(*                                                                         *)
(* A thread t calls with the id Process[t]; Handle[t] is its pthread_t,    *)
(* which is unique within a process only, since processes are forked.      *)
(***************************************************************************)
EXTENDS Integers, FiniteSets

CONSTANTS
  Threads,
  Process,    \* the id a thread passes to lock(): its process
  Handle,     \* pthread_self() of each thread
  NoThread,   \* owner_thread() of the constructor
  MaxLevel,   \* bound on the recursion depth
  MayFault    \* whether faultShutdown() of a signal handler is considered

NO_OWNER == -1

ASSUME ProcessAssumption == Process \in [Threads -> Nat]
ASSUME HandleAssumption ==
  /\ NoThread \notin {Handle[t] : t \in Threads}
  /\ \A t, u \in Threads : Process[t] = Process[u] /\ Handle[t] = Handle[u] => t = u
ASSUME BoundAssumption == MaxLevel \in Nat \ {0} /\ MayFault \in BOOLEAN

VARIABLES
  sem,           \* value of the semaphore
  fault,         \* semgr->hadFault(): the semaphore set has been removed
  owner_index,   \* process id of the owner, or NO_OWNER
  owner_thread,  \* handle of the last thread that was granted the lock
  pc,            \* where each thread is
  try,           \* whether the call in progress is try_lock()
  held           \* levels a thread has got from lock() and not given back

vars == <<sem, fault, owner_index, owner_thread, pc, try, held>>
fields == <<owner_index, owner_thread>>

Labels == {"idle", "index", "thread", "acquire", "raise", "setindex", "setthread",
           "value", "isone", "disown", "lower", "release", "zero", "exited"}

Init ==
  /\ sem = 0
  /\ fault = FALSE
  /\ owner_index = NO_OWNER
  /\ owner_thread = NoThread
  /\ pc = [t \in Threads |-> "idle"]
  /\ try = [t \in Threads |-> FALSE]
  /\ held = [t \in Threads |-> 0]

At(t, label) == pc[t] = label
Goto(t, label) == pc' = [pc EXCEPT ![t] = label]

\* A semop or SETVAL on a set that is gone: the process prints "Goodbye".
Exit(t) == pc' = [u \in Threads |-> IF Process[u] = Process[t] THEN "exited" ELSE pc[u]]

\* lock() or try_lock() returns true.
Granted(t) ==
  /\ held' = [held EXCEPT ![t] = @ + 1]
  /\ Goto(t, "idle")

-----------------------------------------------------------------------------
(* lock() and try_lock().  A thread that already has MaxLevel levels does   *)
(* not ask for another one.                                                 *)

Lock(t) ==
  /\ At(t, "idle")
  /\ held[t] < MaxLevel
  /\ try' = [try EXCEPT ![t] = FALSE]
  /\ Goto(t, "index")
  /\ UNCHANGED <<sem, fault, fields, held>>

TryLock(t) ==
  /\ At(t, "idle")
  /\ held[t] < MaxLevel
  /\ try' = [try EXCEPT ![t] = TRUE]
  /\ \/ ~fault /\ Goto(t, "index") /\ UNCHANGED <<owner_index, held>>
     \/ fault /\ owner_index' = Process[t] /\ Granted(t)   \* "assuming try_lock success"
  /\ UNCHANGED <<sem, fault, owner_thread>>

\* Not the owner: wait for the semaphore; after a fault, assume the lock.
GoAcquire(t) == Goto(t, IF fault /\ ~try[t] THEN "setindex" ELSE "acquire")

ReadOwnerIndex(t) ==
  /\ At(t, "index")
  /\ \/ owner_index = Process[t] /\ Goto(t, "thread")
     \/ owner_index # Process[t] /\ GoAcquire(t)
  /\ UNCHANGED <<sem, fault, fields, try, held>>

\* isOwnerThread().
ReadOwnerThread(t) ==
  /\ At(t, "thread")
  /\ \/ owner_thread = Handle[t] /\ Goto(t, "raise")
     \/ owner_thread # Handle[t] /\ GoAcquire(t)
  /\ UNCHANGED <<sem, fault, fields, try, held>>

\* semgr->raise(sem,1), which reports an error and goes on.
Raise(t) ==
  /\ At(t, "raise")
  /\ sem' = IF fault THEN sem ELSE sem + 1
  /\ Granted(t)
  /\ UNCHANGED <<fault, fields, try>>

\* semgr->testZero_add(sem,1): atomic in the kernel.
TestZeroAdd(t) ==
  /\ At(t, "acquire")
  /\ \/ fault /\ Exit(t) /\ UNCHANGED sem
     \/ ~fault /\ sem = 0 /\ sem' = 1 /\ Goto(t, "setindex")
     \/ ~fault /\ sem # 0 /\ try[t] /\ Goto(t, "idle") /\ UNCHANGED sem
  /\ UNCHANGED <<fault, fields, try, held>>

SetOwnerIndex(t) ==
  /\ At(t, "setindex")
  /\ owner_index' = Process[t]
  /\ Goto(t, "setthread")
  /\ UNCHANGED <<sem, fault, owner_thread, try, held>>

SetOwnerThread(t) ==
  /\ At(t, "setthread")
  /\ owner_thread' = Handle[t]
  /\ Granted(t)
  /\ UNCHANGED <<sem, fault, owner_index, try>>

-----------------------------------------------------------------------------
(* unlock(): the thread is out of its critical section when it calls it.    *)

Unlock(t) ==
  /\ At(t, "idle")
  /\ held[t] > 0
  /\ held' = [held EXCEPT ![t] = @ - 1]
  /\ Goto(t, "value")
  /\ UNCHANGED <<sem, fault, fields, try>>

\* The test for an underflow.  After a fault getValue() answers -1.
TestUnderflow(t) ==
  /\ At(t, "value")
  /\ \/ (fault \/ sem <= 0) /\ owner_index' = NO_OWNER /\ Goto(t, "idle")
     \/ ~fault /\ sem > 0 /\ Goto(t, "isone") /\ UNCHANGED owner_index
  /\ UNCHANGED <<sem, fault, owner_thread, try, held>>

\* Mutant: the owner is cleared one level too early.
TestLastLevel_OffByOne(t) ==
  /\ At(t, "isone")
  /\ Goto(t, IF sem <= 2 /\ ~fault THEN "disown" ELSE "lower")
  /\ UNCHANGED <<sem, fault, fields, try, held>>

TestLastLevel(t) ==
  /\ At(t, "isone")
  /\ Goto(t, IF sem = 1 /\ ~fault THEN "disown" ELSE "lower")
  /\ UNCHANGED <<sem, fault, fields, try, held>>

\* Mutant: the last unlock() leaves owner_index behind.
Disown_Forgotten(t) ==
  /\ At(t, "disown")
  /\ Goto(t, "lower")
  /\ UNCHANGED <<sem, fault, fields, try, held>>

Disown(t) ==
  /\ At(t, "disown")
  /\ owner_index' = NO_OWNER
  /\ Goto(t, "lower")
  /\ UNCHANGED <<sem, fault, owner_thread, try, held>>

\* semgr->lower(sem,1,false).
Lower(t) ==
  /\ At(t, "lower")
  /\ \/ fault /\ Exit(t) /\ UNCHANGED sem
     \/ ~fault /\ sem > 0 /\ sem' = sem - 1 /\ Goto(t, "idle")
     \/ ~fault /\ sem <= 0 /\ Goto(t, "idle") /\ UNCHANGED sem
  /\ UNCHANGED <<fault, fields, try, held>>

ReleaseAll(t) ==
  /\ At(t, "idle")
  /\ held[t] > 0
  /\ held' = [held EXCEPT ![t] = 0]
  /\ Goto(t, "release")
  /\ UNCHANGED <<sem, fault, fields, try>>

ReleaseOwner(t) ==
  /\ At(t, "release")
  /\ owner_index' = NO_OWNER
  /\ Goto(t, IF fault THEN "idle" ELSE "zero")
  /\ UNCHANGED <<sem, fault, owner_thread, try, held>>

\* Mutant: releaseAll() lowers the semaphore by one, as unlock() does.
SetZero_OneLevel(t) ==
  /\ At(t, "zero")
  /\ \/ fault /\ Exit(t) /\ UNCHANGED sem
     \/ ~fault /\ sem' = sem - 1 /\ Goto(t, "idle")
  /\ UNCHANGED <<fault, fields, try, held>>

SetZero(t) ==
  /\ At(t, "zero")
  /\ \/ fault /\ Exit(t) /\ UNCHANGED sem
     \/ ~fault /\ sem' = 0 /\ Goto(t, "idle")
  /\ UNCHANGED <<fault, fields, try, held>>

-----------------------------------------------------------------------------
\* A signal handler removes the semaphore set of all processes.
FaultShutdown ==
  /\ MayFault
  /\ ~fault
  /\ fault' = TRUE
  /\ UNCHANGED <<sem, fields, pc, try, held>>

\* Steps of a call in progress.
Advance(t) ==
  \/ ReadOwnerIndex(t) \/ ReadOwnerThread(t) \/ Raise(t) \/ TestZeroAdd(t)
  \/ SetOwnerIndex(t) \/ SetOwnerThread(t)
  \/ TestUnderflow(t) \/ TestLastLevel(t) \/ Disown(t) \/ Lower(t)
  \/ ReleaseOwner(t) \/ SetZero(t)

Call(t) == Lock(t) \/ TryLock(t) \/ Unlock(t) \/ ReleaseAll(t)

Next == FaultShutdown \/ \E t \in Threads : Call(t) \/ Advance(t)

Spec == Init /\ [][Next]_vars

\* Threads are scheduled, a holder comes out of its critical section, and the
\* kernel serves the sleepers of a semaphore in the order they came.
FairSpec ==
  /\ Spec
  /\ \A t \in Threads :
       WF_vars(Advance(t)) /\ SF_vars(ReleaseAll(t)) /\ SF_vars(TestZeroAdd(t))

-----------------------------------------------------------------------------
TypeOK ==
  /\ sem \in Nat
  /\ fault \in BOOLEAN
  /\ owner_index \in {Process[t] : t \in Threads} \union {NO_OWNER}
  /\ owner_thread \in {Handle[t] : t \in Threads} \union {NoThread}
  /\ pc \in [Threads -> Labels]
  /\ try \in [Threads -> BOOLEAN]
  /\ held \in [Threads -> 0 .. MaxLevel]

(* The class comment: two threads of control never have the lock together,  *)
(* as long as the semaphore set exists.                                     *)
MutualExclusion ==
  ~fault => \A t, u \in Threads : held[t] > 0 /\ held[u] > 0 => t = u

(* The semaphore counts the levels: between calls its value is the number   *)
(* of levels of the holder, so unlock() gives the lock back exactly at the  *)
(* last level and never warns of an underflow.                              *)
SemaphoreCountsLevels ==
  ~fault =>
    /\ \A t \in Threads : pc[t] = "idle" /\ held[t] > 0 => sem = held[t]
    /\ \A t \in Threads : pc[t] \in {"value", "isone", "lower"} => sem = held[t] + 1
    /\ (\A t \in Threads : pc[t] = "idle" /\ held[t] = 0) => sem = 0

(* lock() is recursive: a thread that holds the lock never waits for it.    *)
NeverWaitsForItself ==
  ~fault => \A t \in Threads : held[t] > 0 => pc[t] # "acquire"

(* "blocks until lock is achieved": a thread that sleeps in lock() gets the *)
(* lock, unless a fault ends the wait.                                      *)
LockIsAchieved ==
  \A t \in Threads : (pc[t] = "acquire" /\ ~try[t]) ~> (fault \/ held[t] > 0)
=============================================================================
