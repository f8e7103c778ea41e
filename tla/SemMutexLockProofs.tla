------------------------- MODULE SemMutexLockProofs -------------------------
(***************************************************************************)
(* Proofs about SemMutexLock, for any number of processes and any depth of *)
(* recursion: the lock excludes as long as each process uses it from one   *)
(* thread.  The hypothesis is needed: SemMutexLockThreads shows what two   *)
(* threads of one process can do.                                          *)
(***************************************************************************)
EXTENDS SemMutexLock, TLAPS

OneThreadPerProcess == \A t, u \in Threads : Process[t] = Process[u] => t = u

Asking == {"index", "thread", "acquire", "raise", "setindex", "setthread"}
Leaving == {"disown", "release", "zero"}
Unlocking == {"value", "isone", "disown", "lower"}

\* Between the grant of the semaphore and its release.
Inside(t) ==
  held[t] > 0 \/ pc[t] \in {"setindex", "setthread"} \union Unlocking \union Leaving

Level(t) == IF pc[t] \in {"setindex", "setthread"} \union Unlocking THEN held[t] + 1 ELSE held[t]

CallInv == \A t \in Threads : pc[t] \in Asking => held[t] < MaxLevel

\* One thread is inside, and the semaphore counts its levels.
InsideInv ==
  /\ \A t, u \in Threads : Inside(t) /\ Inside(u) => t = u
  /\ \A t \in Threads : Inside(t) => sem > 0
  /\ \A t \in Threads : Inside(t) /\ pc[t] \notin {"release", "zero"} => sem = Level(t)
  /\ (\A t \in Threads : ~Inside(t)) => sem = 0

\* The owner fields name the thread inside, and a holder finds itself there.
OwnerInv ==
  \A t \in Threads :
    /\ owner_index = Process[t] => Inside(t)
    /\ pc[t] \in {"thread", "raise"} => held[t] > 0
    /\ pc[t] \in {"acquire", "setindex", "setthread"} \union Leaving => held[t] = 0
    /\ pc[t] = "setthread" => owner_index = Process[t]
    /\ held[t] > 0 => owner_index = Process[t] /\ owner_thread = Handle[t]
    /\ pc[t] = "zero" \/ (pc[t] = "lower" /\ held[t] = 0) => owner_index = NO_OWNER
    /\ pc[t] # "exited"

IInv == TypeOK /\ CallInv /\ (~fault => InsideInv /\ OwnerInv)

(* Every step keeps the types; a call in progress has room for its level.   *)
LEMMA TypeStep ==
  ASSUME TypeOK, CallInv, [Next]_vars
  PROVE  TypeOK'
<1> USE ProcessAssumption, HandleAssumption, BoundAssumption
    DEF TypeOK, fields, At, Goto, CallInv, Labels, Asking
<1>1. CASE FaultShutdown
  BY <1>1 DEF FaultShutdown
<1>2. ASSUME NEW i \in Threads, Lock(i) PROVE TypeOK'
  BY <1>2 DEF Lock
<1>3. ASSUME NEW i \in Threads, TryLock(i) PROVE TypeOK'
  BY <1>3 DEF TryLock, Granted
<1>4. ASSUME NEW i \in Threads, ReadOwnerIndex(i) PROVE TypeOK'
  BY <1>4 DEF ReadOwnerIndex, GoAcquire
<1>5. ASSUME NEW i \in Threads, ReadOwnerThread(i) PROVE TypeOK'
  BY <1>5 DEF ReadOwnerThread, GoAcquire
<1>6. ASSUME NEW i \in Threads, Raise(i) PROVE TypeOK'
  BY <1>6 DEF Raise, Granted
<1>7. ASSUME NEW i \in Threads, TestZeroAdd(i) PROVE TypeOK'
  BY <1>7 DEF TestZeroAdd, Exit
<1>8. ASSUME NEW i \in Threads, SetOwnerIndex(i) PROVE TypeOK'
  BY <1>8 DEF SetOwnerIndex
<1>9. ASSUME NEW i \in Threads, SetOwnerThread(i) PROVE TypeOK'
  BY <1>9 DEF SetOwnerThread, Granted
<1>10. ASSUME NEW i \in Threads, Unlock(i) PROVE TypeOK'
  BY <1>10 DEF Unlock
<1>11. ASSUME NEW i \in Threads, TestUnderflow(i) PROVE TypeOK'
  BY <1>11 DEF TestUnderflow
<1>12. ASSUME NEW i \in Threads, TestLastLevel(i) PROVE TypeOK'
  BY <1>12 DEF TestLastLevel
<1>13. ASSUME NEW i \in Threads, Disown(i) PROVE TypeOK'
  BY <1>13 DEF Disown
<1>14. ASSUME NEW i \in Threads, Lower(i) PROVE TypeOK'
  BY <1>14 DEF Lower, Exit
<1>15. ASSUME NEW i \in Threads, ReleaseAll(i) PROVE TypeOK'
  BY <1>15 DEF ReleaseAll
<1>16. ASSUME NEW i \in Threads, ReleaseOwner(i) PROVE TypeOK'
  BY <1>16 DEF ReleaseOwner
<1>17. ASSUME NEW i \in Threads, SetZero(i) PROVE TypeOK'
  BY <1>17 DEF SetZero, Exit
<1>18. CASE UNCHANGED vars
  BY <1>18 DEF vars
<1> QED
  BY <1>1, <1>2, <1>3, <1>4, <1>5, <1>6, <1>7, <1>8, <1>9, <1>10, <1>11, <1>12, <1>13, <1>14, <1>15, <1>16, <1>17, <1>18 DEF Next, Call, Advance

(* Every step leaves a caller the room for one level more.                  *)
LEMMA CallStep ==
  ASSUME TypeOK, CallInv, [Next]_vars
  PROVE  CallInv'
<1> USE ProcessAssumption, HandleAssumption, BoundAssumption
    DEF TypeOK, fields, At, Goto, CallInv, Asking
<1>1. CASE FaultShutdown
  BY <1>1 DEF FaultShutdown
<1>2. ASSUME NEW i \in Threads, Lock(i) PROVE CallInv'
  BY <1>2 DEF Lock
<1>3. ASSUME NEW i \in Threads, TryLock(i) PROVE CallInv'
  BY <1>3 DEF TryLock, Granted
<1>4. ASSUME NEW i \in Threads, ReadOwnerIndex(i) PROVE CallInv'
  BY <1>4 DEF ReadOwnerIndex, GoAcquire
<1>5. ASSUME NEW i \in Threads, ReadOwnerThread(i) PROVE CallInv'
  BY <1>5 DEF ReadOwnerThread, GoAcquire
<1>6. ASSUME NEW i \in Threads, Raise(i) PROVE CallInv'
  BY <1>6 DEF Raise, Granted
<1>7. ASSUME NEW i \in Threads, TestZeroAdd(i) PROVE CallInv'
  BY <1>7 DEF TestZeroAdd, Exit
<1>8. ASSUME NEW i \in Threads, SetOwnerIndex(i) PROVE CallInv'
  BY <1>8 DEF SetOwnerIndex
<1>9. ASSUME NEW i \in Threads, SetOwnerThread(i) PROVE CallInv'
  BY <1>9 DEF SetOwnerThread, Granted
<1>10. ASSUME NEW i \in Threads, Unlock(i) PROVE CallInv'
  BY <1>10 DEF Unlock
<1>11. ASSUME NEW i \in Threads, TestUnderflow(i) PROVE CallInv'
  BY <1>11 DEF TestUnderflow
<1>12. ASSUME NEW i \in Threads, TestLastLevel(i) PROVE CallInv'
  BY <1>12 DEF TestLastLevel
<1>13. ASSUME NEW i \in Threads, Disown(i) PROVE CallInv'
  BY <1>13 DEF Disown
<1>14. ASSUME NEW i \in Threads, Lower(i) PROVE CallInv'
  BY <1>14 DEF Lower, Exit
<1>15. ASSUME NEW i \in Threads, ReleaseAll(i) PROVE CallInv'
  BY <1>15 DEF ReleaseAll
<1>16. ASSUME NEW i \in Threads, ReleaseOwner(i) PROVE CallInv'
  BY <1>16 DEF ReleaseOwner
<1>17. ASSUME NEW i \in Threads, SetZero(i) PROVE CallInv'
  BY <1>17 DEF SetZero, Exit
<1>18. CASE UNCHANGED vars
  BY <1>18 DEF vars
<1> QED
  BY <1>1, <1>2, <1>3, <1>4, <1>5, <1>6, <1>7, <1>8, <1>9, <1>10, <1>11, <1>12, <1>13, <1>14, <1>15, <1>16, <1>17, <1>18 DEF Next, Call, Advance

(* Every step keeps one thread inside, its levels counted.                  *)
LEMMA InsideStep ==
  ASSUME OneThreadPerProcess, TypeOK, InsideInv, OwnerInv, ~fault, [Next]_vars
  PROVE  (~fault => InsideInv)'
<1> USE ProcessAssumption, HandleAssumption, BoundAssumption
    DEF TypeOK, fields, At, Goto, OneThreadPerProcess, InsideInv, OwnerInv, Inside, Level, Unlocking, Leaving, NO_OWNER
<1>1. CASE FaultShutdown
  BY <1>1 DEF FaultShutdown
<1>2. ASSUME NEW i \in Threads, Lock(i) PROVE (~fault => InsideInv)'
  BY <1>2 DEF Lock
<1>3. ASSUME NEW i \in Threads, TryLock(i) PROVE (~fault => InsideInv)'
  BY <1>3 DEF TryLock, Granted
<1>4. ASSUME NEW i \in Threads, ReadOwnerIndex(i) PROVE (~fault => InsideInv)'
  BY <1>4 DEF ReadOwnerIndex, GoAcquire
<1>5. ASSUME NEW i \in Threads, ReadOwnerThread(i) PROVE (~fault => InsideInv)'
  BY <1>5 DEF ReadOwnerThread, GoAcquire
<1>6. ASSUME NEW i \in Threads, Raise(i) PROVE (~fault => InsideInv)'
  BY <1>6 DEF Raise, Granted
<1>7. ASSUME NEW i \in Threads, TestZeroAdd(i) PROVE (~fault => InsideInv)'
  BY <1>7 DEF TestZeroAdd, Exit
<1>8. ASSUME NEW i \in Threads, SetOwnerIndex(i) PROVE (~fault => InsideInv)'
  BY <1>8 DEF SetOwnerIndex
<1>9. ASSUME NEW i \in Threads, SetOwnerThread(i) PROVE (~fault => InsideInv)'
  BY <1>9 DEF SetOwnerThread, Granted
<1>10. ASSUME NEW i \in Threads, Unlock(i) PROVE (~fault => InsideInv)'
  BY <1>10 DEF Unlock
<1>11. ASSUME NEW i \in Threads, TestUnderflow(i) PROVE (~fault => InsideInv)'
  BY <1>11 DEF TestUnderflow
<1>12. ASSUME NEW i \in Threads, TestLastLevel(i) PROVE (~fault => InsideInv)'
  BY <1>12 DEF TestLastLevel
<1>13. ASSUME NEW i \in Threads, Disown(i) PROVE (~fault => InsideInv)'
  BY <1>13 DEF Disown
<1>14. ASSUME NEW i \in Threads, Lower(i) PROVE (~fault => InsideInv)'
  BY <1>14 DEF Lower, Exit
<1>15. ASSUME NEW i \in Threads, ReleaseAll(i) PROVE (~fault => InsideInv)'
  BY <1>15 DEF ReleaseAll
<1>16. ASSUME NEW i \in Threads, ReleaseOwner(i) PROVE (~fault => InsideInv)'
  BY <1>16 DEF ReleaseOwner
<1>17. ASSUME NEW i \in Threads, SetZero(i) PROVE (~fault => InsideInv)'
  BY <1>17 DEF SetZero, Exit
<1>18. CASE UNCHANGED vars
  BY <1>18 DEF vars
<1> QED
  BY <1>1, <1>2, <1>3, <1>4, <1>5, <1>6, <1>7, <1>8, <1>9, <1>10, <1>11, <1>12, <1>13, <1>14, <1>15, <1>16, <1>17, <1>18 DEF Next, Call, Advance

(* Every step keeps the owner fields naming the thread inside.              *)
LEMMA OwnerStep ==
  ASSUME OneThreadPerProcess, TypeOK, InsideInv, OwnerInv, ~fault, [Next]_vars
  PROVE  (~fault => OwnerInv)'
<1> USE ProcessAssumption, HandleAssumption, BoundAssumption
    DEF TypeOK, fields, At, Goto, OneThreadPerProcess, InsideInv, OwnerInv, Inside, Level, Unlocking, Leaving, NO_OWNER
<1>1. CASE FaultShutdown
  BY <1>1 DEF FaultShutdown
<1>2. ASSUME NEW i \in Threads, Lock(i) PROVE (~fault => OwnerInv)'
  BY <1>2 DEF Lock
<1>3. ASSUME NEW i \in Threads, TryLock(i) PROVE (~fault => OwnerInv)'
  BY <1>3 DEF TryLock, Granted
<1>4. ASSUME NEW i \in Threads, ReadOwnerIndex(i) PROVE (~fault => OwnerInv)'
  BY <1>4 DEF ReadOwnerIndex, GoAcquire
<1>5. ASSUME NEW i \in Threads, ReadOwnerThread(i) PROVE (~fault => OwnerInv)'
  BY <1>5 DEF ReadOwnerThread, GoAcquire
<1>6. ASSUME NEW i \in Threads, Raise(i) PROVE (~fault => OwnerInv)'
  BY <1>6 DEF Raise, Granted
<1>7. ASSUME NEW i \in Threads, TestZeroAdd(i) PROVE (~fault => OwnerInv)'
  BY <1>7 DEF TestZeroAdd, Exit
<1>8. ASSUME NEW i \in Threads, SetOwnerIndex(i) PROVE (~fault => OwnerInv)'
  BY <1>8 DEF SetOwnerIndex
<1>9. ASSUME NEW i \in Threads, SetOwnerThread(i) PROVE (~fault => OwnerInv)'
  BY <1>9 DEF SetOwnerThread, Granted
<1>10. ASSUME NEW i \in Threads, Unlock(i) PROVE (~fault => OwnerInv)'
  BY <1>10 DEF Unlock
<1>11. ASSUME NEW i \in Threads, TestUnderflow(i) PROVE (~fault => OwnerInv)'
  BY <1>11 DEF TestUnderflow
<1>12. ASSUME NEW i \in Threads, TestLastLevel(i) PROVE (~fault => OwnerInv)'
  BY <1>12 DEF TestLastLevel
<1>13. ASSUME NEW i \in Threads, Disown(i) PROVE (~fault => OwnerInv)'
  BY <1>13 DEF Disown
<1>14. ASSUME NEW i \in Threads, Lower(i) PROVE (~fault => OwnerInv)'
  BY <1>14 DEF Lower, Exit
<1>15. ASSUME NEW i \in Threads, ReleaseAll(i) PROVE (~fault => OwnerInv)'
  BY <1>15 DEF ReleaseAll
<1>16. ASSUME NEW i \in Threads, ReleaseOwner(i) PROVE (~fault => OwnerInv)'
  BY <1>16 DEF ReleaseOwner
<1>17. ASSUME NEW i \in Threads, SetZero(i) PROVE (~fault => OwnerInv)'
  BY <1>17 DEF SetZero, Exit
<1>18. CASE UNCHANGED vars
  BY <1>18 DEF vars
<1> QED
  BY <1>1, <1>2, <1>3, <1>4, <1>5, <1>6, <1>7, <1>8, <1>9, <1>10, <1>11, <1>12, <1>13, <1>14, <1>15, <1>16, <1>17, <1>18 DEF Next, Call, Advance

-----------------------------------------------------------------------------
(* The inductive invariant holds in every state of the lock.                *)
THEOREM Invariance == ASSUME OneThreadPerProcess PROVE Spec => []IInv
<1>1. Init => IInv
  <2> SUFFICES ASSUME Init PROVE IInv
    OBVIOUS
  <2> USE ProcessAssumption, HandleAssumption, BoundAssumption DEF Init
  <2>1. TypeOK
    <3>1. sem \in Nat /\ held \in [Threads -> 0 .. MaxLevel]
      OBVIOUS
    <3>2. pc \in [Threads -> Labels] /\ try \in [Threads -> BOOLEAN] /\ fault \in BOOLEAN
      BY DEF Labels
    <3>3. /\ owner_index \in {Process[t] : t \in Threads} \union {NO_OWNER}
          /\ owner_thread \in {Handle[t] : t \in Threads} \union {NoThread}
      BY Zenon
    <3> QED
      BY <3>1, <3>2, <3>3 DEF TypeOK
  <2>2. CallInv
    BY DEF CallInv
  <2>3. \A t \in Threads : ~Inside(t)
    BY DEF Inside, Unlocking, Leaving
  <2>4. InsideInv
    BY <2>3 DEF InsideInv
  <2>5. OwnerInv
    BY DEF OwnerInv, Leaving, NO_OWNER
  <2> QED
    BY <2>1, <2>2, <2>4, <2>5 DEF IInv
<1>2. IInv /\ [Next]_vars => IInv'
  <2> SUFFICES ASSUME IInv, [Next]_vars PROVE IInv'
    OBVIOUS
  <2>1. TypeOK' /\ CallInv'
    BY TypeStep, CallStep DEF IInv
  <2>2. CASE fault
    <3>1. fault'
      BY <2>2 DEF Next, vars, FaultShutdown, Call, Advance, Lock, TryLock,
         ReadOwnerIndex, ReadOwnerThread, Raise, TestZeroAdd, SetOwnerIndex,
         SetOwnerThread, Unlock, TestUnderflow, TestLastLevel, Disown, Lower,
         ReleaseAll, ReleaseOwner, SetZero
    <3> QED
      BY <2>1, <3>1 DEF IInv
  <2>3. CASE ~fault
    BY <2>1, <2>3, OneThreadPerProcess, InsideStep, OwnerStep DEF IInv
  <2> QED
    BY <2>2, <2>3
<1> QED
  BY <1>1, <1>2, PTL DEF Spec

(* With one thread per process, two processes never have the lock together. *)
THEOREM Exclusion == ASSUME OneThreadPerProcess PROVE Spec => []MutualExclusion
<1>1. IInv => MutualExclusion
  BY DEF IInv, InsideInv, Inside, MutualExclusion
<1> QED
  BY <1>1, OneThreadPerProcess, Invariance, PTL

(* With one thread per process, the semaphore counts the levels of the      *)
(* holder: no unlock() underflows, and none is one too few.                 *)
THEOREM LevelsCounted == ASSUME OneThreadPerProcess PROVE Spec => []SemaphoreCountsLevels
<1>1. IInv => SemaphoreCountsLevels
  BY DEF IInv, TypeOK, InsideInv, OwnerInv, Inside, Level, Unlocking, Leaving, SemaphoreCountsLevels
<1> QED
  BY <1>1, OneThreadPerProcess, Invariance, PTL

(* With one thread per process, a holder never waits for itself.            *)
THEOREM Recursive == ASSUME OneThreadPerProcess PROVE Spec => []NeverWaitsForItself
<1>1. IInv => NeverWaitsForItself
  BY DEF IInv, TypeOK, OwnerInv, NeverWaitsForItself
<1> QED
  BY <1>1, OneThreadPerProcess, Invariance, PTL
=============================================================================
