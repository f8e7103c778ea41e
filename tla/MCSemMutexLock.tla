--------------------------- MODULE MCSemMutexLock ---------------------------
(* Processes and threads for the runs of SemMutexLock.                      *)
EXTENDS SemMutexLock

\* One thread in each process; a fork leaves them all with the same handle.
OneThreadEach == [t \in Threads |-> t]
ForkedHandle == [t \in Threads |-> 1]

\* Threads 1 and 2 of process 0, and thread 3 in process 1.
TwoInOne == [t \in Threads |-> IF t \in {1, 2} THEN 0 ELSE 1]
OwnHandle == [t \in Threads |-> t]
=============================================================================
