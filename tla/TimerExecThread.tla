--------------------------- MODULE TimerExecThread ---------------------------
(***************************************************************************)
(* Who has behaviorLock in Main (src/local/tekkotsu), and with it sets and *)
(* serves timers.  The handlers of Main's messages call processTimers(),   *)
(* and reset() when they have changed the time of the next timer; a thread *)
(* sleeps until then (TimerExecThread, on PollThread and Thread of         *)
(* src/IPC), and reset() starts, stops or signals it, wherever that is.    *)
(* The callbacks of Wireless and MotionManager do neither: the timers they *)
(* set are noticed by the next who does (unseen).                          *)
(*                                                                         *)
(* timeScale is 1 throughout, and the time between computing a sleep and   *)
(* falling asleep is not measured.  A run ends where a signal to the       *)
(* thread is lost or a sleep is too long (missed); see README.             *)
(***************************************************************************)
EXTENDS EventTimers

VARIABLES nextTimer,  \* globals->nextTimer
          main,       \* who has behaviorLock if the thread has not: "user" and
                      \* "served" are a handler of Main's, "wireless" a socket's
          thread,     \* where the thread is, and until when it sleeps
          cancelled,  \* pthread_cancel was called
          missed,     \* history: the thread will sleep past the next timer
          unseen      \* history: a timer earlier than nextTimer was left behind

threadVars == <<thread, cancelled, missed>>
allVars == <<vars, nextTimer, main, threadVars, unseen>>

isStarted == thread.at # "none"
isRunning == thread.at \notin {"none", "launching"}
BehaviorLockFree == main = "out" /\ thread.at \notin {"poll", "polled"}

(* EventRouter::getNextTimer() *)
getNextTimer == IF timers = << >> THEN Never ELSE entry[timers[1]].next

(* Main::run() has called reset(), which starts the thread. *)
ThreadInit == /\ Init
              /\ nextTimer = Never /\ main = "out"
              /\ thread = [at |-> "launching", until |-> Never]
              /\ cancelled = FALSE /\ missed = FALSE /\ unseen = FALSE

(* The unsigned difference is large when there is no timer, and when it    *)
(* wraps around because the next one is overdue: 49 days where long has 64 *)
(* bits; its conversion comes out negative, no sleep, where it has 32.     *)
calcSleepTime(next) == IF time <= next /\ next < Never THEN {next} ELSE {0, Never}

(* A thread that is cancelled ends when it tries to sleep. *)
SleepsFrom(at, next) ==
    \E u \in calcSleepTime(next) :
        /\ thread' = [at |-> at, until |-> u]
        /\ missed' = (missed \/ cancelled \/ u > next)

-------------------------------------------------------------------------------
(* TimerExecThread::reset() as seen by the thread *)

start == thread' = [at |-> "launching", until |-> Never] /\ UNCHANGED <<cancelled, missed>>

(* It waits for a launch to complete. *)
stop == thread.at # "launching" /\ cancelled' = TRUE /\ UNCHANGED <<thread, missed>>

(* The handler of the signal sets delay.  Before the first sleep, and      *)
(* between two parts of one, that may come too late to be looked at;       *)
(* before the periodic one it is not looked at.                            *)
interrupt_Asleep(next) ==   \* mutant: the thread sleeps on
    UNCHANGED threadVars

interrupt(next) ==
    /\ IF cancelled \/ thread.at = "ending"
       THEN missed' = TRUE /\ UNCHANGED thread
       ELSE \/ /\ thread.at = "asleep" \/ thread.at = "delay"
               /\ SleepsFrom("delay", next)
            \/ /\ thread.at \in {"delay", "period"}
               /\ missed' = (missed \/ thread.until > next) /\ UNCHANGED thread
            \/ /\ thread.at \in {"launching", "lock"}
               /\ UNCHANGED <<thread, missed>>
    /\ UNCHANGED cancelled

reset(next) == IF ~isStarted THEN start ELSE IF next = Never THEN stop ELSE interrupt(next)

-------------------------------------------------------------------------------
(* gotCamera(), gotSensors(), gotEvent() *)

gotEvent ==
    /\ BehaviorLockFree
    /\ main' = "user"
    /\ UNCHANGED <<vars, nextTimer, threadVars, unseen>>

(* Wireless::pollProcess(), and MotionManager::receivedMsg() *)
pollProcess ==
    /\ BehaviorLockFree
    /\ main' = "wireless"
    /\ UNCHANGED <<vars, nextTimer, threadVars, unseen>>

UserCode ==
    /\ main \in {"user", "wireless"} \/ pc = "callback"
    /\ \/ \E el \in Listeners, sid \in SIDs, delay \in Delays, repeat \in BOOLEAN :
            addTimer(el, sid, delay, repeat)
       \/ \E gone \in Removable : removeTimer(gone)
    /\ UNCHANGED <<nextTimer, main, threadVars, unseen>>

(* Nobody looks at getNextTimer(). *)
pollProcessReturns ==
    /\ main = "wireless"
    /\ main' = "out" /\ unseen' = (getNextTimer < nextTimer)
    /\ UNCHANGED <<vars, nextTimer, threadVars>>

Serve == IF DueCount > 0 THEN processTimers ELSE UNCHANGED vars

MainServes ==
    /\ main = "user"
    /\ Serve /\ main' = "served"
    /\ UNCHANGED <<nextTimer, threadVars, unseen>>

InCallbacks ==
    /\ deliver \/ returns \/ finish
    /\ UNCHANGED <<nextTimer, main, threadVars, unseen>>

handled ==
    /\ main = "served" /\ pc = "idle"
    /\ nextTimer' = getNextTimer
    /\ IF nextTimer' # nextTimer THEN reset(nextTimer') ELSE UNCHANGED threadVars
    /\ main' = "out" /\ unseen' = FALSE
    /\ UNCHANGED vars

-------------------------------------------------------------------------------
(* The thread *)

launched ==
    /\ thread.at = "launching"
    /\ SleepsFrom("delay", nextTimer)
    /\ UNCHANGED <<vars, nextTimer, main, cancelled, unseen>>

(* nanosleep() and testCancel() *)
Sleep ==
    /\ thread.at \in {"delay", "period", "asleep"}
    /\ thread' = IF cancelled THEN [at |-> "ending", until |-> Never]
                 ELSE IF thread.until > time THEN [thread EXCEPT !.at = "asleep"]
                 ELSE [at |-> "lock", until |-> Never]
    /\ UNCHANGED <<vars, nextTimer, main, cancelled, missed, unseen>>

useResource ==
    /\ thread.at = "lock" /\ BehaviorLockFree
    /\ thread' = [thread EXCEPT !.at = "poll"]
    /\ UNCHANGED <<vars, nextTimer, main, cancelled, missed, unseen>>

ThreadServes ==
    /\ thread.at = "poll"
    /\ Serve /\ thread' = [thread EXCEPT !.at = "polled"]
    /\ UNCHANGED <<nextTimer, main, cancelled, missed, unseen>>

(* Without timers poll() ends the thread. *)
polled ==
    /\ thread.at = "polled" /\ pc = "idle"
    /\ nextTimer' = getNextTimer /\ unseen' = FALSE
    /\ IF nextTimer' = Never
       THEN thread' = [at |-> "ending", until |-> Never] /\ UNCHANGED missed
       ELSE SleepsFrom("period", nextTimer')
    /\ UNCHANGED <<vars, main, cancelled>>

handle_exit ==
    /\ thread.at = "ending"
    /\ thread' = [thread EXCEPT !.at = "none"]
    /\ cancelled' = FALSE
    /\ UNCHANGED <<vars, nextTimer, main, missed, unseen>>

Clock == Tick /\ UNCHANGED <<nextTimer, main, threadVars, unseen>>

ThreadNext ==
    /\ ~wild /\ ~missed
    /\ \/ gotEvent \/ UserCode \/ MainServes \/ InCallbacks \/ handled
       \/ pollProcess \/ pollProcessReturns
       \/ launched \/ Sleep \/ useResource \/ ThreadServes \/ polled \/ handle_exit
       \/ Clock

(* The thread runs; whoever has behaviorLock goes on, and callbacks        *)
(* return; the thread gets the lock although messages go on coming.        *)
(* Nothing has to come, and the clock need not move.                       *)
ThreadSpec ==
    /\ ThreadInit /\ [][ThreadNext]_allVars
    /\ WF_allVars(launched \/ Sleep \/ handle_exit)
    /\ WF_allVars(MainServes \/ ThreadServes \/ InCallbacks \/ handled \/ polled \/ pollProcessReturns)
    /\ SF_allVars(useResource)

-------------------------------------------------------------------------------
(* Between two holders of behaviorLock the thread is on its way to the     *)
(* next timer, or to an earlier one that is gone, wherever it was when     *)
(* that changed; until a timer is set where nobody looks (unseen).         *)
SleepsUntilNext ==
    BehaviorLockFree /\ ~missed /\ ~unseen /\ timers # << >> =>
        /\ nextTimer <= getNextTimer
        /\ thread.at \in {"launching", "delay", "period", "asleep", "lock"} /\ ~cancelled
        /\ thread.at \in {"delay", "period", "asleep"} => thread.until <= nextTimer

(* The thread "allows timers to work without any other vision or sensor    *)
(* processing": a timer whose time has come fires, if it is not removed or *)
(* put off, though no message comes, as long as it was not set from a      *)
(* callback of Wireless or MotionManager, no signal to the thread is lost  *)
(* and no callback makes processTimers() read a cell that is free.         *)
Overdue(el, sid) == \E r \in requests : r.timer = <<el, sid>> /\ r.due <= time
DueTimersFire ==
    \A el \in Listeners, sid \in SIDs :
        Overdue(el, sid) ~> ~Overdue(el, sid) \/ wild \/ missed \/ unseen
===============================================================================
