----------------------------- MODULE EventTimers -----------------------------
(***************************************************************************)
(* The timers of EventRouter (src/Events/EventRouter.h, .cc): addTimer,    *)
(* removeTimer, removeAllTimers and processTimers, whose callbacks call    *)
(* the first three.                                                        *)
(*                                                                         *)
(* timers and process are vectors of pointers.  A pointer is the number of *)
(* a cell of the heap; a cell that was deleted is free to be allocated     *)
(* again, and processTimers may still point to it.  Reading a cell that is *)
(* free has no defined outcome: it ends the run (wild).  The times of a    *)
(* run stay far below the 2^32 ms at which unsigned int wraps around.      *)
(***************************************************************************)
EXTENDS Naturals, FiniteSets, SequencesExt

CONSTANTS Listeners, SIDs,
          Cells,        \* the heap
          Delays,       \* what addTimer() is given
          Never,        \* (unsigned int)-1
          MaxTime,      \* bound: the clock
          MaxCalls      \* bound: calls of addTimer() and removeTimer()

ASSUME Times == /\ MaxTime \in Nat /\ Delays \subseteq Nat /\ MaxCalls \in Nat
                /\ Never \in Nat /\ \A d \in Delays : MaxTime + 1 + d < Never
ASSUME Heap == Cells \subseteq Nat

VARIABLES time,                 \* get_time()
          timers,               \* pointers, sorted by time
          entry,                \* what the cells in use hold
          process,              \* the pointers processTimers() has still to serve
          pc,                   \* where it is
          wild,                 \* it read a cell that is free
          requests,             \* history: the timers asked for and not done
          touched,              \* history: cells its callbacks have set or freed
          ncalls

vars == <<time, timers, entry, process, pc, wild, requests, touched, ncalls>>

TimerEntry == [el : Listeners, sid : SIDs, delay : Delays, next : 0 .. Never, repeat : BOOLEAN]

Live == ToSet(timers)

Init ==
    /\ time = 0
    /\ timers = << >> /\ process = << >>
    /\ entry = << >>
    /\ pc = "idle" /\ wild = FALSE
    /\ requests = {} /\ touched = {}
    /\ ncalls = 0

(***************************************************************************)
(* The standard algorithms on a list sorted by next                        *)
(***************************************************************************)
Sorted(s, ent) == \A i, j \in DOMAIN s : i < j => ent[s[i]].next <= ent[s[j]].next

lower_bound(s, ent, n) ==
    CHOOSE k \in 0 .. Len(s) : \A i \in DOMAIN s : i <= k <=> ent[s[i]].next < n

upper_bound(s, ent, n) ==
    CHOOSE k \in 0 .. Len(s) : \A i \in DOMAIN s : i <= k <=> ent[s[i]].next <= n

(* t is part of s, in the order of s. *)
Within(t, s) == \A i, j \in DOMAIN t : i < j => \E k, l \in DOMAIN s : k < l /\ s[k] = t[i] /\ s[l] = t[j]

(* std::remove() on a list in which nothing comes twice *)
Without(s, gone) == {t \in SetToSeqs(ToSet(s) \ gone) : Within(t, s)}

(* std::inplace_merge() is stable: it puts s[i] before what is not earlier *)
(* in r, and leaves either in its order.                                   *)
inplace_merge(s, r, ent) ==
    {m \in SetToSeqs(ToSet(s) \cup ToSet(r)) :
        /\ Sorted(m, ent) /\ Within(s, m) /\ Within(r, m)
        /\ \A i, j \in DOMAIN m : i < j /\ m[i] \in ToSet(r) /\ m[j] \in ToSet(s)
                                  => ent[m[i]].next < ent[m[j]].next}

(***************************************************************************)
(* What callbacks and other code of Main call                              *)
(***************************************************************************)
InUserCode == ~wild /\ pc \in {"idle", "callback"} /\ ncalls < MaxCalls

Touch(cells) == touched' = IF pc = "callback" THEN touched \cup cells ELSE {}

Timer(c) == <<entry[c].el, entry[c].sid>>

Find(el, sid) == SelectInSeq(timers, LAMBDA c : Timer(c) = <<el, sid>>)

(* Put the timer that was at i back into the ordering. *)
Reposition(i, ent) ==
    LET c == timers[i]
        n == ent[c].next
        before == SubSeq(timers, 1, i - 1)
        after == SubSeq(timers, i + 1, Len(timers))
    IN  IF i > 1 /\ n < ent[timers[i - 1]].next
        THEN InsertAt(before, upper_bound(before, ent, n) + 1, c) \o after
        ELSE IF i < Len(timers) /\ n > ent[timers[i + 1]].next
        THEN before \o InsertAt(after, lower_bound(after, ent, n) + 1, c)
        ELSE timers

Request(el, sid, delay) ==
    requests' = {r \in requests : r.timer # <<el, sid>>}
                  \cup {[timer |-> <<el, sid>>, due |-> time + delay]}

New(el, sid, delay, repeat) ==
    [el |-> el, sid |-> sid, delay |-> delay, next |-> time + delay, repeat |-> repeat]

Reset(i, delay, repeat) ==
    LET c == timers[i]
        ent == [entry EXCEPT ![c].delay = delay, ![c].repeat = repeat, ![c].next = time + delay]
    IN  /\ entry' = ent
        /\ timers' = Reposition(i, ent)
        /\ Touch({c})

Allocate(el, sid, delay, repeat) ==
    \E c \in Cells \ Live :
      LET ent == [d \in Live \cup {c} |-> IF d = c THEN New(el, sid, delay, repeat) ELSE entry[d]]
      IN  /\ entry' = ent
          /\ timers' = InsertAt(timers, lower_bound(timers, ent, time + delay) + 1, c)
          /\ Touch({c})

(* A delay of -1 is removeTimer(el, sid). *)
addTimer(el, sid, delay, repeat) ==
    /\ InUserCode /\ ncalls' = ncalls + 1
    /\ IF Find(el, sid) # 0 THEN Reset(Find(el, sid), delay, repeat)
                            ELSE Allocate(el, sid, delay, repeat)
    /\ Request(el, sid, delay)
    /\ UNCHANGED <<time, process, pc, wild>>

Delete(gone) ==
    /\ timers' \in Without(timers, gone)
    /\ Touch(gone)
    /\ entry' = [c \in Live \ gone |-> entry[c]]
    /\ requests' = {r \in requests : r.timer \notin {Timer(c) : c \in gone}}

(* removeTimer(el, sid), removeTimer(el), removeAllTimers() *)
Removable == {{c \in Live : Timer(c) = <<el, sid>>} : el \in Listeners, sid \in SIDs}
             \cup {{c \in Live : entry[c].el = el} : el \in Listeners} \cup {Live}

removeTimer(gone) ==
    /\ InUserCode /\ ncalls' = ncalls + 1
    /\ gone # {}
    /\ Delete(gone)
    /\ UNCHANGED <<time, process, pc, wild>>

(***************************************************************************)
(* processTimers                                                           *)
(***************************************************************************)
(* How many timers are due; at the next millisecond already. *)
DueCount_Early == upper_bound(timers, entry, time + 1)

DueCount == upper_bound(timers, entry, time)

(* A one-shot timer is marked dead, a repeating one put forward to its     *)
(* first time in the future.                                               *)
NextTime(e) ==
    IF ~e.repeat THEN Never
    ELSE IF e.delay = 0 THEN time + 1
    ELSE e.next + e.delay * ((time - e.next) \div e.delay + 1)

(* std::sort leaves equal ones in any order. *)
Resort(due, rest, ent) ==
    UNION {inplace_merge(s, rest, ent) : s \in {p \in SetToSeqs(ToSet(due)) : Sorted(p, ent)}}

processTimers ==
    /\ ~wild /\ pc = "idle"
    /\ LET last == DueCount
           due == SubSeq(timers, 1, last)
           rest == SubSeq(timers, last + 1, Len(timers))
           ent == [c \in DOMAIN entry |-> IF c \in ToSet(due)
                     THEN [entry[c] EXCEPT !.next = NextTime(entry[c])] ELSE entry[c]]
       IN  /\ last > 0
           /\ process' = due
           /\ entry' = ent
           /\ timers' \in Resort(due, rest, ent)
    /\ touched' = {}
    /\ pc' = "deliver"
    /\ UNCHANGED <<time, wild, requests, ncalls>>

(* A one-shot timer's request is done when it fires, a repeating one's is  *)
(* put off.                                                                *)
Fire(c) ==
    requests' = {IF r.timer = Timer(c) THEN [r EXCEPT !.due = entry[c].next] ELSE r :
                   r \in {q \in requests : q.timer # Timer(c) \/ entry[c].next # Never}}

(* The listener's processEvent(), then the broadcast to those who listen   *)
(* to timerEGID.                                                           *)
deliver ==
    /\ ~wild /\ pc = "deliver" /\ process # << >>
    /\ process' = Tail(process)
    /\ LET c == Head(process) IN
       \/ c \notin Live /\ wild' = TRUE /\ UNCHANGED <<pc, requests>>
       \/ c \in Live /\ Fire(c) /\ pc' = "callback" /\ UNCHANGED wild
    /\ UNCHANGED <<time, timers, entry, touched, ncalls>>

returns ==
    /\ ~wild /\ pc = "callback"
    /\ pc' = "deliver"
    /\ UNCHANGED <<time, timers, entry, process, wild, requests, touched, ncalls>>

(* Every one-shot timer goes, whether it has fired or not. *)
Dead_OneShots == {c \in Live : ~entry[c].repeat}

Dead == ToSet(SubSeq(timers, lower_bound(timers, entry, Never) + 1, Len(timers)))

finish ==
    /\ ~wild /\ pc = "deliver" /\ process = << >>
    /\ timers' \in Without(timers, Dead)
    /\ pc' = "idle"
    /\ touched' = {}
    /\ entry' = [c \in Live \ Dead |-> entry[c]]
    /\ UNCHANGED <<time, process, wild, requests, ncalls>>

Tick ==
    /\ ~wild /\ time < MaxTime
    /\ time' = time + 1
    /\ UNCHANGED <<timers, entry, process, pc, wild, requests, touched, ncalls>>

Next ==
    \/ \E el \in Listeners, sid \in SIDs, delay \in Delays, repeat \in BOOLEAN :
         addTimer(el, sid, delay, repeat)
    \/ \E gone \in Removable : removeTimer(gone)
    \/ processTimers \/ deliver \/ returns \/ finish
    \/ Tick

Spec == Init /\ [][Next]_vars

(* ----------------------------- properties ------------------------------- *)
TypeOK ==
    /\ time \in 0 .. MaxTime /\ ncalls \in 0 .. MaxCalls
    /\ timers \in Seq(Cells) /\ process \in Seq(Cells)
    /\ entry \in [Live -> TimerEntry]
    /\ pc \in {"idle", "deliver", "callback"} /\ wild \in BOOLEAN
    /\ requests \subseteq [timer : Listeners \X SIDs, due : 0 .. Never]
    /\ touched \subseteq Cells

(* Callbacks change the list while processTimers() is under way: it is     *)
(* "kept sorted by time they go active", which every search in it relies   *)
(* on, and its timers are "unique by EventListener and source ID".         *)
(* Between two calls it is what was asked for: every timer added and not   *)
(* removed since, the one-shot ones until they have fired, each for its    *)
(* time; one that its own callback has added again is not swept away with  *)
(* the dead ones.                                                          *)
PendingAsRequested ==
    /\ Sorted(timers, entry)
    /\ \A i, j \in DOMAIN timers : Timer(timers[i]) = Timer(timers[j]) => i = j
    /\ pc = "idle" => requests = {[timer |-> Timer(c), due |-> entry[c].next] : c \in Live}

(* No timer fires before its time, and a repeating one no more than once   *)
(* for each of its times, unless a callback has set it or its cell anew    *)
(* since processTimers() made its list.                                    *)
FiresWhenDue ==
    [][\A r \in requests :
         pc' = "callback" /\ pc = "deliver" /\ Head(process) \notin touched
         /\ r.timer = Timer(Head(process)) => r.due <= time]_vars

(* What the code does not keep to; see README.                             *)
(* "clears all pending timers for listener": one that a callback has       *)
(* removed is not looked at again.                                         *)
RemovedIsGone == ~wild
=============================================================================
