--------------------------- MODULE WorldStatePool ---------------------------
(***************************************************************************)
(* The buffers of sensor state that Main and Motion share                  *)
(* (src/Shared/WorldStatePool.h, .cc) and the code that uses them:         *)
(* EntryPoint, whose thread lock lets one thread of a process in at a      *)
(* time, gotSensors() of both processes and Motion's poll().               *)
(*                                                                         *)
(* A step is what happens under the pool's lock, or one access outside of  *)
(* it.  What a buffer holds is the number of the sensor frame and the      *)
(* version of the PID settings in it; writing a frame takes two steps.     *)
(* order is a ListMemBuf as large as the pool, in which an entry that is   *)
(* erased and pushed back gets its slot again: it is modelled as the       *)
(* sequence of the buffers.  Every sensor message carries data (a          *)
(* heartbeat, which copies the last frame, is left out), and so is a       *)
(* blocking read, which nothing asks for.                                  *)
(***************************************************************************)
EXTENDS Integers, FiniteSets, SequencesExt

CONSTANTS NUM_STATES,
          Feedback,     \* may Motion have to complete the frames?
          MaxFrames,    \* bound: sensor messages
          MaxPIDs       \* bound: PID settings

(* With one buffer the first frame would be written where it is read.      *)
ASSUME Bounds == /\ NUM_STATES \in Nat \ {0, 1} /\ Feedback \subseteq BOOLEAN
                 /\ MaxFrames \in Nat /\ MaxPIDs \in Nat

Processes == {"Main", "Motion"}
Buffers == 0 .. NUM_STATES - 1
None == -1
SENSORS_APPLIED == 1
FEEDBACK_APPLIED == 2

VARIABLES sent,         \* sensor messages; the last one's number is sent - 1
          feedback,     \* generateFeedback
          pidsSent,     \* version of the PID settings
          order,        \* the buffers, newest frame last
          states,       \* the buffers and what the pool knows of each
          proc,         \* the thread that has the EntryPoint of its process
          announced,    \* history: frames of which behaviors were told
          again,        \* history: of one they were told again
          scarce,       \* history: a new frame got a buffer still needed, or none
          crossed       \* history: PIDs were set while a frame was being written

history == <<announced, again, scarce, crossed>>
vars == <<sent, feedback, pidsSent, order, states, proc, history>>

frameNumber == sent - 1

Init ==
    /\ sent = 0 /\ feedback \in Feedback /\ pidsSent = 0
    /\ order = [i \in 1 .. NUM_STATES |-> i - 1]
    /\ states = [b \in Buffers |->
                   [frame |-> 0, reading |-> 0, writing |-> 0, status |-> {},
                    complete |-> b # NUM_STATES - 1, writeLock |-> "free",
                    shows |-> None, pids |-> 0]]
    /\ proc = [p \in Processes |->
                 [pc |-> "idle", got |-> 0, polls |-> FALSE, default |-> None, src |-> None,
                  buf |-> None, state |-> None, frame |-> None, status |-> {},
                  complete |-> FALSE, partial |-> FALSE]]
    /\ announced = {} /\ again = FALSE /\ scarce = FALSE /\ crossed = FALSE

At(p, label) == proc[p].pc = label
Goto(p, label) == proc' = [proc EXCEPT ![p].pc = label]

(***************************************************************************)
(* Choosing a buffer                                                       *)
(***************************************************************************)
Newest == Last(order)

(* getCurrentReadState() without blocking *)
Readable ==
    LET i == SelectLastInSeq(order, LAMBDA b : states[b].complete)
    IN  IF i = 0 THEN Newest ELSE order[i]

useToRead(b) == states' = [states EXCEPT ![b].reading = @ + 1]
doneReadingState(b) == states' = [states EXCEPT ![b].reading = @ - 1]

Overtaken(f) == states[Newest].frame > f

(* The first of S in the order among those with an older frame *)
Oldest(f, S) ==
    LET i == SelectInSeq(order, LAMBDA b : states[b].frame < f /\ b \in S)
    IN  IF i = 0 THEN None ELSE order[i]

Written == {b \in Buffers : states[b].writing > 0}
Read == {b \in Buffers : states[b].reading > 0}

(* Readers are not looked at. *)
Unused_MayBeRead(f) == Oldest(f, Buffers \ Written)

Unused(f) == Oldest(f, Buffers \ (Written \cup Read))

(* selectWriteState(), blocking, as all its callers want it.  When every   *)
(* buffer is in use the oldest that is being written is given out again.   *)
selectWriteState(f) ==
    IF Overtaken(f) THEN None
    ELSE IF states[Newest].frame = f THEN Newest
    ELSE IF Unused(f) # None THEN Unused(f)
    ELSE Oldest(f, Written)

(***************************************************************************)
(* A thread enters, with a read of the newest complete frame               *)
(***************************************************************************)
FrameSent ==
    /\ sent < MaxFrames
    /\ sent' = sent + 1
    /\ UNCHANGED <<feedback, pidsSent, order, states, proc, history>>

Enter(p) ==
    /\ At(p, "idle")
    /\ useToRead(Readable)
    /\ proc' = [proc EXCEPT ![p] = [@ EXCEPT !.pc = "entered", !.default = Readable,
                                             !.state = Readable]]
    /\ UNCHANGED <<sent, feedback, pidsSent, order, history>>

Leave(p) ==
    /\ At(p, "leave") \/ At(p, "entered")
    /\ doneReadingState(proc[p].default)
    /\ proc' = [proc EXCEPT ![p] = [@ EXCEPT !.pc = "idle", !.default = None, !.state = None]]
    /\ UNCHANGED <<sent, feedback, pidsSent, order, history>>

(* gotSensors() up to isUnread(), which looks at the pool without its      *)
(* lock.  A message of a frame that is complete already is for Main to     *)
(* announce.                                                               *)
isUnread(p) ==
    /\ At(p, "entered") /\ proc[p].got < sent
    /\ LET f == proc[p].got
           b == selectWriteState(f)
           skip == f < frameNumber \/ b = None
           done == ~skip /\ states[b].frame = f /\ states[b].complete
       IN  /\ proc' = [proc EXCEPT ![p] = [@ EXCEPT !.got = f + 1, !.frame = f,
                      !.pc = IF done /\ p = "Main" THEN "reset"
                             ELSE IF done \/ skip THEN "leave" ELSE "source"]]
           /\ scarce' = (scarce \/ (b = None /\ ~Overtaken(f)))
    /\ UNCHANGED <<sent, feedback, pidsSent, order, states, announced, again, crossed>>

(* l.reset(): Main gets the frame that Motion has completed. *)
reset(p) ==
    /\ At(p, "reset")
    /\ states' = [b \in Buffers |-> [states[b] EXCEPT !.reading =
                    @ - (IF b = proc[p].default THEN 1 ELSE 0) + (IF b = Readable THEN 1 ELSE 0)]]
    /\ proc' = [proc EXCEPT ![p] = [@ EXCEPT !.pc = "post", !.default = Readable,
                                             !.state = Readable]]
    /\ UNCHANGED <<sent, feedback, pidsSent, order, history>>

(* MotionExecThread::poll() asks for the current frame. *)
poll(p) ==
    /\ p = "Motion" /\ At(p, "entered")
    /\ proc' = [proc EXCEPT ![p] = [@ EXCEPT !.pc = "source", !.polls = TRUE,
                                             !.frame = IF sent = 0 THEN 0 ELSE frameNumber]]
    /\ UNCHANGED <<sent, feedback, pidsSent, order, states, history>>

(***************************************************************************)
(* WorldStatePool::doUseResource() for a WriteRequest                      *)
(***************************************************************************)
useSource(p) ==
    /\ At(p, "source")
    /\ useToRead(Readable)
    /\ proc' = [proc EXCEPT ![p] = [@ EXCEPT !.pc = "select", !.src = Readable]]
    /\ UNCHANGED <<sent, feedback, pidsSent, order, history>>

(* It is still marked complete. *)
Renewed_StaysComplete(s, f) ==
    IF s.frame = f THEN s ELSE [s EXCEPT !.frame = f, !.status = {}]

Renewed(s, f) ==
    IF s.frame = f THEN s ELSE [s EXCEPT !.frame = f, !.status = {}, !.complete = FALSE]

(* Without a buffer the request, and the global state, stay as they were. *)
getCurrentWriteState(p) ==
    /\ At(p, "select")
    /\ LET f == proc[p].frame
           b == selectWriteState(f)
           s == Renewed(states[b], f)
           needed == states[b].frame # f /\ (states[b].writing > 0 \/ b = Readable)
       IN  \/ /\ b = None
              /\ Goto(p, "got")
              /\ scarce' = (scarce \/ ~Overtaken(f))
              /\ UNCHANGED <<order, states>>
           \/ /\ b # None
              /\ order' = Append(RemoveFirst(order, b), b)
              /\ states' = [states EXCEPT ![b] = [s EXCEPT !.writing = s.writing + 1]]
              /\ proc' = [proc EXCEPT ![p] = [@ EXCEPT !.pc = "lock", !.buf = b]]
              /\ scarce' = (scarce \/ needed)
    /\ UNCHANGED <<sent, feedback, pidsSent, announced, again, crossed>>

lockBuffer(p) ==
    /\ At(p, "lock") /\ states[proc[p].buf].writeLock = "free"
    /\ states' = [states EXCEPT ![proc[p].buf].writeLock = p]
    /\ Goto(p, "check")
    /\ UNCHANGED <<sent, feedback, pidsSent, order, history>>

(* The lock is kept. *)
doneWritingState_Locked(s, completed) ==
    [s EXCEPT !.writing = @ - 1, !.complete = @ \/ completed]

doneWritingState(s, completed) ==
    [s EXCEPT !.writing = @ - 1, !.complete = @ \/ completed, !.writeLock = "free"]

(* A newer frame may have come during the wait: start over. *)
check(p) ==
    /\ At(p, "check")
    /\ LET b == proc[p].buf IN
       \/ /\ b # Newest
          /\ states' = [states EXCEPT ![b] = doneWritingState(@, FALSE)]
          /\ proc' = [proc EXCEPT ![p] = [@ EXCEPT !.pc = "select", !.buf = None]]
       \/ /\ b = Newest
          /\ proc' = [proc EXCEPT ![p] = [@ EXCEPT !.pc = "got", !.state = b,
                        !.status = states[b].status, !.complete = states[b].complete]]
          /\ UNCHANGED states
    /\ UNCHANGED <<sent, feedback, pidsSent, order, history>>

(***************************************************************************)
(* Writing                                                                 *)
(***************************************************************************)
HasFeedback(p) == feedback /\ p = "Motion"

Partial(q) == ~q.complete /\ SENSORS_APPLIED \in q.status

(* The message is no longer the last one, or its buffer is newer than its  *)
(* source.                                                                 *)
Stale(q) ==
    \/ q.frame # frameNumber
    \/ ~q.complete /\ ~Partial(q) /\ states[q.state].shows > states[q.src].shows

Completed(flags) ==
    SENSORS_APPLIED \in flags /\ (feedback => FEEDBACK_APPLIED \in flags)

(* Main posts the update from within the write. *)
Posts(p, done) == IF p = "Main" /\ done THEN "post" ELSE "release"

(* gotSensors() with its write request, up to where read() writes *)
beginRead(p) ==
    /\ At(p, "got") /\ ~proc[p].polls
    /\ LET q == proc[p]
           fill == ~q.complete /\ (Partial(q) => HasFeedback(p))
       IN  proc' = [proc EXCEPT ![p] = [q EXCEPT !.partial = Partial(q),
                      !.pc = IF Stale(q) THEN "release"
                             ELSE IF fill THEN "fill" ELSE Posts(p, q.complete)]]
    /\ UNCHANGED <<sent, feedback, pidsSent, order, states, history>>

endRead(p) ==
    /\ At(p, "fill")
    /\ LET q == proc[p]
           flags == q.status \cup {SENSORS_APPLIED}
                    \cup (IF HasFeedback(p) THEN {FEEDBACK_APPLIED} ELSE {})
       IN  /\ states' = [states EXCEPT ![q.state].shows = IF q.partial THEN @ ELSE q.frame]
           /\ proc' = [proc EXCEPT ![p] = [q EXCEPT !.pc = Posts(p, Completed(flags)),
                                                    !.status = flags,
                                                    !.complete = Completed(flags)]]
    /\ UNCHANGED <<sent, feedback, pidsSent, order, history>>

(* Without a complete frame poll() falls back to the source. *)
updatePIDs(p) ==
    /\ At(p, "got") /\ proc[p].polls
    /\ LET q == proc[p]
           b == IF q.complete THEN q.state ELSE q.src
       IN  /\ \/ /\ pidsSent < MaxPIDs
                 /\ pidsSent' = pidsSent + 1
                 /\ states' = [states EXCEPT ![b].pids = pidsSent + 1]
                 /\ crossed' = (crossed \/ b # q.src \/ b # Readable \/ proc["Main"].src # None)
              \/ UNCHANGED <<pidsSent, states, crossed>>
           /\ proc' = [proc EXCEPT ![p] = [q EXCEPT !.pc = "release", !.state = b]]
    /\ UNCHANGED <<sent, feedback, order, announced, again, scarce>>

(***************************************************************************)
(* EntryPoint::releaseResource() and doReleaseResource()                   *)
(***************************************************************************)
(* The PIDs of the buffer's last frame stay. *)
CarriedOver_Not(q) == states[q.state].pids

CarriedOver(q) == IF q.complete THEN states[q.src].pids ELSE states[q.state].pids

(* On completion the PIDs are copied from the source; the flags are put    *)
(* back without the pool's lock.                                           *)
release(p) ==
    /\ At(p, "release")
    /\ LET q == proc[p] IN
       states' = [b \in Buffers |->
                    [states[b] EXCEPT !.pids = IF b = q.state THEN CarriedOver(q) ELSE @,
                                      !.status = IF b = q.buf THEN q.status ELSE @]]
    /\ Goto(p, "done")
    /\ UNCHANGED <<sent, feedback, pidsSent, order, history>>

done(p) ==
    /\ At(p, "done")
    /\ LET q == proc[p] IN
       /\ states' = IF q.buf = None THEN states
                    ELSE [states EXCEPT ![q.buf] = doneWritingState(@, q.complete)]
       /\ proc' = [proc EXCEPT ![p] = [q EXCEPT !.pc = "unsource", !.state = q.default]]
    /\ UNCHANGED <<sent, feedback, pidsSent, order, history>>

(* Main has told its behaviors of a frame it has completed, Motion tells   *)
(* Main of every complete one.                                             *)
Notify_Always(q) == q.complete

(* Motion tells Main of a frame that Main has begun. *)
Notify(q) == q.partial /\ q.complete

unsource(p) ==
    /\ At(p, "unsource")
    /\ doneReadingState(proc[p].src)
    /\ LET q == proc[p] IN
       proc' = [proc EXCEPT ![p] = [q EXCEPT
                  !.pc = IF p = "Motion" /\ ~q.polls /\ Notify(q) THEN "post" ELSE "leave",
                  !.src = None, !.buf = None, !.polls = FALSE,
                  !.status = {}, !.complete = FALSE, !.partial = FALSE]]
    /\ UNCHANGED <<sent, feedback, pidsSent, order, history>>

(* UpdatedSID, posted by Main or sent to it by Motion *)
post(p) ==
    /\ At(p, "post")
    /\ again' = (again \/ proc[p].frame \in announced)
    /\ announced' = announced \cup {proc[p].frame}
    /\ Goto(p, IF proc[p].src = None THEN "leave" ELSE "release")
    /\ UNCHANGED <<sent, feedback, pidsSent, order, states, scarce, crossed>>

(***************************************************************************)
Update(p) ==
    \/ reset(p) \/ useSource(p) \/ getCurrentWriteState(p) \/ lockBuffer(p) \/ check(p)
    \/ beginRead(p) \/ endRead(p) \/ updatePIDs(p)
    \/ release(p) \/ done(p) \/ unsource(p) \/ post(p) \/ Leave(p)

Next == FrameSent \/ \E p \in Processes : Enter(p) \/ isUnread(p) \/ poll(p) \/ Update(p)

Spec == Init /\ [][Next]_vars

(* ----------------------------- properties ------------------------------- *)
(* What follows holds while the pool has a buffer to spare.  It is not     *)
(* large enough for that to be always so: three buffers, of which two      *)
(* processes may hold two for reading each; see README.                    *)

(* "allows one process to be updating while another is reading": nobody    *)
(* reads from a buffer that another process is writing.                    *)
Using(p) == {proc[p].default, proc[p].src, proc[p].state}
Undisturbed == \A p, q \in Processes : p # q /\ At(p, "fill") => proc[p].state \notin Using(q)
ReadersUndisturbed == scarce \/ Undisturbed

(* What is marked complete shows the frame it is said to be, with the      *)
(* feedback where there is one: two processes fill it in, in either order  *)
(* and with copies of its flags.                                           *)
CompleteShowsFrame ==
    scarce \/ \A b \in Buffers :
      LET s == states[b] IN s.complete => s.shows = s.frame \/ s.shows = None

(* Behaviors hear of a frame once, whichever process completes it, and see *)
(* it, or a later one, when they do.                                       *)
AnnouncedOnce ==
    \/ scarce
    \/ /\ ~again
       /\ \A p \in Processes : At(p, "post") =>
            states[IF p = "Main" THEN proc[p].state ELSE Readable].shows >= proc[p].frame

(* PID settings outlive the frame in which they were made, unless another  *)
(* process was on its way from an older frame to a newer one.              *)
PIDsCarriedOver ==
    \/ scarce \/ crossed
    \/ (\A p \in Processes : proc[p].src = None) => states[Readable].pids = pidsSent
=============================================================================
