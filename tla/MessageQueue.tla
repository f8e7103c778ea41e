---------------------------- MODULE MessageQueue -----------------------------
(***************************************************************************)
(* MessageQueue (src/IPC/MessageQueue.h) with its MessageReceiver threads  *)
(* (src/IPC/MessageReceiver.cc): shared memory regions are queued, every   *)
(* registered receiver reads each of them once and the last reader takes   *)
(* the region out.                                                         *)
(*                                                                         *)
(* What the queue does under its lock is one step.  A MessageReceiver      *)
(* works on its position curit outside the lock, one call at a time, so    *)
(* the links of ListMemBuf are modelled with what a freed slot leaves in   *)
(* them.  The callbacks of this code base always return true; a message    *)
(* filter that drops messages and a receiver that subscribes again after   *)
(* finish() do not occur in it.                                            *)
(***************************************************************************)
EXTENDS PoolOps, FiniteSets, SequencesExt

CONSTANTS Senders, Receivers,
          MayJoinLate,   \* receivers that may subscribe after the first message
          Leaving,       \* receivers that may finish()
          Policies,      \* what setOverflowPolicy() may be given
          MayClose,      \* may close() be called?
          CAPACITY, RECEIVER_CAPACITY,
          MaxSends       \* bound: messages sent

ASSUME Sizes == /\ CAPACITY \in Nat \ {0} /\ RECEIVER_CAPACITY \in Nat \ {0}
                /\ MaxSends \in Nat
ASSUME Parties == /\ IsFiniteSet(Senders) /\ IsFiniteSet(Receivers)
                  /\ Leaving \cup MayJoinLate \subseteq Receivers /\ MayClose \in BOOLEAN
ASSUME Overflow == Policies \subseteq {"DROP_OLDEST", "DROP_NEWEST", "WAIT", "THROW_BAD_ALLOC"}

VARIABLES mq,              \* the list of messages (a ListMemBuf)
          entries,         \* what its slots hold, freed ones included
          numMessages, messagesRead, overflowPolicy, isClosed,
          rcvrs,           \* the list of receivers
          slotOf,          \* the slot of each receiver in it
          sem,             \* semaphore of each receiver
          sndrsSem,        \* semaphore of one read status listener
          refs,            \* references to each region, the queue's included
          sends,           \* regions sent so far; the next one is sends + 1
          snd, rcv,        \* the threads
          got,             \* history: what each callback was given
          posted,          \* history: the regions put in the queue
          lost,            \* history: those DROP_OLDEST threw out
          leaked           \* history: regions the queue should have released

vars == <<mq, entries, numMessages, messagesRead, overflowPolicy, isClosed,
          rcvrs, slotOf, sem, sndrsSem, refs, sends, snd, rcv, got, posted, lost, leaked>>

LB == INSTANCE ListMemBuf WITH MAX <- CAPACITY, list <- mq

Slots == LB!Slots
Queued == LB!Used
Regions == 1 .. MaxSends
NoRegion == 0

numReceivers == Len(rcvrs.used)
Registered == {r \in Receivers : slotOf[r] # End}

Waiting(s) == snd[s].pc = "waiting"
ReceiverAt(r, pc) == rcv[r].pc = pc

Init ==
    /\ LB!Init
    /\ entries = [i \in Slots |-> [msg |-> NoRegion, sn |-> 0, readFlags |-> {}, numRead |-> 0]]
    /\ numMessages = 0 /\ messagesRead = 0
    /\ overflowPolicy \in Policies
    /\ isClosed = FALSE
    /\ rcvrs = EmptyPool(RECEIVER_CAPACITY)
    /\ slotOf = [r \in Receivers |-> End]
    /\ sem = [r \in Receivers |-> 0]
    /\ sndrsSem = 0
    /\ refs = [m \in Regions |-> 0]
    /\ sends = 0
    /\ snd = [s \in Senders |-> [pc |-> "idle", msg |-> NoRegion, auto |-> FALSE]]
    /\ rcv = [r \in Receivers |-> [pc |-> "new", finish |-> "no", curit |-> End,
                                   nextMessage |-> 0, msg |-> NoRegion,
                                   since |-> 0 ]] \* history: numMessages when it subscribed
    /\ got = [r \in Receivers |-> << >>]
    /\ posted = << >>
    /\ lost = {} /\ leaked = {}

(***************************************************************************)
(* sendMessage                                                             *)
(***************************************************************************)
(* The send returns.  A caller that asked for autoDereference forgets the  *)
(* region; the others release it themselves.                               *)
Return(s, m, auto, dereferenced) ==
    /\ snd' = [snd EXCEPT ![s] = [pc |-> IF auto THEN "idle" ELSE "owns",
                                  msg |-> IF auto THEN NoRegion ELSE m, auto |-> FALSE]]
    /\ leaked' = IF auto /\ ~dereferenced THEN leaked \cup {m} ELSE leaked

(* AddSharedReference, push_back, a raise for every receiver, and at last  *)
(* RemoveReference if deref says so.  l and held are the list and the      *)
(* references so far, dropped what was thrown out of the list before.      *)
Post(s, l, dropped, held, m, auto, deref) ==
    /\ mq' = LB!new_back(l)
    /\ entries' = [entries EXCEPT ![l.freeBegin] =
                     [msg |-> m, sn |-> numMessages, readFlags |-> {}, numRead |-> 0]]
    /\ numMessages' = numMessages + 1
    /\ posted' = Append(posted, m)
    /\ lost' = lost \cup dropped
    /\ refs' = [held EXCEPT ![m] = IF deref THEN @ ELSE @ + 1]
    /\ sem' = [r \in Receivers |-> IF r \in Registered THEN sem[r] + 1 ELSE sem[r]]
    /\ Return(s, m, auto, deref)
    /\ UNCHANGED <<messagesRead, sndrsSem>>

(* The early returns: autoDereference is not looked at. *)
Drop(s, held, m, auto) ==
    /\ refs' = held
    /\ Return(s, m, auto, FALSE)
    /\ UNCHANGED <<mq, entries, numMessages, sem, posted, lost>>

Full(l) == l.cursize = CAPACITY

(* The dropped region keeps its reference. *)
DropOldest_Leaks(held) == held

(* DROP_OLDEST: the region of the front slot loses the queue's reference. *)
DropOldest(held) == [held EXCEPT ![entries[mq.activeBegin].msg] = @ - 1]

(* sendMessage for a region with the references held; also entered again   *)
(* when the policy changed while waiting.                                  *)
Attempt(s, held, m, auto, deref) ==
    \/ /\ numReceivers = 0
       /\ messagesRead' = messagesRead + 1
       /\ sndrsSem' = sndrsSem + 1
       /\ Drop(s, held, m, auto)
    \/ /\ numReceivers # 0
       /\ \/ isClosed
          \/ Full(mq) /\ overflowPolicy \in {"DROP_NEWEST", "THROW_BAD_ALLOC"}
       /\ Drop(s, held, m, auto)
       /\ UNCHANGED <<messagesRead, sndrsSem>>
    \/ /\ numReceivers # 0 /\ ~isClosed /\ ~Full(mq)
       /\ Post(s, mq, {}, held, m, auto, deref)
    \/ /\ numReceivers # 0 /\ ~isClosed /\ Full(mq) /\ overflowPolicy = "DROP_OLDEST"
       /\ Post(s, LB!pop_front(mq), {entries[mq.activeBegin].msg}, DropOldest(held),
               m, auto, deref)
    \/ /\ numReceivers # 0 /\ ~isClosed /\ Full(mq) /\ overflowPolicy = "WAIT"
       /\ snd' = [snd EXCEPT ![s] = [pc |-> "waiting", msg |-> m, auto |-> auto]]
       /\ refs' = held
       /\ UNCHANGED <<mq, entries, numMessages, messagesRead, sem, sndrsSem,
                      posted, lost, leaked>>

(* A caller with a region of its own, released by the queue or not. *)
SendMessage(s) ==
    /\ snd[s].pc = "idle" /\ sends < MaxSends
    /\ sends' = sends + 1
    /\ \E auto \in BOOLEAN :
         Attempt(s, [refs EXCEPT ![sends + 1] = 1], sends + 1, auto, auto)
    /\ UNCHANGED <<overflowPolicy, isClosed, rcvrs, slotOf, rcv, got>>

(* The WAIT loop looks again, under the lock: with another policy it calls *)
(* sendMessage(rcr), without autoDereference; with room it goes on.        *)
LookAgain(s) ==
    /\ snd[s].pc = "waiting"
    /\ LET m == snd[s].msg
           auto == snd[s].auto
       IN  \/ overflowPolicy # "WAIT" /\ Attempt(s, refs, m, auto, FALSE)
           \/ overflowPolicy = "WAIT" /\ ~Full(mq) /\ Post(s, mq, {}, refs, m, auto, auto)
    /\ UNCHANGED <<overflowPolicy, isClosed, rcvrs, slotOf, sends, rcv, got>>

(* The caller's own RemoveReference(). *)
ReleaseOwn(s) ==
    /\ snd[s].pc = "owns"
    /\ refs' = [refs EXCEPT ![snd[s].msg] = @ - 1]
    /\ snd' = [snd EXCEPT ![s].pc = "idle", ![s].msg = NoRegion]
    /\ UNCHANGED <<mq, entries, numMessages, messagesRead, overflowPolicy, isClosed,
                   rcvrs, slotOf, sem, sndrsSem, sends, rcv, got, posted, lost, leaked>>

(* The policy matters to a full queue only: it is given at the start and   *)
(* changed while a send waits.                                             *)
setOverflowPolicy(op) ==
    /\ \E s \in Senders : Waiting(s)
    /\ overflowPolicy' = op /\ op # overflowPolicy
    /\ UNCHANGED <<mq, entries, numMessages, messagesRead, isClosed, rcvrs, slotOf,
                   sem, sndrsSem, refs, sends, snd, rcv, got, posted, lost, leaked>>

close ==
    /\ MayClose /\ ~isClosed
    /\ isClosed' = TRUE
    /\ UNCHANGED <<mq, entries, numMessages, messagesRead, overflowPolicy, rcvrs, slotOf,
                   sem, sndrsSem, refs, sends, snd, rcv, got, posted, lost, leaked>>

(***************************************************************************)
(* Receivers come and go                                                   *)
(***************************************************************************)
queueVars == <<mq, entries, numMessages, messagesRead, sndrsSem>>
senderVars == <<overflowPolicy, isClosed, sends, snd, posted, lost, leaked>>

addReceiver(r) ==
    /\ ReceiverAt(r, "new") /\ ~IsFull(rcvrs)
    /\ sends = 0 \/ r \in MayJoinLate
    /\ rcvrs' = PushBack(rcvrs)
    /\ slotOf' = [slotOf EXCEPT ![r] = NextSlot(rcvrs)]
    /\ rcv' = [rcv EXCEPT ![r].pc = "ready", ![r].since = numMessages]
    /\ UNCHANGED <<queueVars, senderVars, sem, refs, got>>

start(r) ==
    /\ ReceiverAt(r, "ready")
    /\ rcv' = [rcv EXCEPT ![r].pc = "wait"]
    /\ UNCHANGED <<queueVars, senderVars, rcvrs, slotOf, sem, refs, got>>

(* finish(): stop() the thread if there is one, raising the semaphore so   *)
(* that it notices; then read what is left and unsubscribe.                *)
finish(r) ==
    /\ r \in Leaving /\ rcv[r].finish = "no"
    /\ \/ /\ ReceiverAt(r, "ready")
          /\ rcv' = [rcv EXCEPT ![r].finish = "drain", ![r].pc = "peek"]
          /\ UNCHANGED sem
       \/ /\ rcv[r].pc \notin {"new", "ready"}
          /\ rcv' = [rcv EXCEPT ![r].finish = "stop"]
          /\ sem' = [sem EXCEPT ![r] = @ + 1]
    /\ UNCHANGED <<queueVars, senderVars, rcvrs, slotOf, refs, got>>

(* The thread ends between two runs of runloop() and has been joined. *)
joined(r) ==
    /\ ReceiverAt(r, "wait") /\ rcv[r].finish = "stop"
    /\ rcv' = [rcv EXCEPT ![r].finish = "drain", ![r].pc = "peek"]
    /\ UNCHANGED <<queueVars, senderVars, rcvrs, slotOf, sem, refs, got>>

(* Go through the list and take out the messages whose slots are in S. *)
EraseSlots(S) ==
    LET u == LB!UsedSeq
        left[k \in 0 .. Len(u)] ==
            IF k = 0 THEN mq
            ELSE IF u[k] \in S THEN LB!erase(left[k - 1], u[k]) ELSE left[k - 1]
    IN  left[Len(u)]

(* The region stays shared by the queue. *)
Unshare_Forgotten(S) == refs

Unshare(S) == [m \in Regions |-> IF m \in {entries[i].msg : i \in S} THEN refs[m] - 1 ELSE refs[m]]

(* The count goes down, the flag stays. *)
Forget_KeepsFlag(e, id) ==
    IF id \in e.readFlags THEN [e EXCEPT !.numRead = @ - 1] ELSE e

Forget(e, id) ==
    IF id \in e.readFlags THEN [e EXCEPT !.readFlags = @ \ {id}, !.numRead = @ - 1] ELSE e

(* removeReceiver: forget what r has read, and take out what only r had    *)
(* still to read.                                                          *)
removeReceiver(r) ==
    /\ ReceiverAt(r, "leave")
    /\ LET id == slotOf[r]
           done == {i \in Queued : /\ id \notin entries[i].readFlags
                                   /\ entries[i].numRead = numReceivers - 1}
       IN  /\ rcvrs' = Erase(rcvrs, id)
           /\ entries' = [i \in Slots |->
                             IF i \in Queued THEN Forget(entries[i], id) ELSE entries[i]]
           /\ mq' = EraseSlots(done)
           /\ refs' = Unshare(done)
           /\ messagesRead' = messagesRead + Cardinality(done)
           /\ sndrsSem' = sndrsSem + Cardinality(done)
    /\ slotOf' = [slotOf EXCEPT ![r] = End]
    /\ rcv' = [rcv EXCEPT ![r].pc = "gone"]
    /\ UNCHANGED <<senderVars, numMessages, sem, got>>

(***************************************************************************)
(* A MessageReceiver reads                                                 *)
(***************************************************************************)
waitNextMessage(r) ==
    /\ ReceiverAt(r, "wait") /\ sem[r] > 0
    /\ sem' = [sem EXCEPT ![r] = @ - 1]
    /\ rcv' = [rcv EXCEPT ![r].pc = "peek"]
    /\ UNCHANGED <<queueVars, senderVars, rcvrs, slotOf, refs, got>>

(* From a position forward to the first message not read; from the end     *)
(* back to the last one read and one forward again.                        *)
Ahead(it) == LB!Chain(it, mq.next)

(* Serial numbers are compared with <= where the code has <. *)
FirstUnread_OneLate(it, n) ==
    LET path == IF it = End THEN LB!UsedSeq ELSE Ahead(it)
        unread == SelectInSeq(path, LAMBDA i : entries[i].sn > n)
    IN  IF unread = 0 THEN End ELSE path[unread]

(* From the end, take the newest without comparing serial numbers. *)
FirstUnread_Newest(it, n) ==
    LET unread == SelectInSeq(Ahead(it), LAMBDA i : entries[i].sn >= n)
    IN  IF it = End THEN LB!prev(mq, End)
        ELSE IF unread = 0 THEN End ELSE Ahead(it)[unread]

FirstUnread(it, n) ==
    LET unread == SelectInSeq(Ahead(it), LAMBDA i : entries[i].sn >= n)
        read == SelectInSeq(LB!UsedReversed, LAMBDA i : entries[i].sn < n)
    IN  IF it = End
        THEN LB!next(mq, IF read = 0 THEN End ELSE LB!UsedReversed[read])
        ELSE IF unread = 0 THEN End ELSE Ahead(it)[unread]

findCurrentMessage(r) == FirstUnread(rcv[r].curit, rcv[r].nextMessage)

(* processNextMessage up to the callback; with nothing to read the loop    *)
(* that called it ends.                                                    *)
peekNextMessage(r) ==
    /\ ReceiverAt(r, "peek")
    /\ LET it == findCurrentMessage(r) IN
       \/ /\ it = End
          /\ rcv' = [rcv EXCEPT ![r].curit = it,
                                ![r].pc = IF rcv[r].finish = "drain" THEN "leave" ELSE "wait"]
          /\ UNCHANGED <<refs, got>>
       \/ /\ it # End
          /\ rcv' = [rcv EXCEPT ![r].curit = it, ![r].msg = entries[it].msg, ![r].pc = "number"]
          /\ refs' = [refs EXCEPT ![entries[it].msg] = @ + 1]
          /\ got' = [got EXCEPT ![r] = Append(@, entries[it].msg)]
    /\ UNCHANGED <<queueVars, senderVars, rcvrs, slotOf, sem>>

(* Expect the message at slot i once more. *)
NumberAfter_Same(i) == entries[i].sn

NumberAfter(i) == entries[i].sn + 1

(* markRead(false) outside the lock: the serial number at curit ...        *)
readNumber(r) ==
    /\ ReceiverAt(r, "number")
    /\ rcv' = [rcv EXCEPT ![r].nextMessage = NumberAfter(rcv[r].curit), ![r].pc = "mark"]
    /\ UNCHANGED <<queueVars, senderVars, rcvrs, slotOf, sem, refs, got>>

(* Compare the count before it is incremented. *)
LastReader_Late(e) == e.numRead = numReceivers

LastReader(e) == e.numRead + 1 = numReceivers

(* ... the queue's markRead, where the last reader takes the message out   *)
markRead(r) ==
    /\ ReceiverAt(r, "mark")
    /\ LET i == rcv[r].curit
           e == entries[i]
       IN  \/ /\ slotOf[r] \in e.readFlags
              /\ UNCHANGED <<mq, entries, messagesRead, sndrsSem, refs>>
           \/ /\ slotOf[r] \notin e.readFlags
              /\ entries' = [entries EXCEPT ![i].readFlags = @ \cup {slotOf[r]},
                                            ![i].numRead = @ + 1]
              /\ IF LastReader(e)
                 THEN /\ refs' = [refs EXCEPT ![e.msg] = @ - 1]
                      /\ mq' = LB!erase(mq, i)
                      /\ messagesRead' = messagesRead + 1
                      /\ sndrsSem' = sndrsSem + 1
                 ELSE UNCHANGED <<mq, messagesRead, sndrsSem, refs>>
    /\ rcv' = [rcv EXCEPT ![r].pc = "advance"]
    /\ UNCHANGED <<senderVars, numMessages, rcvrs, slotOf, sem, got>>

(* The slot with the next number instead of the linked one. *)
advance_NextNumber(r) ==
    /\ ReceiverAt(r, "advance")
    /\ rcv' = [rcv EXCEPT ![r].curit = @ + 1, ![r].pc = "release"]
    /\ UNCHANGED <<queueVars, senderVars, rcvrs, slotOf, sem, refs, got>>

(* ... and the next position, read from a slot that may be free by now.    *)
advance(r) ==
    /\ ReceiverAt(r, "advance")
    /\ rcv' = [rcv EXCEPT ![r].curit = LB!next(mq, @), ![r].pc = "release"]
    /\ UNCHANGED <<queueVars, senderVars, rcvrs, slotOf, sem, refs, got>>

(* After a message, an if instead of a while: back to the semaphore. *)
Onward_Waits(r) == IF rcv[r].finish = "drain" THEN "peek" ELSE "wait"

Onward(r) == "peek"

(* RemoveReference, then runloop() lowers the semaphore without waiting    *)
(* and looks for another message.                                          *)
release(r) ==
    /\ ReceiverAt(r, "release")
    /\ refs' = [refs EXCEPT ![rcv[r].msg] = @ - 1]
    /\ rcv' = [rcv EXCEPT ![r].msg = NoRegion, ![r].pc = Onward(r)]
    /\ sem' = IF rcv[r].finish # "drain" /\ sem[r] > 0 THEN [sem EXCEPT ![r] = @ - 1] ELSE sem
    /\ UNCHANGED <<queueVars, senderVars, rcvrs, slotOf, got>>

(***************************************************************************)
Sending(s) == SendMessage(s) \/ LookAgain(s) \/ ReleaseOwn(s)

Reading(r) == \/ waitNextMessage(r) \/ peekNextMessage(r) \/ readNumber(r)
              \/ markRead(r) \/ advance(r) \/ release(r)

Membership(r) == \/ addReceiver(r) \/ start(r) \/ finish(r)
                 \/ joined(r) \/ removeReceiver(r)

Next == \/ \E s \in Senders : Sending(s)
        \/ \E r \in Receivers : Reading(r) \/ Membership(r)
        \/ \E op \in Policies : setOverflowPolicy(op)
        \/ close

Spec == Init /\ [][Next]_vars

(* ----------------------------- properties ------------------------------- *)

SenderState == [pc : {"idle", "waiting", "owns"}, msg : Regions \cup {NoRegion}, auto : BOOLEAN]

ReceiverState ==
    [pc : {"new", "ready", "wait", "peek", "number", "mark", "advance", "release", "leave", "gone"},
     finish : {"no", "stop", "drain"}, curit : Slots \cup {End},
     nextMessage : 0 .. MaxSends, msg : Regions \cup {NoRegion}, since : 0 .. MaxSends]

TypeOK ==
    /\ LB!TypeOK
    /\ entries \in [Slots -> [msg : Regions \cup {NoRegion}, sn : 0 .. MaxSends,
                              readFlags : SUBSET (0 .. RECEIVER_CAPACITY - 1),
                              numRead : 0 .. RECEIVER_CAPACITY]]
    /\ numMessages \in 0 .. MaxSends /\ messagesRead \in 0 .. MaxSends
    /\ overflowPolicy \in Policies /\ isClosed \in BOOLEAN
    /\ slotOf \in [Receivers -> 0 .. RECEIVER_CAPACITY - 1 \cup {End}]
    /\ refs \in [Regions -> 0 .. 2 + Cardinality(Receivers)]
    /\ snd \in [Senders -> SenderState]
    /\ rcv \in [Receivers -> ReceiverState]

(* numRead "should always equal sum(readFlags)", and only flags of         *)
(* registered receivers are set: a receiver that leaves takes its marks    *)
(* along, so that the next one in its slot does not inherit them.  A read  *)
(* status listener is told of each message counted as read, once.          *)
ReadCounts ==
    /\ \A i \in Queued : /\ entries[i].numRead = Cardinality(entries[i].readFlags)
                         /\ entries[i].readFlags \subseteq ToSet(rcvrs.used)
    /\ sndrsSem = messagesRead

(* Every reference to a region is the queue's, a sender's, a reading       *)
(* receiver's or leaked: none is dropped twice, none while still in use.   *)
RefsAccounted ==
    \A m \in Regions :
      refs[m] = Cardinality({i \in Queued : entries[i].msg = m})
                + Cardinality({s \in Senders : snd[s].msg = m})
                + Cardinality({r \in Receivers : rcv[r].msg = m})
                + Cardinality({m} \cap leaked)

(* Until DROP_OLDEST frees slots behind the readers' backs, a receiver that *)
(* is outside the lock and about to mark its message read is still at a    *)
(* queued message it has not read.                                         *)
CurrentIsQueued ==
    lost = {} => \A r \in Receivers : rcv[r].pc \in {"number", "mark"} =>
        /\ rcv[r].curit \in Queued
        /\ slotOf[r] \notin entries[rcv[r].curit].readFlags

(* Callbacks see the messages in the order in which they were sent, none   *)
(* twice.                                                                  *)
SentBefore(m, n) == \E j, k \in DOMAIN posted : j < k /\ posted[j] = m /\ posted[k] = n
InOrder ==
    \A r \in Receivers : \A k \in 1 .. Len(got[r]) - 1 : SentBefore(got[r][k], got[r][k + 1])

(* Until a message is dropped the queue is a log that every receiver       *)
(* follows without gaps.  A receiver is at the message after the last it was given *)
(* or, before the first, at the oldest one it has not read.                *)
Place(m) == CHOOSE k \in DOMAIN posted : posted[k] = m
At(r) == IF r \notin Registered THEN -1
         ELSE IF got[r] # << >> THEN Place(Last(got[r]))
         ELSE IF mq.activeBegin = End THEN Len(posted)
         ELSE entries[mq.activeBegin].sn

Feed == INSTANCE MessageFeed WITH log <- posted, at <- [r \in Receivers |-> At(r)]

ImplementsFeed == Feed!Init /\ [][lost' = {} => Feed!Next]_(Feed!vars)

(* The semaphore counts messages, the loop reads them in groups, finish()  *)
(* raises it once more: a thread that sleeps on it has missed no message   *)
(* sent since it subscribed, as long as nothing is thrown out of the queue.*)
NoLostWakeup ==
    lost = {} => \A r \in Receivers : ReceiverAt(r, "wait") /\ sem[r] = 0 =>
        \A i \in Queued : entries[i].sn >= rcv[r].since => slotOf[r] \in entries[i].readFlags

(* Whoever reads or leaves last takes the message out: one that stays in   *)
(* the queue, and in the way of a sender that waits for room, is still to  *)
(* be read by a registered receiver.                                       *)
SomebodyStillReads ==
    Registered # {} =>
        \A i \in Queued : \E r \in Registered : slotOf[r] \notin entries[i].readFlags
=============================================================================
