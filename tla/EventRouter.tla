----------------------------- MODULE EventRouter -----------------------------
(***************************************************************************)
(* EventRouter (src/Events/EventRouter.h, .cc): the delivery of posted     *)
(* events to trappers and listeners.                                       *)
(*                                                                         *)
(* A callback may post, subscribe and unsubscribe; each of these posts an  *)
(* event of its own, and processEvent() then first finishes the posting in *)
(* progress.  So the calls nest: stack holds one frame for each call of    *)
(* processEvent() and each loop over all generators in progress.           *)
(*                                                                         *)
(* One thread at a time is in the router (the lock of processEvent() and   *)
(* the simulator's behaviorLock).  An exception in a callback is shown and *)
(* swallowed by the default ProjectInterface::uncaughtException, so it is  *)
(* a callback that returns.  Timers are in EventTimers.                    *)
(***************************************************************************)
EXTENDS Naturals, FiniteSets, SequencesExt

CONSTANTS numEGIDs, erouterEGID,
          Listeners, Trappers,
          Events,       \* what user code posts
          Scopes,       \* what it subscribes to
          Setups,       \* the mappers at the start
          MaxPosts,     \* bound: postings
          Every

EGIDs == 0 .. numEGIDs - 1
SIDs == EGIDs           \* an erouterEGID event has a generator as its source
ETIDs == {"activate", "status", "deactivate"}
EventBase == [egid : EGIDs, sid : SIDs, etid : ETIDs]
Scope == [egid : EGIDs, sid : SIDs \cup {Every}, etid : ETIDs \cup {Every}]
Mapper(els) == [all : [EGIDs -> Seq(els)], filtered : [EventBase -> Seq(els)]]

ASSUME GeneratorIDs == numEGIDs \in Nat \ {0} /\ erouterEGID \in EGIDs /\ Every \notin SIDs
ASSUME UserInputs == /\ Events \subseteq EventBase /\ Scopes \subseteq Scope
                     /\ Setups \subseteq [listeners : Mapper(Listeners), trappers : Mapper(Trappers)]
                     /\ MaxPosts \in Nat

VARIABLES listeners, trappers,   \* the two EventMappers
          postings,              \* the postings in progress, oldest first
          status,                \* the PostingStatus of each posting
          stack,                 \* the calls in progress, innermost last
          calls,                 \* history: the listeners called for each posting
          lost,                  \* history: listeners that unsubscribed meanwhile
          trapped,               \* history: postings a trapper trapped
          interrupted,           \* history: postings whose trapper posted something
          heard,                 \* history: what erouterEGID events told a listener
          steady                 \* history: listeners that never left erouterEGID

mappers == <<listeners, trappers>>
history == <<calls, lost, trapped, interrupted, heard, steady>>
vars == <<mappers, postings, status, stack, history>>

(***************************************************************************)
(* EventMapper                                                             *)
(***************************************************************************)
EmptyMapper == [all |-> [g \in EGIDs |-> << >>], filtered |-> [e \in EventBase |-> << >>]]

Covers(w, e) == /\ w.egid = e.egid
                /\ w.sid \in {Every, e.sid} /\ w.etid \in {Every, e.etid}

addMapping(map, el, w) ==
    IF w.sid = Every
    THEN [map EXCEPT !.all[w.egid] = Append(@, el)]
    ELSE [map EXCEPT !.filtered =
            [e \in EventBase |-> IF Covers(w, e) THEN Append(@[e], el) ELSE @[e]]]

(* std::remove() and erase(): what is left of a list keeps its order.      *)
Without(seq, el) ==
    LET left == {i \in DOMAIN seq : seq[i] # el}
        nth(k) == CHOOSE i \in left : Cardinality({j \in left : j <= i}) = k
    IN  [k \in 1 .. Cardinality(left) |-> seq[nth(k)]]

removeMapping(map, el, w) ==
    [all |-> IF w.sid = Every THEN [map.all EXCEPT ![w.egid] = Without(@, el)] ELSE map.all,
     filtered |-> [e \in EventBase |-> IF Covers(w, e) THEN Without(map.filtered[e], el)
                                                       ELSE map.filtered[e]]]

hasMapping(map, egid) ==
    map.all[egid] # << >> \/ \E e \in EventBase : e.egid = egid /\ map.filtered[e] # << >>

getMapping(map, e) == map.filtered[e] \o map.all[e.egid]

verifyMapping(map, el, e) == Contains(getMapping(map, e), el)

Subscribed(subs) == FoldLeft(LAMBDA map, s : addMapping(map, s.el, s.scope), EmptyMapper, subs)

(***************************************************************************)
(* The router's state                                                      *)
(***************************************************************************)
hasListeners(egid) == hasMapping(trappers, egid) \/ hasMapping(listeners, egid)

(* Only a listener of the whole generator hears of every change. *)
Observes(el, map) == Contains(map.all[erouterEGID], el)

Init ==
    /\ \E s \in Setups : listeners = s.listeners /\ trappers = s.trappers
    /\ postings = << >> /\ status = << >> /\ stack = << >>
    /\ calls = << >> /\ lost = << >>
    /\ trapped = {} /\ interrupted = {}
    /\ heard = [el \in Listeners |-> {g \in EGIDs : hasListeners(g)}]
    /\ steady = Listeners

Top == Last(stack)
SetTop(f) == stack' = Append(Front(stack), f)

(* A frame of processEvent(), and one of a loop over all generators.       *)
PostFrame == [for : {"event"}, post : 1 .. MaxPosts, cur : 0 .. MaxPosts,
              pc : {"loop", "process", "trap", "listen"}]
SweepFrame == [for : {"sweep"}, op : {"addTrapper", "removeTrapper", "removeListener"},
               el : Listeners \cup Trappers, egid : 0 .. numEGIDs]

Calling(pc) == stack # << >> /\ Top.for = "event" /\ Top.pc = pc

(* User code runs: at the top level, or in a callback. *)
InUserCode == stack = << >> \/ Calling("trap") \/ Calling("listen")

(***************************************************************************)
(* Posting: PostingStatus takes its lists when it is constructed           *)
(***************************************************************************)
NewPosting == Len(status) + 1

(* Postings whose trapper is in its trapEvent() at present. *)
BeingTrapped ==
    {stack[i].cur : i \in {k \in DOMAIN stack : stack[k].for = "event" /\ stack[k].pc = "trap"}}

(* processEvent(e) is called on top of the frames fs. *)
Enter(fs, e) ==
    /\ NewPosting <= MaxPosts
    /\ status' = Append(status, [e |-> e, t |-> getMapping(trappers', e),
                                 l |-> getMapping(listeners', e),
                                 due |-> getMapping(listeners', e)])
    /\ postings' = Append(postings, NewPosting)
    /\ stack' = Append(fs, [for |-> "event", post |-> NewPosting, cur |-> 0, pc |-> "loop"])
    /\ calls' = Append(calls, << >>)
    /\ lost' = Append([n \in DOMAIN status |->
                         lost[n] \cup {el \in Listeners : ~verifyMapping(listeners', el, status[n].e)}],
                      {})
    /\ interrupted' = interrupted \cup BeingTrapped
    /\ steady' = {el \in steady : Observes(el, listeners) => Observes(el, listeners')}
    /\ heard' = [el \in Listeners |->
                   IF Observes(el, listeners') /\ ~Observes(el, listeners)
                   THEN {g \in EGIDs : hasMapping(trappers', g) \/ hasMapping(listeners', g)}
                   ELSE heard[el]]
    /\ UNCHANGED trapped

postEvent(e) ==
    /\ InUserCode
    /\ UNCHANGED mappers
    /\ Enter(stack, e)

(***************************************************************************)
(* Subscribing: each change is followed by an event about it               *)
(***************************************************************************)
About(egid, etid) == [egid |-> erouterEGID, sid |-> egid, etid |-> etid]

(* hasListeners(egid) before the change. *)
AnnounceAdded(egid) == About(egid, IF hasListeners(egid) THEN "status" ELSE "activate")

(* Before the change instead of after it. *)
AnnounceRemoved_Early(egid) ==
    About(egid, IF hasListeners(egid) THEN "status" ELSE "deactivate")

AnnounceRemoved(egid) ==
    About(egid, IF hasMapping(trappers', egid) \/ hasMapping(listeners', egid)
                THEN "status" ELSE "deactivate")

addListener(fs, el, w) ==
    /\ listeners' = addMapping(listeners, el, w)
    /\ UNCHANGED trappers
    /\ Enter(fs, AnnounceAdded(w.egid))

addTrapper(fs, et, w) ==
    /\ trappers' = addMapping(trappers, et, w)
    /\ UNCHANGED listeners
    /\ Enter(fs, AnnounceAdded(w.egid))

(* Nothing is posted unless something was removed. *)
removeListener(fs, el, w) ==
    /\ removeMapping(listeners, el, w) # listeners
    /\ listeners' = removeMapping(listeners, el, w)
    /\ UNCHANGED trappers
    /\ Enter(fs, AnnounceRemoved(w.egid))

removeTrapper(fs, et, w) ==
    /\ removeMapping(trappers, et, w) # trappers
    /\ trappers' = removeMapping(trappers, et, w)
    /\ UNCHANGED listeners
    /\ Enter(fs, AnnounceRemoved(w.egid))

Subscribe ==
    /\ InUserCode
    /\ \E w \in Scopes :
         \/ \E el \in Listeners : addListener(stack, el, w) \/ removeListener(stack, el, w)
         \/ \E et \in Trappers : addTrapper(stack, et, w) \/ removeTrapper(stack, et, w)

(* removeListener(el), addTrapper(et) and removeTrapper(et) go through all *)
(* generators, and post after each of them.                                *)
Sweeping(op, els) ==
    \E el \in els :
      stack' = Append(stack, [for |-> "sweep", op |-> op, el |-> el, egid |-> 0])

StartSweep ==
    /\ InUserCode /\ NewPosting <= MaxPosts
    /\ \/ Sweeping("removeListener", Listeners)
       \/ Sweeping("addTrapper", Trappers) \/ Sweeping("removeTrapper", Trappers)
    /\ UNCHANGED <<mappers, postings, status, history>>

(* One generator, with the frame advanced to the next. *)
SweepStep(el, w, fs) ==
    \/ Top.op = "addTrapper" /\ addTrapper(fs, el, w)
    \/ Top.op = "removeTrapper" /\ removeTrapper(fs, el, w)
    \/ Top.op = "removeListener" /\ removeListener(fs, el, w)

Sweep ==
    /\ stack # << >> /\ Top.for = "sweep"
    /\ LET w == [egid |-> Top.egid, sid |-> Every, etid |-> Every]
           next == Append(Front(stack), [Top EXCEPT !.egid = @ + 1])
           map == IF Top.op = "removeListener" THEN listeners ELSE trappers
           nothing == Top.op # "addTrapper" /\ removeMapping(map, Top.el, w) = map
       IN  \/ Top.egid < numEGIDs /\ SweepStep(Top.el, w, next)
           \/ /\ Top.egid < numEGIDs /\ nothing
              /\ stack' = next
              /\ UNCHANGED <<mappers, postings, status, history>>
           \/ /\ Top.egid = numEGIDs
              /\ stack' = Front(stack)
              /\ UNCHANGED <<mappers, postings, status, history>>

(***************************************************************************)
(* processEvent: the while loop, and PostingStatus::process()              *)
(***************************************************************************)
InLoop(pc) == Calling(pc) /\ UNCHANGED mappers

(* An if in place of the while: one posting and out. *)
Again_Once == postings # << >> /\ Top.cur = 0

Again == postings # << >>

(* A stack in place of the queue. *)
ProcessFront_Newest ==
    /\ InLoop("loop") /\ Again
    /\ SetTop([Top EXCEPT !.cur = Last(postings), !.pc = "process"])
    /\ UNCHANGED <<postings, status, history>>

ProcessFront ==
    /\ InLoop("loop") /\ Again
    /\ SetTop([Top EXCEPT !.cur = Head(postings), !.pc = "process"])
    /\ UNCHANGED <<postings, status, history>>

Return ==
    /\ InLoop("loop") /\ ~Again
    /\ stack' = Front(stack)
    /\ UNCHANGED <<postings, status, history>>

(* process() returns: the front is popped if a callback's posting has not  *)
(* emptied the queue.                                                      *)
Pop == IF postings = << >> THEN << >> ELSE Tail(postings)

EndProcess ==
    /\ postings' = Pop
    /\ SetTop([Top EXCEPT !.pc = "loop"])

Cur == status[Top.cur]

(* The entry is taken off when its callback has returned. *)
StepPast_Late(s) == status

StepPast(s) == [status EXCEPT ![Top.cur] = s]

StillListens(el) == verifyMapping(listeners, el, Cur.e)

NextTrapper ==
    /\ InLoop("process") /\ Cur.t # << >>
    /\ status' = [status EXCEPT ![Top.cur].t = Tail(@)]
    /\ IF verifyMapping(trappers, Head(Cur.t), Cur.e)
       THEN SetTop([Top EXCEPT !.pc = "trap"])
       ELSE UNCHANGED stack
    /\ UNCHANGED <<postings, history>>

(* What trapEvent() returns is not looked at. *)
trapEventReturns_Ignored(trap) ==
    /\ InLoop("trap")
    /\ SetTop([Top EXCEPT !.pc = "process"])
    /\ trapped' = IF trap THEN trapped \cup {Top.cur} ELSE trapped
    /\ UNCHANGED <<postings, status, calls, lost, interrupted, heard, steady>>

trapEventReturns(trap) ==
    /\ InLoop("trap")
    /\ \/ ~trap /\ SetTop([Top EXCEPT !.pc = "process"]) /\ UNCHANGED <<postings, trapped>>
       \/ trap /\ EndProcess /\ trapped' = trapped \cup {Top.cur}
    /\ UNCHANGED <<status, calls, lost, interrupted, heard, steady>>

(* What an observer learns from an event about generator sid. *)
Learn(el, e) ==
    heard' = IF e.egid # erouterEGID THEN heard
             ELSE [heard EXCEPT ![el] = IF e.etid = "deactivate" THEN @ \ {e.sid}
                                                                 ELSE @ \cup {e.sid}]

NextListener ==
    /\ InLoop("process") /\ Cur.t = << >> /\ Cur.l # << >>
    /\ status' = StepPast([Cur EXCEPT !.l = Tail(@)])
    /\ LET el == Head(Cur.l) IN
       \/ /\ StillListens(el)
          /\ SetTop([Top EXCEPT !.pc = "listen"])
          /\ calls' = [calls EXCEPT ![Top.cur] = Append(@, el)]
          /\ Learn(el, Cur.e)
       \/ ~StillListens(el) /\ UNCHANGED <<stack, calls, heard>>
    /\ UNCHANGED <<postings, lost, trapped, interrupted, steady>>

processEventReturns ==
    /\ InLoop("listen")
    /\ SetTop([Top EXCEPT !.pc = "process"])
    /\ UNCHANGED <<postings, status, history>>

Completed ==
    /\ InLoop("process") /\ Cur.t = << >> /\ Cur.l = << >>
    /\ EndProcess
    /\ UNCHANGED <<status, history>>

Next ==
    \/ \E e \in Events : postEvent(e)
    \/ Subscribe \/ StartSweep \/ Sweep
    \/ ProcessFront \/ NextTrapper \/ NextListener \/ Completed \/ Return
    \/ \E trap \in BOOLEAN : trapEventReturns(trap)
    \/ processEventReturns

Spec == Init /\ [][Next]_vars

(* ----------------------------- properties ------------------------------- *)
Postings == 1 .. Len(status)

TypeOK ==
    /\ listeners \in Mapper(Listeners) /\ trappers \in Mapper(Trappers)
    /\ postings \in Seq(Postings)
    /\ status \in Seq([e : EventBase, t : Seq(Trappers), l : Seq(Listeners), due : Seq(Listeners)])
    /\ stack \in Seq(PostFrame \cup SweepFrame)
    /\ calls \in Seq(Seq(Listeners)) /\ lost \in Seq(SUBSET Listeners)
    /\ Len(calls) = Len(status) /\ Len(lost) = Len(status)
    /\ trapped \subseteq Postings /\ interrupted \subseteq Postings
    /\ heard \in [Listeners -> SUBSET EGIDs] /\ steady \subseteq Listeners

(* A queued PostingStatus is a local of a call that has not returned: the  *)
(* queue never holds a pointer into a stack frame that is gone.  And when  *)
(* process() returns, the queue is as long as before or a callback's       *)
(* posting has emptied it ("partial queue completion?"): the posting that  *)
(* is popped is the one that was processed.                                *)
NoDanglingPosting ==
    /\ \A k \in DOMAIN postings : \E i \in DOMAIN stack :
         stack[i].for = "event" /\ stack[i].post = postings[k]
    /\ stack # << >> /\ Top.for = "event" /\ Top.pc = "process" =>
         postings = << >> \/ Head(postings) = Top.cur

Returned(n) == ~\E i \in DOMAIN stack : stack[i].for = "event" /\ stack[i].post = n

Copies(seq, el) == Cardinality({i \in DOMAIN seq : seq[i] = el})

(* A listener gets an event at most once for each of its subscriptions at  *)
(* the time of the post, and if it does not unsubscribe and nobody traps   *)
(* the event, exactly once by the time the post returns, whatever is       *)
(* posted from callbacks meanwhile.                                        *)
EachSubscriptionServed ==
    \A n \in Postings, el \in Listeners :
      /\ Copies(calls[n], el) <= Copies(status[n].due, el)
      /\ Returned(n) /\ n \notin trapped /\ el \notin lost[n] =>
           Copies(calls[n], el) = Copies(status[n].due, el)

(* An event that a trapper traps, none having posted anything from its     *)
(* trapEvent(), reaches no listener.                                       *)
QuietTrapHolds == \A n \in trapped \ interrupted : calls[n] = << >>

(* Someone who listens to the whole of erouterEGID all along and follows   *)
(* "gain or lose listeners" knows, when the router is at rest, which       *)
(* generators have listeners, unless such an event was trapped.            *)
ObserversKnow ==
    stack = << >> /\ (\A n \in trapped : status[n].e.egid # erouterEGID) =>
      \A el \in steady : Observes(el, listeners) =>
        heard[el] = {g \in EGIDs : hasListeners(g)}

(* "finish processing of the original postEvent() before starting the      *)
(* second": when a listener is called for an event, the earlier ones are   *)
(* done with, and no later one has been delivered, unless it was trapped.  *)
Finished(n) == n \in trapped \/ (status[n].t = << >> /\ status[n].l = << >>)

InPostingOrder ==
    [][\A n \in Postings : calls'[n] # calls[n] =>
         \A m \in Postings : /\ m < n => Finished(m)
                             /\ m > n /\ n \notin trapped => calls[m] = << >>]_vars

(* What the code does not keep to; see README.                             *)
(* "true if the event was trapped (shouldn't be sent to listeners)".       *)
TrappedNotSent == \A n \in trapped : calls[n] = << >>
=============================================================================
