------------------------------- MODULE StateNode -------------------------------
(***************************************************************************)
(* State machines (src/Behaviors): nodes inside nodes and the transitions  *)
(* between them, which are behaviors of their own that wait for an event   *)
(* and fire.  Everything happens in one thread, but each start and stop    *)
(* posts events and subscribes or unsubscribes, and what hears such an     *)
(* event runs in the middle of the call that posted it.                    *)
(*                                                                         *)
(* The calls in progress are the sequence of steps they still have to      *)
(* take, those of the innermost call first.  Somebody holds a reference to *)
(* the outermost node, and nodes retain their subnodes: nothing is deleted.*)
(***************************************************************************)
EXTENDS Integers, Sequences, SequencesExt

CONSTANTS Nodes, Transitions,
          Outermost,   \* the node that is started and stopped from outside
          nodes,       \* the subnodes of each node
          start,       \* for a node with subnodes: the one its DoStart() starts
          transitions, \* the transitions that leave each node
          srcs, dsts,  \* of each transition
          hears,       \* the sources of the events each transition waits for
          Eager,       \* the transitions that may fire in their DoStart()
          MaxTodo      \* bound: the steps in progress when a transition fires

Outside == "outside"   \* a sensor, a timer
erouter == "erouter"   \* the events the router posts about subscriptions

Behaviors == Nodes \cup Transitions

ASSUME Parameters ==
    /\ Outermost \in Nodes /\ Eager \subseteq Transitions /\ MaxTodo \in Nat
    /\ nodes \in [Nodes -> Seq(Nodes)] /\ transitions \in [Nodes -> Seq(Transitions)]
    /\ srcs \in [Transitions -> Seq(Nodes)] /\ dsts \in [Transitions -> Seq(Nodes)]
    /\ \A n \in Nodes : nodes[n] # << >> => start[n] \in ToSet(nodes[n])
    /\ \A t \in Transitions : /\ hears[t] \subseteq Behaviors \cup {Outside}
                              /\ \A n \in Nodes : t \in ToSet(transitions[n]) <=> n \in ToSet(srcs[t])

VARIABLES started,   \* of each behavior
          listening, \* the transitions the router knows
          todo,      \* the steps still to be taken
          overlapped, \* history: a transition fired while another call was about
                      \* to stop, or stopping, a node that it stops
          cutShort    \* history: a node was stopped in the middle of its start
                      \* before the first of its transitions was started or,
                      \* by one that fired as it started, before its subnode was

vars == <<started, listening, todo, overlapped, cutShort>>

Init == /\ started = [b \in Behaviors |-> FALSE]
        /\ listening = {} /\ todo = << >>
        /\ overlapped = FALSE /\ cutShort = FALSE

-------------------------------------------------------------------------------
(* What the calls do, as steps. *)

Do(op, b) == [op |-> op, b |-> b, rest |-> << >>]
Each(op, bs) == [k \in DOMAIN bs |-> Do(op, bs[k])]

(* Mutant: subnodes are left running. *)
StopSteps_Alone(b) ==
    IF b \in Transitions THEN <<Do("removeListener", b), Do("stopped", b)>>
    ELSE Each("stop", transitions[b]) \o <<Do("post", b), Do("stopped", b)>>

StopSteps(b) ==
    IF b \in Transitions THEN <<Do("removeListener", b), Do("stopped", b)>>
    ELSE Each("stop", transitions[b]) \o Each("stop", nodes[b]) \o <<Do("post", b), Do("stopped", b)>>

StartSteps(b) ==
    IF b \in Transitions
    THEN <<Do("started", b), Do("addListener", b)>>
         \o (IF b \in Eager THEN <<Do("deliver", b)>> ELSE << >>)
    ELSE <<Do("started", b), Do("post", b),
           [op |-> "transitions", b |-> b, rest |-> transitions[b]]>>
         \o (IF nodes[b] = << >> THEN << >> ELSE <<Do("DoStart", start[b])>>)

FireSteps(t) ==
    <<Do("post", t)>> \o Each("stop", srcs[t]) \o Each("start", dsts[t]) \o <<Do("post", t)>>

-------------------------------------------------------------------------------
Now(op) == todo # << >> /\ Head(todo).op = op
It == Head(todo).b
Then(steps) == todo' = steps \o Tail(todo)

(* fire() and DoStop() look whether the other is running. *)
DoStop ==
    /\ Now("stop")
    /\ Then(IF started[It] THEN StopSteps(It) ELSE << >>)
    /\ UNCHANGED <<started, listening, overlapped, cutShort>>

DoStart ==
    /\ Now("start") \/ Now("DoStart")
    /\ Then(IF started[It] /\ Now("start") THEN << >> ELSE StartSteps(It))
    /\ UNCHANGED <<started, listening, overlapped, cutShort>>

(* BehaviorBase::DoStart() and DoStop() *)
Started ==
    /\ Now("started")
    /\ started' = [started EXCEPT ![It] = TRUE]
    /\ Then(<< >>)
    /\ UNCHANGED <<listening, overlapped, cutShort>>

Stopped ==
    /\ Now("stopped")
    /\ started' = [started EXCEPT ![It] = FALSE]
    /\ listening' = listening \ {It}
    /\ Then(<< >>)
    /\ cutShort' = (cutShort \/ \E k \in DOMAIN todo :
                      \/ todo[k].op = "transitions" /\ todo[k].b = It
                      \/ todo[k].op = "DoStart" /\ todo[k].b \in ToSet(nodes[It]))
    /\ UNCHANGED overlapped

(* The transitions of a node are started one after the other, until one of *)
(* them fires upon its start.                                              *)
GoOn_Always(n) == TRUE   \* mutant
GoOn(n) == started[n]

StartTransitions ==
    LET t == Head(Head(todo).rest)
        more == [op |-> "more", b |-> It, rest |-> Tail(Head(todo).rest)]
    IN  /\ Now("transitions") \/ Now("more")
        /\ Then(IF Head(todo).rest = << >> \/ (Now("more") /\ ~GoOn(It)) THEN << >>
                ELSE <<Do("start", t), more>>)
        /\ UNCHANGED <<started, listening, overlapped, cutShort>>

Listen ==
    /\ \/ Now("addListener") /\ listening' = listening \cup {It}
       \/ Now("removeListener") /\ listening' = listening \ {It}
    /\ Then(<<Do("post", erouter)>>)
    /\ UNCHANGED <<started, overlapped, cutShort>>

-------------------------------------------------------------------------------
(* EventRouter: a posting first completes those in progress. *)
Post ==
    /\ Now("post")
    /\ LET pending(s) == s.op = "deliver"
           others(s) == s.op # "deliver"
       IN  \E hearers \in SetToSeqs({t \in listening : It \in hears[t]}) :
             todo' = SelectSeq(Tail(todo), pending) \o Each("deliver", hearers)
                     \o SelectSeq(Tail(todo), others)
    /\ UNCHANGED <<started, listening, overlapped, cutShort>>

Inside[n \in Nodes] == {n} \cup UNION {Inside[m] : m \in ToSet(nodes[n])}

fire ==
    /\ Now("deliver") /\ It \in listening /\ Len(todo) <= MaxTodo
    /\ Then(FireSteps(It))
    /\ overlapped' = (overlapped \/ \E k \in DOMAIN todo, n \in ToSet(srcs[It]) :
                        todo[k].op \in {"stop", "stopped"} /\ todo[k].b \in Inside[n])
    /\ UNCHANGED <<started, listening, cutShort>>

(* Unsubscribed in the meantime, or the event is not the one it waits for. *)
ignore ==
    /\ Now("deliver")
    /\ Then(<< >>)
    /\ UNCHANGED <<started, listening, overlapped, cutShort>>

(* From outside: a sensor event, the completion of a node, or the whole    *)
(* machine is started or stopped.                                          *)
event ==
    /\ todo = << >>
    /\ \/ \E e \in {n \in Nodes : started[n]} \cup {Outside} : todo' = <<Do("post", e)>>
       \/ started[Outermost] /\ todo' = <<Do("stop", Outermost)>>
       \/ ~started[Outermost] /\ todo' = <<Do("start", Outermost)>>
    /\ UNCHANGED <<started, listening, overlapped, cutShort>>

Next == DoStop \/ DoStart \/ Started \/ Stopped \/ StartTransitions \/ Listen
        \/ Post \/ fire \/ ignore \/ event

Spec == Init /\ [][Next]_vars

-------------------------------------------------------------------------------
AtRest == todo = << >> /\ ~overlapped /\ ~cutShort

(* A running node with subnodes is in exactly one of its states, and no    *)
(* state of a node that does not run is active.                            *)
OneStateActive ==
    AtRest => \A n \in Nodes : nodes[n] # << >> =>
        LET active == {m \in ToSet(nodes[n]) : started[m]}
        IN  IF started[n] THEN \E m \in Nodes : active = {m} ELSE active = {}

(* A transition waits for its event while the node it leaves is active,    *)
(* and only then.                                                          *)
TransitionsWait ==
    AtRest => \A t \in Transitions :
        LET leaves == \E n \in ToSet(srcs[t]) : started[n]
        IN  started[t] = leaves /\ (t \in listening) = leaves
=============================================================================
