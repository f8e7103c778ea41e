---------------------------- MODULE MotionManager -----------------------------
(***************************************************************************)
(* The motion commands that Main's behaviors and the Motion process share  *)
(* (src/Motion/MotionManager.cc): the table of entries in shared memory,   *)
(* its lock MMlock, a lock for each entry, and the messages by which a     *)
(* process hears that a command was added or removed, its own included.    *)
(*                                                                         *)
(* behaviorLock and motionLock let one thread of each process in at a      *)
(* time.  Motion holds MMlock in everything it does here; Main takes an    *)
(* entry's lock without MMlock in checkoutMotion alone and calls nothing   *)
(* that needs MMlock before it checks in.  So a step of Main that has      *)
(* MMlock finds no entry locked; a step of Motion ends where it waits for  *)
(* an entry.  Motion adds no commands, as no command of the tree does.     *)
(*                                                                         *)
(* Main posts an event between the change it makes to the table and the    *)
(* message that tells of it.  The listeners run within the call, with      *)
(* MMlock, and may add, use and remove commands themselves: `unsent` holds *)
(* the messages of the calls under way, that of the innermost one first.   *)
(***************************************************************************)
EXTENDS PoolOps, FiniteSets

CONSTANTS Motions,       \* the shared memory regions that hold a command
          Prunable,      \* those that expire, added by addPrunableMotion()
          MAX_MOTIONS,
          MaxAdds        \* bound: calls that add a command

Accessors == {"Main", "Motion"}
IDs == 0 .. MAX_MOTIONS - 1
invalid_MC_ID == End
NoMotion == "no motion"   \* a NULL rcr
Nobody == "nobody"        \* lastAccessor of a dead command, owner of a free lock

ASSUME Parameters == /\ NoMotion \notin Motions /\ Prunable \subseteq Motions
                     /\ MAX_MOTIONS \in Nat \ {0} /\ MaxAdds \in Nat

VARIABLES cmdlist,   \* the pool of entries
          entries,   \* rcr and baseaddrs of both, lastAccessor, owner of the lock
          MMlock,
          mc,        \* in the region of each command: mc_id, and is it started?
          inbox,     \* messages sent and not processed yet
          unsent,    \* messages Main sends when the listeners have returned
          main, motion, \* what the two processes are doing
          mc_id,     \* the id the behaviors have of each command
          adds,
          overtaken  \* history: a command or an id was used again while an
                     \* earlier use of it was not cleared away everywhere, or
                     \* a listener removed a command before it was announced

vars == <<cmdlist, entries, MMlock, mc, inbox, unsent, main, motion, mc_id,
          adds, overtaken>>

Idle == [at |-> "idle", id |-> invalid_MC_ID, todo |-> {}]

(* CommandEntry() *)
NewEntry == [rcr |-> [a \in Accessors |-> NoMotion], lastAccessor |-> Nobody, owner |-> Nobody]

Init == /\ cmdlist = EmptyPool(MAX_MOTIONS)
        /\ entries = [i \in IDs |-> NewEntry]
        /\ MMlock = Nobody
        /\ mc = [m \in Motions |-> [id |-> invalid_MC_ID, started |-> FALSE]]
        /\ inbox = [a \in Accessors |-> << >>] /\ unsent = << >>
        /\ main = Idle /\ motion = Idle
        /\ mc_id = [m \in Motions |-> invalid_MC_ID]
        /\ adds = 0 /\ overtaken = FALSE

Active(i) == i \in UsedSlots(cmdlist)
Dead(i) == entries[i].lastAccessor = Nobody
Unlocked(i) == entries[i].owner = Nobody
Has(a, i) == entries[i].rcr[a] # NoMotion

AddMessage(m) == [type |-> "add", mc |-> m, id |-> invalid_MC_ID]
DeleteMessage(m, i) == [type |-> "delete", mc |-> m, id |-> i]

Send(msg) == inbox' = [a \in Accessors |-> Append(inbox[a], msg)]

(* erouter->postEvent(): the listeners run before msg is sent. *)
Post(msg) == unsent' = <<msg>> \o unsent /\ MMlock' = "Main"

(* What a process has not processed yet, in the order it will come. *)
Coming(a) == inbox[a] \o unsent

-------------------------------------------------------------------------------
(* Main: a behavior adds, uses and removes commands. *)

(* Used again too early: somebody still holds m, or a message about m or   *)
(* about the entry i has not been processed everywhere.                    *)
Overtakes(m, i) ==
    \/ \E j \in IDs, a \in Accessors : entries[j].rcr[a] = m
    \/ \E a \in Accessors : \E k \in DOMAIN Coming(a) : Coming(a)[k].mc = m \/ Coming(a)[k].id = i

(* The command is in the list under this id already, perhaps dying. *)
Running(m) == {i \in UsedSlots(cmdlist) : entries[i].rcr["Main"] = m}

doAddMotion(m) ==
    /\ main = Idle /\ MMlock # "Motion" /\ adds < MaxAdds
    /\ mc_id[m] = invalid_MC_ID
    /\ adds' = adds + 1
    /\ \/ /\ Running(m) # {}
          /\ \E i \in Running(m) : mc_id' = [mc_id EXCEPT ![m] = i]
          /\ UNCHANGED <<cmdlist, entries, MMlock, mc, unsent, overtaken>>
       \/ /\ Running(m) = {} /\ IsFull(cmdlist)
          /\ UNCHANGED <<cmdlist, entries, MMlock, mc, unsent, mc_id, overtaken>>
       \/ /\ Running(m) = {} /\ ~IsFull(cmdlist)
          /\ LET i == NextSlot(cmdlist) IN
             /\ cmdlist' = PushFront(cmdlist)
             /\ entries' = [entries EXCEPT ![i] =
                              [NewEntry EXCEPT !.rcr["Main"] = m, !.lastAccessor = "Main"]]
             /\ mc' = [mc EXCEPT ![m].id = i]
             /\ mc_id' = [mc_id EXCEPT ![m] = i]
             /\ Post(AddMessage(m))
             /\ overtaken' = (overtaken \/ Overtakes(m, i))
    /\ UNCHANGED <<inbox, main, motion>>

(* What removeMotion leaves behind: the caller has let go of the command   *)
(* and nobody can check it out any more.                                   *)
Removed(a, i) ==
    entries' = [entries EXCEPT ![i].lastAccessor = Nobody, ![i].rcr[a] = NoMotion]

(* Removed by a listener that was told of its activation, so that the      *)
(* message to delete it will be sent before the one that adds it.          *)
Unannounced(m) == \E k \in DOMAIN unsent : unsent[k] = AddMessage(m)

removeMotion(m) ==
    /\ main = Idle /\ MMlock # "Motion" /\ mc_id[m] # invalid_MC_ID
    /\ LET i == mc_id[m] IN
       \/ /\ Dead(i) \/ ~Has("Main", i)
          /\ UNCHANGED <<entries, MMlock, unsent, overtaken>>
       \/ /\ ~Dead(i) /\ Has("Main", i)
          /\ Removed("Main", i)
          /\ Post(DeleteMessage(entries[i].rcr["Main"], i))
          /\ overtaken' = (overtaken \/ Unannounced(entries[i].rcr["Main"]))
    /\ mc_id' = [mc_id EXCEPT ![m] = invalid_MC_ID]
    /\ UNCHANGED <<cmdlist, mc, inbox, main, motion, adds>>

callbackReturns_Untold ==   \* mutant: the message is forgotten
    /\ main = Idle /\ unsent # << >>
    /\ unsent' = Tail(unsent)
    /\ MMlock' = IF Len(unsent) = 1 THEN Nobody ELSE "Main"
    /\ UNCHANGED <<cmdlist, entries, mc, inbox, main, motion, mc_id, adds, overtaken>>

(* The listeners of the innermost call have run; it sends its message and  *)
(* gives back MMlock, which is recursive.                                  *)
callbackReturns ==
    /\ main = Idle /\ unsent # << >>
    /\ Send(Head(unsent)) /\ unsent' = Tail(unsent)
    /\ MMlock' = IF Len(unsent) = 1 THEN Nobody ELSE "Main"
    /\ UNCHANGED <<cmdlist, entries, mc, main, motion, mc_id, adds, overtaken>>

(* checkoutMotion: lastAccessor is looked at before and after the wait. *)
checkoutMotion(m) ==
    /\ main = Idle /\ mc_id[m] # invalid_MC_ID /\ ~Dead(mc_id[m])
    /\ main' = [Idle EXCEPT !.at = "waiting", !.id = mc_id[m]]
    /\ UNCHANGED <<cmdlist, entries, MMlock, mc, inbox, unsent, motion, mc_id, adds, overtaken>>

StillThere_Unasked(i) == TRUE   \* mutant
StillThere(i) == ~Dead(i)

gotLock ==
    /\ main.at = "waiting" /\ Unlocked(main.id)
    /\ IF StillThere(main.id)
       THEN /\ entries' = [entries EXCEPT ![main.id].owner = "Main", ![main.id].lastAccessor = "Main"]
            /\ main' = [main EXCEPT !.at = "holding"]
       ELSE UNCHANGED entries /\ main' = Idle
    /\ UNCHANGED <<cmdlist, MMlock, mc, inbox, unsent, motion, mc_id, adds, overtaken>>

checkinMotion ==
    /\ main.at = "holding"
    /\ entries' = [entries EXCEPT ![main.id].owner = Nobody]
    /\ main' = Idle
    /\ UNCHANGED <<cmdlist, MMlock, mc, inbox, unsent, motion, mc_id, adds, overtaken>>

-------------------------------------------------------------------------------
(* processMsg, in either process. *)

Heard(a) == inbox' = [inbox EXCEPT ![a] = Tail(@)]

(* The first copy of an add message a process sees; the id is read from    *)
(* the region, where it may have been changed since the message was sent.  *)
Receive(a, m) ==
    IF mc[m].id = invalid_MC_ID \/ Has(a, mc[m].id) THEN UNCHANGED entries
    ELSE entries' = [entries EXCEPT ![mc[m].id].rcr[a] = m]

(* The last one that lets go of a command puts the entry back. *)
LastOne_First(a, i) == \E b \in Accessors \ {a} : Has(b, i)   \* mutant
LastOne(a, i) == \A b \in Accessors \ {a} : ~Has(b, i)

LetGo(a, i) ==
    /\ entries' = [entries EXCEPT ![i].rcr[a] = NoMotion, ![i].owner = Nobody,
                                  ![i].lastAccessor = IF a = "Motion" THEN Nobody
                                                      ELSE entries[i].lastAccessor]
    /\ cmdlist' = IF LastOne(a, i) /\ Active(i) THEN Erase(cmdlist, i) ELSE cmdlist

(* Behaviors hear of a removal through the deactivate event.  Nothing      *)
(* follows it in processMsg, so what its listeners call comes afterwards.  *)
Deactivated(i) ==
    mc_id' = [m \in Motions |-> IF mc_id[m] = i THEN invalid_MC_ID ELSE mc_id[m]]

(* The receiver thread has behaviorLock and waits for MMlock. *)
receivedMsg ==
    /\ main = Idle /\ unsent = << >> /\ inbox["Main"] # << >>
    /\ main' = [Idle EXCEPT !.at = "message"]
    /\ UNCHANGED <<cmdlist, entries, MMlock, mc, inbox, unsent, motion, mc_id, adds, overtaken>>

MainMsg ==
    /\ main.at = "message" /\ MMlock = Nobody
    /\ main' = Idle
    /\ Heard("Main")
    /\ LET msg == Head(inbox["Main"]) IN
       \/ /\ msg.type = "add"
          /\ Receive("Main", msg.mc)
          /\ UNCHANGED <<cmdlist, mc_id>>
       \/ /\ msg.type = "delete" /\ ~Has("Main", msg.id)
          /\ UNCHANGED <<cmdlist, entries, mc_id>>
       \/ /\ msg.type = "delete" /\ Has("Main", msg.id)
          /\ LetGo("Main", msg.id) /\ Deactivated(msg.id)
    /\ UNCHANGED <<MMlock, mc, unsent, motion, adds, overtaken>>

(* Motion goes on to wait for the lock of an entry, or is done. *)
MotionAt(at, i) == MMlock' = "Motion" /\ motion' = [motion EXCEPT !.at = at, !.id = i]
MotionDone == MMlock' = Nobody /\ motion' = Idle

MotionMsg ==
    /\ motion = Idle /\ MMlock = Nobody /\ inbox["Motion"] # << >>
    /\ Heard("Motion")
    /\ LET msg == Head(inbox["Motion"])
           i == mc[msg.mc].id
       IN  \/ /\ msg.type = "add"
              /\ Receive("Motion", msg.mc)
              /\ IF i = invalid_MC_ID \/ Dead(i) THEN MotionDone ELSE MotionAt("start", i)
           \/ /\ msg.type = "delete"
              /\ IF Has("Motion", msg.id) THEN MotionAt("drop", msg.id) ELSE MotionDone
              /\ UNCHANGED entries
    /\ UNCHANGED <<cmdlist, mc, unsent, main, mc_id, adds, overtaken>>

(* DoStop() makes the id in the region invalid. *)
DoStop(m) == mc' = [mc EXCEPT ![m] = [id |-> invalid_MC_ID, started |-> FALSE]]

DoStart ==
    /\ motion.at = "start" /\ Unlocked(motion.id)
    /\ mc' = [mc EXCEPT ![entries[motion.id].rcr["Motion"]].started = TRUE]
    /\ entries' = [entries EXCEPT ![motion.id].lastAccessor = "Motion"]
    /\ MotionDone
    /\ UNCHANGED <<cmdlist, inbox, unsent, main, mc_id, adds, overtaken>>

drop ==
    /\ motion.at = "drop" /\ Unlocked(motion.id)
    /\ DoStop(entries[motion.id].rcr["Motion"])
    /\ LetGo("Motion", motion.id)
    /\ MotionDone
    /\ UNCHANGED <<inbox, unsent, main, mc_id, adds, overtaken>>

-------------------------------------------------------------------------------
(* getOutputs: every command is checked out without waiting, until it was  *)
(* there once or time is up, and updated or removed.                       *)

Updatable_Any == {i \in UsedSlots(cmdlist) : ~Dead(i)}   \* mutant
Updatable == {i \in UsedSlots(cmdlist) : Has("Motion", i) /\ ~Dead(i)}

getOutputs ==
    /\ motion = Idle /\ MMlock = Nobody
    /\ MMlock' = "Motion"
    /\ motion' = [Idle EXCEPT !.at = "cycle", !.todo = Updatable]
    /\ UNCHANGED <<cmdlist, entries, mc, inbox, unsent, main, mc_id, adds, overtaken>>

tryCheckout(i) ==
    /\ motion.at = "cycle" /\ i \in motion.todo /\ ~Dead(i) /\ Unlocked(i)
    /\ entries' = [entries EXCEPT ![i].owner = "Motion", ![i].lastAccessor = "Motion"]
    /\ MotionAt("update", i)
    /\ UNCHANGED <<cmdlist, mc, inbox, unsent, main, mc_id, adds, overtaken>>

(* updateOutputs() or, for an expired command, on to its removal, for      *)
(* which the lock is given back first.                                     *)
checkinUpdated ==
    /\ motion.at = "update"
    /\ LET i == motion.id IN
       /\ entries' = [entries EXCEPT ![i].owner = Nobody]
       /\ \E prune \in {FALSE, entries[i].rcr["Motion"] \in Prunable} :
            motion' = [at |-> IF prune THEN "prune" ELSE "cycle", id |-> i, todo |-> motion.todo \ {i}]
    /\ UNCHANGED <<cmdlist, MMlock, mc, inbox, unsent, main, mc_id, adds, overtaken>>

prune ==
    /\ motion.at = "prune" /\ Unlocked(motion.id)
    /\ LET m == entries[motion.id].rcr["Motion"] IN
       DoStop(m) /\ Send(DeleteMessage(m, motion.id))
    /\ Removed("Motion", motion.id)
    /\ motion' = [motion EXCEPT !.at = "cycle"]
    /\ UNCHANGED <<cmdlist, MMlock, unsent, main, mc_id, adds, overtaken>>

endOutputs ==
    /\ motion.at = "cycle"
    /\ MotionDone
    /\ UNCHANGED <<cmdlist, entries, mc, inbox, unsent, main, mc_id, adds, overtaken>>

-------------------------------------------------------------------------------
Next == \/ \E m \in Motions : doAddMotion(m) \/ removeMotion(m) \/ checkoutMotion(m)
        \/ callbackReturns \/ gotLock \/ checkinMotion \/ receivedMsg \/ MainMsg \/ MotionMsg \/ DoStart \/ drop
        \/ getOutputs \/ (\E i \in IDs : tryCheckout(i)) \/ checkinUpdated \/ prune \/ endOutputs

Spec == Init /\ [][Next]_vars

(* The threads of both processes run on, and whoever waits for a lock gets *)
(* it although others come and go: SoftMutexLock serves in order.  A       *)
(* listener ends after finitely many calls.                                *)
Fairness == /\ WF_vars(checkinMotion) /\ SF_vars(gotLock) /\ SF_vars(callbackReturns)
            /\ SF_vars(receivedMsg) /\ SF_vars(MainMsg) /\ SF_vars(MotionMsg)
            /\ SF_vars(DoStart \/ drop \/ checkinUpdated \/ prune \/ endOutputs)

FairSpec == Spec /\ Fairness

-------------------------------------------------------------------------------
Message == [type : {"add"}, mc : Motions, id : {invalid_MC_ID}]
           \cup [type : {"delete"}, mc : Motions, id : IDs]

TypeOK ==
    /\ cmdlist \in [used : Seq(IDs), free : Seq(IDs)]
    /\ entries \in [IDs -> [rcr : [Accessors -> Motions \cup {NoMotion}],
                            lastAccessor : Accessors \cup {Nobody},
                            owner : Accessors \cup {Nobody}]]
    /\ MMlock \in Accessors \cup {Nobody}
    /\ mc \in [Motions -> [id : IDs \cup {invalid_MC_ID}, started : BOOLEAN]]
    /\ inbox \in [Accessors -> Seq(Message)] /\ unsent \in Seq(Message)
    /\ main \in [at : {"idle", "waiting", "holding", "message"},
                 id : IDs \cup {invalid_MC_ID}, todo : SUBSET IDs]
    /\ motion \in [at : {"idle", "start", "drop", "cycle", "update", "prune"},
                   id : IDs \cup {invalid_MC_ID}, todo : SUBSET IDs]
    /\ mc_id \in [Motions -> IDs \cup {invalid_MC_ID}]
    /\ adds \in Nat /\ overtaken \in BOOLEAN

(* A command a behavior has checked out is its own and stays in the list   *)
(* until it is checked in: Motion has not removed it, nor does it while    *)
(* the behavior works on it, and no message to delete it is to come.       *)
CheckedOutIsAlive ==
    ~overtaken /\ main.at = "holding" =>
        /\ Active(main.id) /\ ~Dead(main.id) /\ entries[main.id].owner = "Main"
        /\ ~ \E k \in DOMAIN Coming("Main") :
              Coming("Main")[k].type = "delete" /\ Coming("Main")[k].id = main.id

(* Motion only updates commands that were started and not stopped since.   *)
UpdatedIsStarted ==
    ~overtaken /\ motion.at = "update" =>
        Has("Motion", motion.id) /\ mc[entries[motion.id].rcr["Motion"]].started

(* When the messages are processed and nobody is at work the two processes *)
(* agree on the commands: each entry in use is alive and in the hands of   *)
(* both, and none was left behind.                                         *)
Quiet == main = Idle /\ motion = Idle /\ \A a \in Accessors : Coming(a) = << >>

AgreeWhenQuiet ==
    ~overtaken /\ Quiet =>
        \A i \in UsedSlots(cmdlist) :
            ~Dead(i) /\ Has("Main", i) /\ entries[i].rcr["Main"] = entries[i].rcr["Motion"]

(* The entry of a removed command is put back in the end, and the lock it  *)
(* takes comes free.                                                       *)
DeadIsFreed ==
    []~overtaken => \A i \in IDs : (Active(i) /\ Dead(i)) ~> ~Active(i)
=============================================================================
