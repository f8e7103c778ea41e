----------------------------- MODULE SoundManager -----------------------------
(***************************************************************************)
(* The sounds a behavior loads, plays, chains, pauses and stops in Main    *)
(* and the Sound process mixes (src/Sound/SoundManager.cc): the list of    *)
(* loaded sounds with their reference counts, the playlist, the channels,  *)
(* and the messages that carry a sound's data to the Sound process.        *)
(*                                                                         *)
(* What is done under the manager's lock is one step.  release() tests its *)
(* argument before it takes the lock; chainFile() and chain() walk the     *)
(* chain, take an entry and link it without; stopPlay() without an         *)
(* argument takes it for every sound anew; and ProcessMsg(), in the Sound  *)
(* process, does not take it at all: all these have a step for each part   *)
(* that others come between.  Sample offsets are left out: a sound that    *)
(* has its data may come to its end in any call of CopyTo().  Sounds have  *)
(* names, as the files have: a buffer is a file nobody else loads.         *)
(* Behaviors begin a call with a Play_ID only while it plays, and play or  *)
(* chain a sound only while it is in the list.                             *)
(***************************************************************************)
EXTENDS PoolOps, SequencesExt

CONSTANTS Files,
          MAX_SND,
          MAX_PLAY,
          max_chan,
          MaxHeld,      \* bound: references the behaviors keep to one Snd_ID
          MaxOwed,      \* bound: references to one Snd_ID nobody counted
          MaxLoads      \* bound: sounds read from a file, which fails after that

(* loadBuffer() writes behind the list when no entry is left: the model    *)
(* has room for every sound.                                               *)
ASSUME Parameters == /\ MAX_SND \in Nat /\ Cardinality(Files) <= MAX_SND
                     /\ MAX_PLAY \in Nat \ {0} /\ max_chan \in Nat \ {0}
                     /\ MaxHeld \in Nat /\ MaxOwed \in Nat /\ MaxLoads \in Nat

SndSlots == 0 .. MAX_SND - 1
PlaySlots == 0 .. MAX_PLAY - 1
NoRegion == 0      \* a NULL rcr; a sound's region is known by its serial number
NoFile == "no file"

VARIABLES sm,       \* the manager in shared memory
          sn,       \* the last serial number
          inbox,    \* messages to the Sound process
          attached, \* regions the Sound process has a reference to
          snd,      \* the message ProcessMsg() has found good but not yet entered
          main,     \* what Main is doing
          held,     \* history: references the behaviors have to each Snd_ID
          owed,     \* history: references to it nobody counted: those of chain()
          heads,    \* history: the Play_IDs behaviors have that still play
          stray,    \* history: regions entered after their sound had gone
          broken    \* history: a chain lost its base

past == <<held, owed, heads, stray, broken>>
vars == <<sm, sn, inbox, attached, snd, main, past>>

(* SoundData() and PlayState() *)
NoSound == [file |-> NoFile, rcr |-> NoRegion, data |-> FALSE, ref |-> 0, sn |-> 0]
NewPlay == [snd_id |-> End, next_id |-> End]

NoMsg == [id |-> End, sn |-> 0, found |-> 0]
(* Idle, and after shared data was changed by two at once: what the program *)
(* does from there is not known and the model stops.                       *)
Idle == [at |-> "idle", base |-> End, nplay |-> End, file |-> NoFile, snd |-> End]
Unknown == [Idle EXCEPT !.at = "unknown"]
Known == main # Unknown

Init == /\ sm = [sndlist |-> EmptyPool(MAX_SND), sounds |-> [i \in SndSlots |-> NoSound],
                 playlist |-> EmptyPool(MAX_PLAY), plays |-> [p \in PlaySlots |-> NewPlay],
                 chanlist |-> << >>]
        /\ sn = 0 /\ inbox = << >> /\ attached = {} /\ snd = NoMsg
        /\ main = Idle
        /\ held = [i \in SndSlots |-> 0] /\ owed = [i \in SndSlots |-> 0]
        /\ heads = {} /\ stray = {} /\ broken = FALSE

-------------------------------------------------------------------------------
(* Loading and releasing. *)

lookupPath(s, f) ==
    LET found == {i \in UsedSlots(s.sndlist) : s.sounds[i].file = f}
    IN  IF found = {} THEN End ELSE CHOOSE i \in found : TRUE

Loadable(f) == lookupPath(sm, f) # End \/ sn < MaxLoads

(* The entry a file's sound has, or will get. *)
SlotOf(f) == IF lookupPath(sm, f) # End THEN lookupPath(sm, f) ELSE NextSlot(sm.sndlist)

(* loadFile: one more reference to the sound, or an entry of its own.      *)
Load(s, f) ==
    IF lookupPath(s, f) # End THEN [s EXCEPT !.sounds[lookupPath(s, f)].ref = @ + 1]
    ELSE [s EXCEPT !.sndlist = PushFront(@),
                   !.sounds[NextSlot(s.sndlist)] = [NoSound EXCEPT !.file = f, !.ref = 1, !.sn = sn + 1]]

(* The message with the data of a new sound. *)
Sent(f) ==
    IF lookupPath(sm, f) # End THEN UNCHANGED <<sn, inbox>>
    ELSE /\ sn' = sn + 1
         /\ inbox' = Append(inbox, [type |-> "add", id |-> NextSlot(sm.sndlist), sn |-> sn + 1])

(* A freed entry keeps its pointer to the samples; a play that is left may *)
(* still read from there.                                                  *)
Release(s, i) ==
    IF s.sounds[i].ref = 0 THEN s
    ELSE IF s.sounds[i].ref > 1 THEN [s EXCEPT !.sounds[i].ref = @ - 1]
    ELSE [s EXCEPT !.sounds[i] = [NoSound EXCEPT !.data = s.sounds[i].data],
                   !.sndlist = Erase(@, i)]

(* release() of a sound that has no reference left is refused: one less    *)
(* that nobody had counted.                                                *)
Settled(i) == IF sm.sounds[i].ref = 0 THEN [owed EXCEPT ![i] = @ - 1] ELSE owed

(* The last reference gone, the region is detached: by the Sound process   *)
(* itself or by a message to it.                                           *)
Detach(p, i) ==
    LET lost == IF sm.sounds[i].ref = 1 THEN {sm.sounds[i].rcr} \ {NoRegion} ELSE {}
    IN  IF p = "Sound" THEN attached' = attached \ lost /\ UNCHANGED inbox
        ELSE /\ inbox' = inbox \o SetToSeq({[type |-> "del", id |-> End, sn |-> r] : r \in lost})
             /\ UNCHANGED attached

loadFile(f) ==
    /\ main = Idle /\ Loadable(f) /\ held[SlotOf(f)] < MaxHeld
    /\ sm' = Load(sm, f) /\ Sent(f)
    /\ held' = [held EXCEPT ![SlotOf(f)] = @ + 1]
    /\ UNCHANGED <<attached, snd, main, owed, heads, stray, broken>>

(* The count is tested before the lock is taken ... *)
release(i) ==
    /\ main = Idle /\ held[i] > 0
    /\ held' = [held EXCEPT ![i] = @ - 1]
    /\ owed' = Settled(i)
    /\ main' = IF sm.sounds[i].ref = 0 THEN Idle ELSE [Idle EXCEPT !.at = "release", !.snd = i]
    /\ UNCHANGED <<sm, sn, inbox, attached, snd, heads, stray, broken>>

(* ... and may be zero when it is taken from: it wraps around. *)
releaseLocked ==
    /\ main.at = "release"
    /\ main' = IF sm.sounds[main.snd].ref = 0 THEN Unknown ELSE Idle
    /\ sm' = Release(sm, main.snd) /\ Detach("Main", main.snd)
    /\ UNCHANGED <<sn, snd, past>>

-------------------------------------------------------------------------------
(* Playing. *)

(* A new entry of the playlist for sound i, in a channel of its own. *)
Play(s, i) ==
    LET p == NextSlot(s.playlist) IN
    [s EXCEPT !.sounds[i].ref = @ + 1, !.playlist = PushFront(@),
              !.plays[p] = [NewPlay EXCEPT !.snd_id = i], !.chanlist = <<p>> \o @]

play(i) ==
    /\ main = Idle /\ held[i] > 0 /\ i \in UsedSlots(sm.sndlist) /\ ~IsFull(sm.playlist)
    /\ sm' = Play(sm, i)
    /\ heads' = heads \cup {NextSlot(sm.playlist)}
    /\ UNCHANGED <<sn, inbox, attached, snd, main, held, owed, stray, broken>>

(* The reference that loadFile() gave is taken back before play().         *)
playFile(f) ==
    /\ main = Idle /\ ~IsFull(sm.playlist) /\ Loadable(f)
    /\ LET loaded == Load(sm, f)
           i == SlotOf(f)
       IN  sm' = Play([loaded EXCEPT !.sounds[i].ref = @ - 1], i)
    /\ Sent(f)
    /\ heads' = heads \cup {NextSlot(sm.playlist)}
    /\ UNCHANGED <<attached, snd, main, held, owed, stray, broken>>

(* What a freed entry of the playlist holds is read only by a call that is *)
(* walking the chain it was in, and of that only where it leads.           *)
Left(s, id) == [NewPlay EXCEPT !.next_id = IF main.at = "walk" THEN s.plays[id].next_id ELSE End]

Forgotten(s, id) ==
    [s EXCEPT !.playlist = Erase(@, id), !.plays[id] = Left(s, id),
              !.chanlist = SelectSeq(@, LAMBDA c : c # id)]

(* The Sound process changes the playlist while Main may be taking an      *)
(* entry from it, or giving one back, without the lock.                    *)
Collision == main' = IF main.at \in {"taking", "giving"} THEN Unknown ELSE main

(* stopPlay(id) knows only the plays that are in a channel. *)
stop(p, id) ==
    IF id \in ToSet(sm.chanlist)
    THEN /\ sm' = Forgotten(Release(sm, sm.plays[id].snd_id), id)
         /\ Detach(p, sm.plays[id].snd_id)
         /\ owed' = Settled(sm.plays[id].snd_id)
         /\ heads' = heads \ {id}
         /\ broken' = (broken \/ sm.plays[id].next_id # End)
    ELSE UNCHANGED <<sm, inbox, attached, owed, heads, broken>>

stopPlay(id) ==
    /\ main = Idle /\ id \in heads
    /\ stop("Main", id)
    /\ UNCHANGED <<sn, snd, main, held, stray>>

pausePlay(id) ==
    /\ main = Idle /\ id \in heads
    /\ sm' = [sm EXCEPT !.chanlist = SelectSeq(@, LAMBDA c : c # id)]
    /\ UNCHANGED <<sn, inbox, attached, snd, main, past>>

resumePlay(id) ==
    /\ main = Idle /\ id \in heads \ ToSet(sm.chanlist)
    /\ sm' = [sm EXCEPT !.chanlist = <<id>> \o @]
    /\ UNCHANGED <<sn, inbox, attached, snd, main, past>>

(* stopPlay(): the first of the playlist, again and again. *)
stopAll ==
    /\ main = Idle
    /\ main' = [Idle EXCEPT !.at = "stopping"]
    /\ UNCHANGED <<sm, sn, inbox, attached, snd, past>>

stopNext ==
    /\ main.at = "stopping"
    /\ IF sm.playlist.used = << >>
       THEN main' = Idle /\ UNCHANGED <<sm, inbox, attached, owed, heads, broken>>
       ELSE stop("Main", Head(sm.playlist.used)) /\ UNCHANGED main
    /\ UNCHANGED <<sn, snd, held, stray>>

-------------------------------------------------------------------------------
(* Chaining: the end of the chain is looked for, an entry taken, the sound *)
(* loaded, and the entry linked, while the Sound process plays on; only    *)
(* the loading takes the lock.                                             *)

Chain(id, f, i) ==
    /\ main = Idle /\ id \in heads
    /\ main' = [at |-> "walk", base |-> id, nplay |-> End, file |-> f, snd |-> i]
    /\ UNCHANGED <<sm, sn, inbox, attached, snd, past>>

(* chainFile() and chainBuffer() load the sound, chain() is given it. *)
chainFile(id, f) == Chain(id, f, End)
chain(id, i) == (\A j \in SndSlots : owed[j] < MaxOwed) /\ held[i] > 0 /\ i \in UsedSlots(sm.sndlist) /\ Chain(id, NoFile, i)

chainWalk ==
    /\ main.at = "walk"
    /\ LET next == sm.plays[main.base].next_id
       IN  main' = IF next = End THEN [main EXCEPT !.at = "take"]
                   ELSE [main EXCEPT !.base = next]
    /\ UNCHANGED <<sm, sn, inbox, attached, snd, past>>

(* playlist.new_front() begins, or finds no entry left. *)
chainTake ==
    /\ main.at = "take"
    /\ main' = IF IsFull(sm.playlist) THEN Idle ELSE [main EXCEPT !.at = "taking"]
    /\ UNCHANGED <<sm, sn, inbox, attached, snd, past>>

chainTaken ==
    /\ main.at = "taking"
    /\ LET p == NextSlot(sm.playlist) IN
       /\ sm' = [sm EXCEPT !.playlist = PushFront(@), !.plays[p] = NewPlay]
       /\ main' = [main EXCEPT !.at = IF main.snd = End THEN "load" ELSE "link", !.nplay = p]
    /\ UNCHANGED <<sn, inbox, attached, snd, past>>

chainLoad ==
    /\ main.at = "load"
    /\ IF Loadable(main.file)
       THEN /\ sm' = Load(sm, main.file) /\ Sent(main.file)
            /\ main' = [main EXCEPT !.at = "link", !.snd = SlotOf(main.file)]
       ELSE /\ main' = [main EXCEPT !.at = "giving"]
            /\ UNCHANGED <<sm, sn, inbox>>
    /\ UNCHANGED <<attached, snd, past>>

(* playlist.pop_front() *)
chainGiven ==
    /\ main.at = "giving" /\ main' = Idle
    /\ sm' = [sm EXCEPT !.playlist = TakeOut(@, 1)]
    /\ UNCHANGED <<sn, inbox, attached, snd, past>>

(* chain() counts no reference for the new play.  The base may have ended, *)
(* and its entry may even be the one that was taken.                       *)
chainLink ==
    /\ main.at = "link" /\ main' = Idle
    /\ sm' = [sm EXCEPT !.plays = [[@ EXCEPT ![main.nplay].snd_id = main.snd]
                                      EXCEPT ![main.base].next_id = main.nplay]]
    /\ owed' = IF main.file = NoFile THEN [owed EXCEPT ![main.snd] = @ + 1] ELSE owed
    /\ broken' = \/ broken
                 \/ main.base = main.nplay \/ main.base \notin UsedSlots(sm.playlist)
    /\ UNCHANGED <<sn, inbox, attached, snd, held, heads, stray>>

-------------------------------------------------------------------------------
(* The Sound process. *)

Expected_Any(m) == m.id \in UsedSlots(sm.sndlist)   \* mutant
Expected(m) == sm.sounds[m.id].sn = m.sn

(* ProcessMsg: the serial number is compared ... *)
ProcessMsg ==
    /\ Known /\ snd = NoMsg /\ inbox # << >>
    /\ inbox' = Tail(inbox)
    /\ LET m == Head(inbox) IN
       /\ snd' = IF m.type = "add" /\ Expected(m)
                 THEN [id |-> m.id, sn |-> m.sn, found |-> sm.sounds[m.id].sn] ELSE NoMsg
       /\ attached' = IF m.type = "del" THEN attached \ {m.sn} ELSE attached
    /\ UNCHANGED <<sm, sn, main, past>>

(* ... and the region entered, whatever the entry is by now. *)
attach ==
    /\ Known /\ snd # NoMsg /\ snd' = NoMsg
    /\ sm' = [sm EXCEPT !.sounds[snd.id].rcr = snd.sn, !.sounds[snd.id].data = TRUE]
    /\ attached' = attached \cup {snd.sn}
    /\ stray' = IF sm.sounds[snd.id].sn = snd.found THEN stray ELSE stray \cup {snd.sn}
    /\ UNCHANGED <<sn, inbox, main, held, owed, heads, broken>>


MoveOn_Unreleased(s, id) ==
    LET next == s.plays[id].next_id
    IN  [s EXCEPT !.plays[id] = s.plays[next], !.plays[next] = Left(s, next),
                  !.playlist = Erase(@, next)]

(* The next sound of the chain takes the place of the one that ended.      *)
MoveOn(s, id) ==
    LET next == s.plays[id].next_id
    IN  [Release(s, s.plays[id].snd_id) EXCEPT !.plays[id] = s.plays[next],
                                               !.plays[next] = Left(s, next),
                                               !.playlist = Erase(@, next)]

endPlay(id) ==
    IF sm.plays[id].next_id = End THEN stop("Sound", id)
    ELSE /\ sm' = MoveOn(sm, id)
         /\ Detach("Sound", sm.plays[id].snd_id)
         /\ owed' = Settled(sm.plays[id].snd_id)
         /\ UNCHANGED <<heads, broken>>

HasData(id) == sm.sounds[sm.plays[id].snd_id].data

(* selectChannels() in mode Stop ends the oldest when enough newer ones    *)
(* have data; in every mode a sound that has data may come to its end.     *)
Outdated ==
    LET ready == {k \in DOMAIN sm.chanlist : HasData(sm.chanlist[k])}
    IN  IF \E k \in ready : k < Len(sm.chanlist) /\ Cardinality({j \in ready : j <= k}) = max_chan
        THEN {Last(sm.chanlist)} ELSE {}

CopyTo ==
    /\ \E id \in {c \in ToSet(sm.chanlist) : HasData(c)} \cup Outdated : endPlay(id)
    /\ Known /\ Collision
    /\ UNCHANGED <<sn, snd, held, stray>>

-------------------------------------------------------------------------------
Main == \/ \E f \in Files : loadFile(f) \/ playFile(f)
        \/ \E i \in SndSlots : release(i) \/ play(i)
        \/ \E id \in PlaySlots : \/ stopPlay(id) \/ pausePlay(id) \/ resumePlay(id)
                                 \/ \E f \in Files : chainFile(id, f)
                                 \/ \E i \in SndSlots : chain(id, i)
        \/ releaseLocked \/ stopAll \/ stopNext
        \/ chainWalk \/ chainTake \/ chainTaken \/ chainLoad \/ chainGiven \/ chainLink

Next == Main \/ ProcessMsg \/ attach \/ CopyTo \/ (~Known /\ UNCHANGED vars)

Spec == Init /\ [][Next]_vars

(* Main goes on stopping sounds, the Sound process handles messages and    *)
(* mixes; sounds have an end.                                              *)
FairSpec == Spec /\ WF_vars(stopNext) /\ WF_vars(ProcessMsg \/ attach) /\ WF_vars(CopyTo)

-------------------------------------------------------------------------------
TypeOK ==
    /\ sm.sounds \in [SndSlots -> [file : Files \cup {NoFile}, rcr : 0 .. MaxLoads,
                                   data : BOOLEAN, ref : Nat, sn : 0 .. MaxLoads]]
    /\ sm.plays \in [PlaySlots -> [snd_id : SndSlots \cup {End}, next_id : PlaySlots \cup {End}]]
    /\ ToSet(sm.chanlist) \subseteq PlaySlots
    /\ attached \subseteq 1 .. MaxLoads /\ stray \subseteq 1 .. MaxLoads
    /\ owed \in [SndSlots -> Nat]

(* Every region the Sound process has attached is that of a sound in the   *)
(* list, the one it was sent for, or is about to be given back: however    *)
(* quickly sounds are loaded and released while messages are on the way,   *)
(* none is leaked and none is played for another, but for those whose      *)
(* sound was released just as ProcessMsg() was entering them.              *)
RegionsAccounted ==
    LET listed == {sm.sounds[i].rcr : i \in UsedSlots(sm.sndlist)} \ {NoRegion}
        leaving == {inbox[k].sn : k \in {j \in DOMAIN inbox : inbox[j].type = "del"}}
    IN  /\ attached \ stray = (listed \cup leaving) \ stray /\ listed \cap leaving = {}
        /\ \A i \in UsedSlots(sm.sndlist) :
               sm.sounds[i].rcr \in {NoRegion, sm.sounds[i].sn} \cup stray

(* A sound is in the list exactly as long as its count is not zero, and    *)
(* the count is one for each reference of a behavior, each play and each   *)
(* call under way, whoever ends, stops or chains what - except that each   *)
(* chain() was one too few, until a release() too many is refused.         *)
RefsExact ==
    \A i \in SndSlots :
        LET playing == {p \in UsedSlots(sm.playlist) : sm.plays[p].snd_id = i}
            underWay == \/ main.at = "release" /\ main.snd = i
                        \/ main.at = "link" /\ main.file # NoFile /\ main.snd = i
        IN  /\ i \in UsedSlots(sm.sndlist) <=> sm.sounds[i].ref > 0
            /\ Known => sm.sounds[i].ref + owed[i]
                           = held[i] + Cardinality(playing) + (IF underWay THEN 1 ELSE 0)

(* Every play has its sound still: only chain() can lead to one that lost  *)
(* it, which then may never have data.                                     *)
Served == \A p \in UsedSlots(sm.playlist) :
             sm.plays[p].snd_id \in UsedSlots(sm.sndlist) \cup {End}

=============================================================================
