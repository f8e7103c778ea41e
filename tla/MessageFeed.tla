----------------------------- MODULE MessageFeed -----------------------------
(***************************************************************************)
(* What a MessageQueue promises while it drops nothing: the messages form  *)
(* one log, and a receiver is given every message of it in order, without  *)
(* gaps or repetitions, from some point of the log at which it joined.     *)
(***************************************************************************)
EXTENDS Integers, Sequences

CONSTANTS Receivers, Regions

VARIABLES log, got, at

vars == <<log, got, at>>

(* Not a receiver now. *)
Nowhere == -1

Init == /\ log = << >>
        /\ got = [r \in Receivers |-> << >>]
        /\ at = [r \in Receivers |-> Nowhere]

Publish(m) == /\ log' = Append(log, m)
              /\ UNCHANGED <<got, at>>

(* How much of the backlog a newcomer still gets is left open. *)
Join(r) == /\ at[r] = Nowhere
           /\ at' \in {[at EXCEPT ![r] = k] : k \in 0 .. Len(log)}
           /\ UNCHANGED <<log, got>>

Deliver(r) == /\ at[r] # Nowhere /\ at[r] < Len(log)
              /\ got' = [got EXCEPT ![r] = Append(@, log[at[r] + 1])]
              /\ at' = [at EXCEPT ![r] = @ + 1]
              /\ UNCHANGED log

Leave(r) == /\ at[r] # Nowhere
            /\ at' = [at EXCEPT ![r] = Nowhere]
            /\ UNCHANGED <<log, got>>

Next == \/ \E m \in Regions : Publish(m)
        \/ \E r \in Receivers : Join(r) \/ Deliver(r) \/ Leave(r)

Spec == Init /\ [][Next]_vars
=============================================================================
