----------------------------- MODULE MCStateNode ------------------------------
(* A machine of two states, one of which is a machine of two states.  A    *)
(* sensor makes A and B take turns, and leaves Inner at the same time; B   *)
(* has a second way back that may be taken at once, and what happens       *)
(* inside moves the outer machine.                                         *)
EXTENDS StateNode

CONSTANTS Outer, Inner, Other, A, B, ab, ba, done, leave, enter

MCnodes == [n \in Nodes |-> CASE n = Outer -> <<Inner, Other>>
                              [] n = Inner -> <<A, B>>
                              [] OTHER -> << >>]
MCstart == [n \in Nodes |-> IF n = Outer THEN Inner ELSE A]
MCtransitions == [n \in Nodes |-> CASE n = A -> <<ab>> [] n = B -> <<done, ba>>
                                    [] n = Inner -> <<leave>> [] n = Other -> <<enter>>
                                    [] OTHER -> << >>]
MCsrcs == [t \in Transitions |-> CASE t = ab -> <<A>> [] t \in {ba, done} -> <<B>>
                                   [] t = leave -> <<Inner>> [] t = enter -> <<Other>>]
MCdsts == [t \in Transitions |-> CASE t = ab -> <<B>> [] t \in {ba, done} -> <<A>>
                                   [] t = leave -> <<Other>> [] t = enter -> <<Inner>>]
MChears == [t \in Transitions |-> CASE t = ab -> {Outside}
                                    [] t = ba -> {Outside, ab}
                                    [] t = done -> {Outside, B}
                                    [] t = leave -> {Outside, A, B}
                                    [] t = enter -> {Outside, Other, leave}]
=============================================================================
