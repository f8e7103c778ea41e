---------------------------- MODULE MCEventRouter ----------------------------
(***************************************************************************)
(* Two generators, 0 and erouterEGID = 1.  Behaviors listen to all of 0,   *)
(* to source 0 of it, or to all that the router says of itself.            *)
(***************************************************************************)
EXTENDS EventRouter

CONSTANTS a, b, t

General(g) == [egid |-> g, sid |-> Every, etid |-> Every]
OneSource == [egid |-> 0, sid |-> 0, etid |-> Every]

SomeEvents == {[egid |-> 0, sid |-> 0, etid |-> "status"]}
SomeScopes == {General(0), OneSource, General(1)}

Sub(el, w) == [el |-> el, scope |-> w]

SomeSetups ==
    {[listeners |-> Subscribed(<<Sub(a, General(0)), Sub(b, General(0))>>),
      trappers |-> EmptyMapper],
     [listeners |-> Subscribed(<<Sub(a, General(0)), Sub(b, OneSource), Sub(a, General(1))>>),
      trappers |-> Subscribed(<<Sub(t, General(0))>>)]}
=============================================================================
