---------------------------- MODULE RequestReply ----------------------------
(***************************************************************************)
(* What the transport of the 9P server promises the guest: a request is    *)
(* answered at most once, with the answer to that request, and its tag is  *)
(* in use until the guest has the answer, gives the request up or reboots. *)
(***************************************************************************)
CONSTANT Tag

VARIABLES
  asked,     \* the tags of requests that have no answer yet
  answered   \* the tags of answers the guest has not taken yet

vars == <<asked, answered>>

TypeOK == asked \subseteq Tag /\ answered \subseteq Tag

Init == asked = {} /\ answered = {}

Ask(t) ==
  /\ t \notin asked \cup answered
  /\ asked' = asked \cup {t}
  /\ UNCHANGED answered

Answer(t) ==
  /\ t \in asked
  /\ asked' = asked \ {t}
  /\ answered' = answered \cup {t}

\* The guest takes every answer, and gives up requests that have none.
Take(given_up) ==
  /\ answered # {} /\ given_up \subseteq asked
  /\ answered' = {}
  /\ asked' = asked \ given_up

Reboot == asked' = {} /\ answered' = {}

Next ==
  \/ \E t \in Tag : Ask(t) \/ Answer(t)
  \/ \E given_up \in SUBSET asked : Take(given_up)
  \/ Reboot

Spec == Init /\ [][Next]_vars
=============================================================================
