----------------------------- MODULE ByteStream -----------------------------
(***************************************************************************)
(* One direction of a connection: what the receiver gets is what was sent, *)
(* in order and once, and the end of the stream only behind all of it.     *)
(* Both ends may act in one step.                                          *)
(***************************************************************************)
EXTENDS Naturals, Sequences

VARIABLES
  sent,    \* how many bytes the sender has sent; the bytes are their numbers
  closed,  \* the sender has ended the stream
  got,     \* the bytes the receiver has
  ended    \* the receiver has seen the end

vars == <<sent, closed, got, ended>>

Init == sent = 0 /\ ~closed /\ got = <<>> /\ ~ended

\* Bytes are sent until the stream is ended, and it stays ended.
Send ==
  /\ sent' >= sent
  /\ closed => closed' /\ sent' = sent

\* The next bytes arrive, with the end when nothing is behind them.
Receive ==
  /\ Len(got) <= Len(got') /\ Len(got') <= sent'
  /\ got' = got \o [i \in 1 .. Len(got') - Len(got) |-> Len(got) + i]
  /\ ended => ended' /\ got' = got
  /\ ended' => closed' /\ Len(got') = sent'

Next == Send /\ Receive

Spec == Init /\ [][Next]_vars
=============================================================================
