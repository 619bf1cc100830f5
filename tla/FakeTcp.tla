------------------------------- MODULE FakeTcp -------------------------------
(***************************************************************************)
(* The network of a machine: one TCP connection that its guest opens, which*)
(* src/browser/fake_network.js ends inside the panel and                   *)
(* src/network_adapter.js carries on over a socket of the host.            *)
(*                                                                         *)
(* A frame of the guest is handled synchronously, so a transmission of the *)
(* guest and its handler are one action.  What the handler answers goes to *)
(* the receive ring of the network card, toGuest, where a frame may be     *)
(* lost; the guest takes it later.  Events of a socket are actions.        *)
(*                                                                         *)
(* The guest's TCP and Node's net.Socket are not part of the repository:   *)
(* the guest sends what a TCP may send in its state, retransmissions of    *)
(* everything that is not acknowledged included.                           *)
(***************************************************************************)
EXTENDS Integers, Sequences, FiniteSets

CONSTANTS
  Conn,        \* TCPConnection objects, each made by one SYN of the guest
  NoConn,      \* not a connection
  W,           \* sequence numbers in a header are modulo W, 2^32 in the code
  Isns,        \* initial sequence numbers the guest may choose
  ChunkSize,   \* bytes in a segment, TCP_PAYLOAD_SIZE in the code
  MaxGuest,    \* bound on the bytes the guest sends
  MaxHost,     \* bound on the bytes the other host sends on one socket
  MaxMishaps,  \* bound on the kinds of mishaps in one history
  MaxQueue     \* the guest retransmits while fewer frames wait for it

Seq0 == 1338   \* the first sequence number of the adapter

ASSUME FakeTcpAssumption ==
  /\ NoConn \notin Conn /\ IsFiniteSet(Conn)
  /\ W \in Nat /\ W > Seq0
  /\ Isns \subseteq 0 .. W - 1
  /\ ChunkSize \in 1 .. W - 1
  /\ MaxGuest \in Nat /\ MaxHost \in Nat /\ MaxMishaps \in Nat /\ MaxQueue \in Nat

VARIABLES
  tcp_conn,    \* the entry of the adapter's table for the tuple, or NoConn
  conn,        \* the TCPConnection objects
  sock,        \* the sockets of the host, by connection
  hostSent,    \* how many bytes the other host has sent on each socket
  written,     \* the bytes written to each socket
  toGuest,     \* frames on their way to the guest
  guest,       \* the guest's end of the connection
  received,    \* the bytes the guest has received in order
  mishaps,     \* what went wrong, of the kinds below
  crashed      \* an exception in an event of a socket has ended the process

adapter == <<tcp_conn, conn, sock, written, crashed>>
vars == <<adapter, hostSent, toGuest, guest, received, mishaps>>

-----------------------------------------------------------------------------
(* What may go wrong: a frame for the guest is lost, the guest repeats its *)
(* SYN, a socket fails, a program of the guest resets its connection.      *)

Mishaps == {"loss", "syn", "error", "reset"}

Mishap(kind) ==
  /\ kind \notin mishaps
  /\ Cardinality(mishaps) < MaxMishaps
  /\ mishaps' = mishaps \cup {kind}

-----------------------------------------------------------------------------
(* Connections and segments.                                               *)

Undefined == -1

FinStates == {"fin-wait-1", "fin-wait-2", "last-ack"}
States == {"none", "syn-received", "established", "close-wait", "closed"} \cup FinStates

\* A socket is "shut" when end() was called on it, "ending" when the other
\* host has ended it, and "broken" when it was written to after either.
SockStates ==
  {"none", "connecting", "open", "shut", "ending", "broken", "closed", "failed"}
Readable == {"open", "shut"}

NewConn == [state |-> "none", seq |-> 0, ack |-> 0, lastAck |-> Undefined, buf |-> <<>>,
            pending |-> FALSE, active |-> FALSE, delayed |-> "none"]

Wire(n) == n % W

Segment(flags, seq, ackn, bytes) ==
  [flags |-> flags, seq |-> Wire(seq), ackn |-> Wire(ackn), bytes |-> bytes]

\* ipv4_reply and packet_reply: a segment with the numbers of connection k.
Reply(k, flags) == Segment(flags, k.seq, k.ack, <<>>)

-----------------------------------------------------------------------------
(* The parts of TCPConnection that several handlers share.                 *)

Sends(k) == k.buf # <<>> /\ ~k.pending

\* pump: one chunk is on its way at a time, and stays in the buffer.
Pump(k) == IF Sends(k) THEN [k EXCEPT !.pending = TRUE] ELSE k

Pumped(k) ==
  IF Sends(k)
  THEN LET n == IF Len(k.buf) < ChunkSize THEN Len(k.buf) ELSE ChunkSize
       IN <<Segment({"psh", "ack"}, k.seq, k.ack, SubSeq(k.buf, 1, n))>>
  ELSE <<>>

\* release: the table entry goes, whichever connection it is, and without
\* one the connection keeps its state.
Released(k) == IF tcp_conn = NoConn THEN k ELSE [k EXCEPT !.state = "closed"]

\* socket.end(), unless the socket is ended or destroyed already.
End(c) == sock' = [sock EXCEPT ![c] = IF @ = "open" THEN "shut" ELSE @]

\* Connection c becomes k and sends the segments, then what it can pump.
Becomes(c, k, segments) ==
  /\ conn' = [conn EXCEPT ![c] = Pump(k)]
  /\ toGuest' = toGuest \o segments \o Pumped(k)

\* The same in a handler that returns before its pump.
Returns(c, k, segments) ==
  /\ conn' = [conn EXCEPT ![c] = k]
  /\ toGuest' = toGuest \o segments

-----------------------------------------------------------------------------
(* TCPConnection.process, for the connection c of the table.  Every        *)
(* segment of the guest but its SYN carries an ACK or an RST.              *)

\* (Mutant: the socket is not ended.)
ProcessResetKeeping(c, s) ==
  /\ "rst" \in s.flags
  /\ Returns(c, Released(conn[c]), <<>>)
  /\ tcp_conn' = NoConn
  /\ UNCHANGED <<sock, written>>

ProcessReset(c, s) ==
  /\ "rst" \in s.flags
  /\ Returns(c, Released(conn[c]), <<>>)
  /\ End(c)
  /\ tcp_conn' = NoConn
  /\ UNCHANGED written

\* (Mutant: the connection is not released.)
ProcessLastAckKeeping(c, s) ==
  /\ "ack" \in s.flags
  /\ conn[c].state = "last-ack"
  /\ Returns(c, conn[c], <<>>)
  /\ UNCHANGED <<tcp_conn, sock, written>>

\* The ACK of the FIN that answered the guest's FIN.
ProcessLastAck(c, s) ==
  /\ "ack" \in s.flags
  /\ conn[c].state = "last-ack"
  /\ Returns(c, Released(conn[c]), <<>>)
  /\ tcp_conn' = NoConn
  /\ UNCHANGED <<sock, written>>

\* How many bytes the segment acknowledges.  The first one that comes is
\* the base of those that follow.
NewlyAcked(k, s) == IF k.lastAck = Undefined THEN 0 ELSE s.ackn - k.lastAck

Drop(seq, n) == SubSeq(seq, n + 1, Len(seq))

\* (Mutant: the next chunk is not let go.)
AckedPending(k, s) ==
  LET n == NewlyAcked(k, s)
      st == IF k.state = "fin-wait-1" /\ "fin" \notin s.flags THEN "fin-wait-2" ELSE k.state
  IN IF n > 0
     THEN [k EXCEPT !.state = st, !.lastAck = s.ackn, !.buf = Drop(@, n), !.seq = @ + n]
     ELSE [k EXCEPT !.state = st, !.lastAck = s.ackn]

\* The connection when the acknowledgement has been counted.
Acked(k, s) ==
  LET n == NewlyAcked(k, s)
      st == IF k.state = "fin-wait-1" /\ "fin" \notin s.flags THEN "fin-wait-2" ELSE k.state
  IN IF n > 0
     THEN [k EXCEPT !.state = st, !.lastAck = s.ackn, !.buf = Drop(@, n),
                    !.seq = @ + n, !.pending = FALSE]
     ELSE [k EXCEPT !.state = st, !.lastAck = s.ackn]

Counts(k, s) == "ack" \in s.flags /\ k.state # "last-ack" /\ NewlyAcked(k, s) >= 0

FinIsDue(k, s) == NewlyAcked(k, s) > 0 /\ k.delayed # "none" /\ Acked(k, s).buf = <<>>

\* The last byte is acknowledged and a FIN was delayed until then.  What
\* else the segment carries is not looked at.
ProcessDelayedFin(c, s) ==
  /\ Counts(conn[c], s) /\ FinIsDue(conn[c], s)
  /\ LET k == [Acked(conn[c], s) EXCEPT !.state = conn[c].delayed, !.delayed = "none"]
     IN Returns(c, k, <<Reply(k, {"ack", "fin"})>>)
  /\ UNCHANGED <<tcp_conn, sock, written>>

\* An acknowledgement before the last one.
ProcessUnderflow(c, s) ==
  /\ "ack" \in s.flags /\ conn[c].state # "last-ack" /\ NewlyAcked(conn[c], s) < 0
  /\ Returns(c, Released(conn[c]), <<Reply(conn[c], {"rst"})>>)
  /\ End(c)
  /\ tcp_conn' = NoConn
  /\ UNCHANGED written

\* A FIN counts as one, whatever its number and the bytes it comes with.
ProcessFin(c, s) ==
  /\ Counts(conn[c], s) /\ ~FinIsDue(conn[c], s) /\ "fin" \in s.flags
  /\ LET k == [Acked(conn[c], s) EXCEPT !.ack = @ + 1]
     IN \/ /\ k.state = "established"
           /\ Becomes(c, [k EXCEPT !.state = "close-wait"], <<Reply(k, {"ack"})>>)
           /\ End(c)
           /\ UNCHANGED tcp_conn
        \/ /\ k.state \in {"fin-wait-1", "fin-wait-2"}
           /\ Becomes(c, Released(k), <<Reply(k, {"ack"})>>)
           /\ tcp_conn' = NoConn
           /\ UNCHANGED sock
        \/ /\ k.state = "close-wait"
           /\ Becomes(c, Released(k), <<Reply(k, {"rst"})>>)
           /\ End(c)
           /\ tcp_conn' = NoConn
  /\ UNCHANGED written

\* A number that is not the next one is answered with the one that is.
ProcessWrongSeq(c, s) ==
  /\ Counts(conn[c], s) /\ ~FinIsDue(conn[c], s) /\ "fin" \notin s.flags
  /\ conn[c].ack # s.seq
  /\ LET k == Acked(conn[c], s) IN Becomes(c, k, <<Reply(k, {"ack"})>>)
  /\ UNCHANGED <<tcp_conn, sock, written>>

\* (Mutant: the sequence number is not compared.)
ProcessDataAnySeq(c, s) ==
  /\ Counts(conn[c], s) /\ ~FinIsDue(conn[c], s) /\ "fin" \notin s.flags
  /\ s.bytes # <<>>
  /\ LET k == [Acked(conn[c], s) EXCEPT !.ack = @ + Len(s.bytes)]
     IN Becomes(c, k, <<Reply(k, {"ack"})>>)
  /\ sock' = [sock EXCEPT ![c] = IF @ \in {"shut", "ending"} THEN "broken" ELSE @]
  /\ written' = IF sock[c] = "open" THEN [written EXCEPT ![c] = @ \o s.bytes] ELSE written
  /\ UNCHANGED tcp_conn

\* Bytes in order go to the socket.  One that is ended, by either side, breaks
\* (ERR_STREAM_WRITE_AFTER_END), and one that is destroyed is not written to.
ProcessData(c, s) ==
  /\ Counts(conn[c], s) /\ ~FinIsDue(conn[c], s) /\ "fin" \notin s.flags
  /\ conn[c].ack = s.seq /\ s.bytes # <<>>
  /\ LET k == [Acked(conn[c], s) EXCEPT !.ack = @ + Len(s.bytes)]
     IN Becomes(c, k, <<Reply(k, {"ack"})>>)
  /\ sock' = [sock EXCEPT ![c] = IF @ \in {"shut", "ending"} THEN "broken" ELSE @]
  /\ written' = IF sock[c] = "open" THEN [written EXCEPT ![c] = @ \o s.bytes] ELSE written
  /\ UNCHANGED tcp_conn

ProcessAck(c, s) ==
  /\ Counts(conn[c], s) /\ ~FinIsDue(conn[c], s) /\ "fin" \notin s.flags
  /\ conn[c].ack = s.seq /\ s.bytes = <<>>
  /\ Becomes(c, Acked(conn[c], s), <<>>)
  /\ UNCHANGED <<tcp_conn, sock, written>>

Process(c, s) ==
  \/ ProcessReset(c, s)
  \/ ProcessLastAck(c, s)
  \/ ProcessDelayedFin(c, s)
  \/ ProcessUnderflow(c, s)
  \/ ProcessFin(c, s)
  \/ ProcessWrongSeq(c, s)
  \/ ProcessData(c, s)
  \/ ProcessAck(c, s)

-----------------------------------------------------------------------------
(* handle_fake_tcp: what becomes of a segment s of the guest.              *)

\* on_tcp_connection: a new connection and a socket that connects, whether
\* or not there are others for the tuple.
OpenConnection(s) ==
  /\ "syn" \in s.flags
  /\ \E c \in Conn :
       /\ sock[c] = "none"
       /\ conn' = [conn EXCEPT ![c] = [NewConn EXCEPT !.state = "syn-received"]]
       /\ sock' = [sock EXCEPT ![c] = "connecting"]
  /\ UNCHANGED <<tcp_conn, written, toGuest>>

ResetUnknown(s) ==
  /\ "syn" \notin s.flags
  /\ tcp_conn = NoConn
  /\ toGuest' = Append(toGuest,
       Segment({"rst"}, IF "fin" \in s.flags THEN s.ackn + 1 ELSE s.ackn, s.seq, <<>>))
  /\ UNCHANGED <<tcp_conn, conn, sock, written>>

Deliver(s) ==
  /\ \/ OpenConnection(s)
     \/ ResetUnknown(s)
     \/ "syn" \notin s.flags /\ \E c \in Conn : c = tcp_conn /\ Process(c, s)
  /\ UNCHANGED crashed
-----------------------------------------------------------------------------
(* The socket of a connection.                                             *)

\* (Mutant: the SYN is not answered.)
ConnectedSilently(c) ==
  /\ sock[c] = "connecting"
  /\ sock' = [sock EXCEPT ![c] = "open"]
  /\ conn' = [conn EXCEPT ![c] = [@ EXCEPT !.state = "established", !.seq = Seq0,
                                         !.ack = guest.isn + 1]]
  /\ tcp_conn' = c
  /\ UNCHANGED <<hostSent, written, toGuest, guest, received, mishaps, crashed>>

\* accept, with the SYN that opened the connection: it comes to the table.
Connected(c) ==
  /\ sock[c] = "connecting"
  /\ sock' = [sock EXCEPT ![c] = "open"]
  /\ conn' = [conn EXCEPT ![c] = [@ EXCEPT !.state = "established", !.seq = Seq0,
                                         !.ack = guest.isn + 1]]
  /\ toGuest' = Append(toGuest, Segment({"syn", "ack"}, Seq0 - 1, guest.isn + 1, <<>>))
  /\ tcp_conn' = c
  /\ UNCHANGED <<hostSent, written, guest, received, mishaps, crashed>>

\* (Mutant: the FIN does not wait for the buffer.)
CloseAtOnce(c) ==
  LET k == [conn[c] EXCEPT !.active = TRUE]
      next == IF k.state = "established" THEN "fin-wait-1" ELSE "last-ack"
  IN \/ /\ conn[c].active
        /\ Becomes(c, k, <<>>)
        /\ UNCHANGED tcp_conn
     \/ /\ ~conn[c].active /\ k.state \in {"established", "close-wait"}
        /\ Becomes(c, [k EXCEPT !.state = next], <<Reply(k, {"ack", "fin"})>>)
        /\ UNCHANGED tcp_conn
     \/ /\ ~conn[c].active /\ k.state = "closed"
        /\ Returns(c, k, <<>>)
        /\ tcp_conn' = NoConn

\* (Mutant: the next state of CLOSE_WAIT is missing.)
CloseForgetsCloseWait(c) ==
  LET k == [conn[c] EXCEPT !.active = TRUE]
      next == IF k.state = "established" THEN "fin-wait-1" ELSE "undefined"
  IN \/ /\ conn[c].active
        /\ Becomes(c, k, <<>>)
        /\ UNCHANGED tcp_conn
     \/ /\ ~conn[c].active /\ k.state \in {"established", "close-wait"}
        /\ k.buf # <<>> \/ k.pending
        /\ Becomes(c, [k EXCEPT !.delayed = next], <<>>)
        /\ UNCHANGED tcp_conn
     \/ /\ ~conn[c].active /\ k.state \in {"established", "close-wait"}
        /\ k.buf = <<>> /\ ~k.pending
        /\ Becomes(c, [k EXCEPT !.state = next], <<Reply(k, {"ack", "fin"})>>)
        /\ UNCHANGED tcp_conn
     \/ /\ ~conn[c].active /\ k.state = "closed"
        /\ Returns(c, k, <<>>)
        /\ tcp_conn' = NoConn

\* TCPConnection.close of a connection k = conn[c] that was accepted.
Close(c) ==
  LET k == [conn[c] EXCEPT !.active = TRUE]
      next == IF k.state = "established" THEN "fin-wait-1" ELSE "last-ack"
  IN \/ /\ conn[c].active
        /\ Becomes(c, k, <<>>)
        /\ UNCHANGED tcp_conn
     \/ /\ ~conn[c].active /\ k.state \in {"established", "close-wait"}
        /\ k.buf # <<>> \/ k.pending
        /\ Becomes(c, [k EXCEPT !.delayed = next], <<>>)
        /\ UNCHANGED tcp_conn
     \/ /\ ~conn[c].active /\ k.state \in {"established", "close-wait"}
        /\ k.buf = <<>> /\ ~k.pending
        /\ Becomes(c, [k EXCEPT !.state = next], <<Reply(k, {"ack", "fin"})>>)
        /\ UNCHANGED tcp_conn
     \/ /\ ~conn[c].active /\ k.state = "closed"
        /\ Returns(c, k, <<>>)
        /\ tcp_conn' = NoConn

\* Without an entry in the table, release does nothing on "error", and close
\* sends a FIN from a connection that has no addresses yet, which throws.
Refused(c) ==
  /\ sock[c] = "connecting"
  /\ sock' = [sock EXCEPT ![c] = "failed"]
  /\ conn' = [conn EXCEPT ![c] = Released(@)]
  /\ crashed' = (tcp_conn = NoConn)
  /\ tcp_conn' = NoConn
  /\ UNCHANGED <<hostSent, written, toGuest, guest, received, mishaps>>

\* TCPConnection.write
HostData(c) ==
  /\ sock[c] \in Readable
  /\ hostSent[c] < MaxHost
  /\ hostSent' = [hostSent EXCEPT ![c] = @ + 1]
  /\ Becomes(c, IF conn[c].active THEN conn[c]
                ELSE [conn[c] EXCEPT !.buf = Append(@, <<c, hostSent'[c]>>)], <<>>)
  /\ UNCHANGED <<tcp_conn, sock, written, guest, received, mishaps, crashed>>

\* The other host ends its stream, and Node ends the socket in return.
HostEnd(c) ==
  /\ sock[c] \in Readable
  /\ sock' = [sock EXCEPT ![c] = "ending"]
  /\ Close(c)
  /\ UNCHANGED <<hostSent, written, guest, received, mishaps, crashed>>

SocketClosed(c) ==
  /\ sock[c] = "ending"
  /\ sock' = [sock EXCEPT ![c] = "closed"]
  /\ IF conn[c].state = "closed" THEN UNCHANGED <<tcp_conn, conn, toGuest>> ELSE Close(c)
  /\ UNCHANGED <<hostSent, written, guest, received, mishaps, crashed>>

\* The socket fails, by the other host or by a write after its end: events
\* "error" and "close".  Nobody tells the guest.
SocketError(c) ==
  /\ \/ sock[c] \in Readable \cup {"ending"} /\ Mishap("error")
     \/ sock[c] = "broken" /\ UNCHANGED mishaps
  /\ sock' = [sock EXCEPT ![c] = "failed"]
  /\ IF conn[c].state = "closed"
     THEN UNCHANGED <<tcp_conn, conn, toGuest>>
     ELSE \/ tcp_conn = NoConn /\ Close(c)
          \/ /\ tcp_conn # NoConn
             /\ Returns(c, Released(conn[c]), <<>>)
             /\ tcp_conn' = NoConn
  /\ UNCHANGED <<hostSent, written, guest, received, crashed>>

-----------------------------------------------------------------------------
(* The guest: what a TCP does in its place.                                *)

One(b) == IF b THEN 1 ELSE 0

RcvNxt == Seq0 + Len(received) + One(guest.eof)

\* n bytes of the guest behind its first from bytes, with its FIN or not.
GuestSegment(from, n, fin) ==
  Segment({"ack"} \cup (IF fin THEN {"fin"} ELSE {}), guest.isn + 1 + from, RcvNxt,
          [i \in 1 .. n |-> from + i])

GuestUnchanged == UNCHANGED <<hostSent, received>>

GuestConnect ==
  /\ guest.st = "closed"
  /\ guest' = [guest EXCEPT !.st = "syn-sent"]
  /\ Deliver(Segment({"syn"}, guest.isn, 0, <<>>))
  /\ GuestUnchanged /\ UNCHANGED mishaps

GuestRepeatSyn ==
  /\ guest.st = "syn-sent"
  /\ Len(toGuest) < MaxQueue
  /\ Deliver(Segment({"syn"}, guest.isn, 0, <<>>))
  /\ Mishap("syn")
  /\ UNCHANGED guest
  /\ GuestUnchanged

\* The ACK that ends the handshake, or one for what was received.
GuestAck ==
  /\ guest.st = "acking" \/ guest.ackDue
  /\ guest' = [guest EXCEPT !.st = IF @ = "acking" THEN "open" ELSE @, !.ackDue = FALSE]
  /\ Deliver(GuestSegment(guest.snd + One(guest.fin), 0, FALSE))
  /\ GuestUnchanged /\ UNCHANGED mishaps

GuestSend(n, fin) ==
  /\ guest.st = "open" /\ ~guest.fin
  /\ n > 0 \/ fin
  /\ guest.snd + n <= MaxGuest
  /\ guest' = [guest EXCEPT !.snd = @ + n, !.fin = fin, !.finAlone = n = 0, !.ackDue = FALSE]
  /\ Deliver(GuestSegment(guest.snd, n, fin))
  /\ GuestUnchanged /\ UNCHANGED mishaps

\* What is not acknowledged, from its first byte on.
GuestRepeat(n) ==
  /\ guest.st = "open"
  /\ guest.una < guest.snd + One(guest.fin)
  /\ Len(toGuest) < MaxQueue
  /\ guest.una + n <= guest.snd
  /\ n > 0 \/ guest.una >= guest.snd
  /\ guest' = [guest EXCEPT !.ackDue = FALSE]
  /\ Deliver(GuestSegment(IF guest.una > guest.snd THEN guest.snd ELSE guest.una, n,
                          guest.fin /\ guest.una + n >= guest.snd))
  /\ GuestUnchanged /\ UNCHANGED mishaps

\* A RST: the program gives up, or answers a frame of a connection it left.
GuestReset ==
  /\ guest.st \in {"open", "resetting"}
  /\ guest' = [guest EXCEPT !.st = "reset", !.ackDue = FALSE]
  /\ Deliver(Segment({"rst"}, guest.isn + 1 + guest.snd, 0, <<>>))
  /\ IF guest.st = "open" THEN Mishap("reset") ELSE UNCHANGED mishaps
  /\ GuestUnchanged

AckedBy(f) ==
  LET n == (f.ackn - guest.isn - 1) % W
  IN IF n <= guest.snd + One(guest.fin) /\ n > guest.una THEN n ELSE guest.una

\* The guest takes a frame from the ring of its network card.
Taken(f) ==
  \/ /\ guest.st = "syn-sent"
     /\ guest' = IF {"syn", "ack"} \subseteq f.flags THEN [guest EXCEPT !.st = "acking"] ELSE guest
     /\ UNCHANGED received
  \/ /\ guest.st = "open" /\ "rst" \in f.flags
     /\ guest' = IF f.seq = Wire(RcvNxt) THEN [guest EXCEPT !.st = "reset", !.ackDue = FALSE]
                                         ELSE [guest EXCEPT !.ackDue = TRUE]
     /\ UNCHANGED received
  \/ /\ guest.st = "open" /\ "rst" \notin f.flags
     /\ f.seq # Wire(RcvNxt) \/ "syn" \in f.flags
     /\ guest' = [guest EXCEPT !.ackDue = TRUE, !.una = AckedBy(f)]
     /\ UNCHANGED received
  \/ /\ guest.st = "open" /\ f.flags \cap {"rst", "syn"} = {} /\ f.seq = Wire(RcvNxt)
     /\ guest' = [guest EXCEPT !.una = AckedBy(f), !.eof = @ \/ "fin" \in f.flags,
                               !.ackDue = @ \/ f.bytes # <<>> \/ "fin" \in f.flags]
     /\ received' = IF guest.eof THEN received ELSE received \o f.bytes
  \/ /\ guest.st = "reset"
     /\ guest' = IF "rst" \in f.flags THEN guest ELSE [guest EXCEPT !.st = "resetting"]
     /\ UNCHANGED received

GuestReceive ==
  /\ toGuest # <<>>
  /\ Taken(Head(toGuest))
  /\ toGuest' = Tail(toGuest)
  /\ UNCHANGED <<adapter, hostSent, mishaps>>

\* The network card has no room for the next frame.
LoseFrame ==
  /\ toGuest # <<>>
  /\ Mishap("loss")
  /\ toGuest' = Tail(toGuest)
  /\ UNCHANGED <<adapter, hostSent, guest, received>>

-----------------------------------------------------------------------------
Init ==
  /\ tcp_conn = NoConn
  /\ conn = [c \in Conn |-> NewConn]
  /\ sock = [c \in Conn |-> "none"]
  /\ hostSent = [c \in Conn |-> 0]
  /\ written = [c \in Conn |-> <<>>]
  /\ toGuest = <<>>
  /\ \E isn \in Isns :
       guest = [st |-> "closed", isn |-> isn, snd |-> 0, una |-> 0, fin |-> FALSE,
                finAlone |-> TRUE, eof |-> FALSE, ackDue |-> FALSE]
  /\ received = <<>>
  /\ mishaps = {}
  /\ crashed = FALSE

Socket(c) ==
  \/ Connected(c) \/ Refused(c) \/ HostData(c) \/ HostEnd(c)
  \/ SocketClosed(c) \/ SocketError(c)

Guest ==
  \/ GuestConnect \/ GuestRepeatSyn \/ GuestAck \/ GuestReset
  \/ \E n \in 0 .. MaxGuest : GuestRepeat(n) \/ \E fin \in BOOLEAN : GuestSend(n, fin)
  \/ GuestReceive

Next ==
  /\ ~crashed
  /\ \/ \E c \in Conn : Socket(c)
     \/ Guest
     \/ LoseFrame

Spec == Init /\ [][Next]_vars

\* A connect ends, a socket that was ended closes, and the guest takes its
\* frames, acknowledges and retransmits.  Its programs and hosts owe nothing.
FairSpec ==
  /\ Spec
  /\ \A c \in Conn : WF_vars(~crashed /\ (Connected(c) \/ Refused(c)))
  /\ \A c \in Conn : WF_vars(~crashed /\ SocketClosed(c))
  /\ WF_vars(~crashed /\ GuestReceive)
  /\ WF_vars(~crashed /\ GuestAck)
  /\ WF_vars(~crashed /\ (GuestReset /\ guest.st = "resetting"))
  /\ WF_vars(~crashed /\ (GuestRepeatSyn \/ \E n \in 0 .. MaxGuest : GuestRepeat(n)))

-----------------------------------------------------------------------------
(* Properties.                                                             *)

Segments == [flags : SUBSET {"syn", "ack", "fin", "rst", "psh"}, seq : 0 .. W - 1,
             ackn : 0 .. W - 1, bytes : Seq(Conn \X Nat)]

TypeOK ==
  /\ tcp_conn \in Conn \cup {NoConn}
  /\ conn \in [Conn -> [state : States, seq : Nat, ack : Nat, lastAck : Nat \cup {Undefined},
                        buf : Seq(Conn \X Nat), pending : BOOLEAN, active : BOOLEAN,
                        delayed : {"none", "fin-wait-1", "last-ack"}]]
  /\ sock \in [Conn -> SockStates]
  /\ hostSent \in [Conn -> 0 .. MaxHost]
  /\ written \in [Conn -> Seq(Nat)]
  /\ toGuest \in Seq(Segments)
  /\ guest \in [st : {"closed", "syn-sent", "acking", "open", "resetting", "reset"},
                isn : Isns, snd : 0 .. MaxGuest, una : Nat, fin : BOOLEAN,
                finAlone : BOOLEAN, eof : BOOLEAN, ackDue : BOOLEAN]
  /\ received \in Seq(Conn \X Nat)
  /\ mishaps \subseteq Mishaps
  /\ crashed \in BOOLEAN

\* The guest has sent one SYN.
Single == "syn" \notin mishaps

\* The guest's stream does not pass the last sequence number.
NoWrap == guest.isn + 1 + MaxGuest < W

\* The guest receives what its host sent, in order and once, and its end when
\* it has all of it and the host has ended: the FIN waits for the buffer.
HostStream ==
  Single => \A c \in Conn : sock[c] # "none" =>
    /\ Len(received) <= hostSent[c]
    /\ \A i \in 1 .. Len(received) : received[i] = <<c, i>>
    /\ guest.eof => Len(received) = hostSent[c] /\ sock[c] \notin Readable

\* A host receives the bytes of the guest in order and once, and all of them
\* before the end of the guest's stream, if no bytes came with that end and no
\* number wrapped: a FIN is taken whatever its number and its bytes.
GuestStream ==
  \A c \in Conn :
    /\ \A i \in 1 .. Len(written[c]) : written[c][i] = i
    /\ conn[c].state = "close-wait" /\ sock[c] = "shut" /\ guest.finAlone /\ Single /\ NoWrap
         => Len(written[c]) = guest.snd

\* An open socket is one the guest can reach, unless a second SYN has made
\* another: every end of a connection ends its socket.
SocketsReachable ==
  \A c \in Conn : sock[c] = "open" /\ Single => tcp_conn = c

\* Nothing follows a FIN: a connection that has sent one has an empty buffer
\* and takes no more bytes, and what the table holds is open.
FinIsLast ==
  /\ \A c \in Conn : conn[c].state \in FinStates => conn[c].buf = <<>> /\ conn[c].active
  /\ tcp_conn # NoConn =>
       conn[tcp_conn].state \in {"established", "close-wait"} \cup FinStates

\* A connect of the guest is answered or, where the host refuses it, the end
\* of the process.
ConnectEnds ==
  (guest.st = "syn-sent") ~> (guest.st # "syn-sent" \/ crashed \/ "loss" \in mishaps)

\* What a host sends arrives, unless the connection fails on either side or a
\* frame was lost: the buffer never waits for an ACK that was counted.
HostDelivered ==
  \A c \in Conn : \A n \in 1 .. MaxHost :
    (hostSent[c] >= n) ~>
      (\/ Len(received) >= n
       \/ guest.st \in {"reset", "resetting"} \/ sock[c] = "failed"
       \/ crashed \/ mishaps \cap {"loss", "syn"} # {})

\* When each end has the other's FIN, the connection is released; or, if the
\* guest's came while the adapter's was delayed, stays in FIN_WAIT_2 for good.
BothEndsClose ==
  (guest.eof /\ guest.fin) ~>
    (\/ tcp_conn = NoConn \/ crashed \/ mishaps \cap {"loss", "syn"} # {}
     \/ \E c \in Conn : /\ c = tcp_conn /\ conn[c].state = "fin-wait-2"
                       /\ guest.una = guest.snd + 1)

\* What the host sends on the socket of c, as the guest receives it.
HostClosed(c) == sock[c] \notin {"none", "connecting"} \cup Readable

HostToGuest(c) == INSTANCE ByteStream WITH
  sent <- hostSent[c],
  closed <- HostClosed(c),
  got <- [i \in 1 .. Len(received) |-> received[i][2]],
  ended <- guest.eof

\* What the guest sends, as the socket of c is given it.  Its end is left out:
\* a FIN is taken whatever its number and its bytes.
GuestToHost(c) == INSTANCE ByteStream WITH
  sent <- guest.snd,
  closed <- guest.fin,
  got <- written[c],
  ended <- FALSE
=============================================================================
