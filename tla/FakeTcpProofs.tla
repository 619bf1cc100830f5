---------------------------- MODULE FakeTcpProofs ----------------------------
(***************************************************************************)
(* Proofs about FakeTcp, for any number of connections: its types, that a  *)
(* FIN is the last thing that a connection sends, that the guest's bytes   *)
(* reach its host in order and the host's bytes the guest, each before the *)
(* end of its stream, and that an open socket is one the guest can reach.  *)
(***************************************************************************)
EXTENDS FakeTcp, SequenceTheorems, TLAPS

ConnType == [state : States, seq : Nat, ack : Nat, lastAck : Nat \cup {Undefined},
             buf : Seq(Conn \X Nat), pending : BOOLEAN, active : BOOLEAN,
             delayed : {"none", "fin-wait-1", "last-ack"}]

\* A connection that has sent its FIN, or will when its buffer is empty, is
\* closed for writing; the FIN itself is sent with an empty buffer.
GoodConn ==
  {k \in ConnType :
     /\ k.state \in FinStates => k.buf = <<>> /\ k.active
     /\ k.delayed # "none" => k.active}

Alive == {"established", "close-wait"} \cup FinStates

\* A connection in the table was accepted, so a SYN does not take its object.
TableInv == tcp_conn # NoConn => conn[tcp_conn].state \in Alive /\ sock[tcp_conn] # "none"

AdapterInv ==
  /\ tcp_conn \in Conn \cup {NoConn}
  /\ conn \in [Conn -> GoodConn]
  /\ sock \in [Conn -> SockStates]
  /\ written \in [Conn -> Seq(Nat)]
  /\ toGuest \in Seq(Segments)
  /\ crashed \in BOOLEAN
  /\ TableInv

GuestStates == {"closed", "syn-sent", "acking", "open", "resetting", "reset"}

EnvInv ==
  /\ hostSent \in [Conn -> 0 .. MaxHost]
  /\ guest \in [st : GuestStates, isn : Isns, snd : 0 .. MaxGuest, una : Nat, fin : BOOLEAN,
                finAlone : BOOLEAN, eof : BOOLEAN, ackDue : BOOLEAN]
  /\ received \in Seq(Conn \X Nat)
  /\ mishaps \subseteq Mishaps

IInv == AdapterInv /\ EnvInv

-----------------------------------------------------------------------------
(* Segments and connections.                                               *)

GuestSegments == [flags : SUBSET {"syn", "ack", "fin", "rst"}, seq : Nat, ackn : Nat,
                  bytes : Seq(Nat)]

LEMMA WireType ==
  ASSUME NEW n \in Int
  PROVE  Wire(n) \in 0 .. W - 1
BY FakeTcpAssumption DEF Wire, Seq0

\* Isns are numbers a header can hold.
LEMMA IsnType ==
  ASSUME NEW n \in Isns
  PROVE  n \in Nat
<1>1. n \in 0 .. W - 1
  BY FakeTcpAssumption
<1> QED
  BY <1>1

LEMMA SegmentType ==
  ASSUME NEW flags \in SUBSET {"syn", "ack", "fin", "rst", "psh"}, NEW seq \in Int,
         NEW ackn \in Int, NEW bytes \in Seq(Conn \X Nat)
  PROVE  Segment(flags, seq, ackn, bytes) \in Segments
BY WireType DEF Segment, Segments

LEMMA ReplyType ==
  ASSUME NEW k \in GoodConn, NEW flags \in SUBSET {"syn", "ack", "fin", "rst", "psh"}
  PROVE  <<Reply(k, flags)>> \in Seq(Segments)
<1>1. k.seq \in Int /\ k.ack \in Int
  BY DEF GoodConn, ConnType
<1>2. <<>> \in Seq(Conn \X Nat)
  OBVIOUS
<1>3. Reply(k, flags) \in Segments
  BY <1>1, <1>2, SegmentType DEF Reply
<1> QED
  BY <1>3

\* What is left of a buffer when bytes were acknowledged.
LEMMA DropType ==
  ASSUME NEW S, NEW seq \in Seq(S), NEW n \in Nat
  PROVE  Drop(seq, n) \in Seq(S) /\ (seq = <<>> => Drop(seq, n) = <<>>)
<1>1. Len(seq) \in Nat /\ \A i \in n + 1 .. Len(seq) : seq[i] \in S
  BY ElementOfSeq
<1>2. SubSeq(seq, n + 1, Len(seq)) \in Seq(S)
  BY <1>1, SubSeqProperties
<1>3. ASSUME seq = <<>> PROVE SubSeq(seq, n + 1, Len(seq)) = <<>>
  BY <1>1, <1>3, SubSeqEmpty
<1> QED
  BY <1>2, <1>3 DEF Drop

\* pump changes no more than whether a chunk is on its way.
LEMMA PumpGood ==
  ASSUME NEW k \in GoodConn
  PROVE  Pump(k) \in GoodConn /\ Pump(k).state = k.state
BY DEF Pump, GoodConn, ConnType

LEMMA PumpedType ==
  ASSUME NEW k \in GoodConn
  PROVE  Pumped(k) \in Seq(Segments)
<1>1. k.seq \in Int /\ k.ack \in Int /\ k.buf \in Seq(Conn \X Nat)
  BY DEF GoodConn, ConnType
<1> DEFINE n == IF Len(k.buf) < ChunkSize THEN Len(k.buf) ELSE ChunkSize
<1>2. n \in Nat /\ n <= Len(k.buf) /\ Len(k.buf) \in Nat
  BY <1>1, FakeTcpAssumption
<1>3. SubSeq(k.buf, 1, n) \in Seq(Conn \X Nat)
  <2>1. \A i \in 1 .. n : k.buf[i] \in Conn \X Nat
    BY <1>1, <1>2, ElementOfSeq
  <2> QED
    BY <1>2, <2>1, SubSeqProperties
<1>4. Segment({"psh", "ack"}, k.seq, k.ack, SubSeq(k.buf, 1, n)) \in Segments
  BY <1>1, <1>3, SegmentType
<1> QED
  BY <1>4 DEF Pumped

\* A connection that becomes a good one, and frames that are added.
LEMMA BecomesGood ==
  ASSUME conn \in [Conn -> GoodConn], toGuest \in Seq(Segments),
         NEW c \in Conn, NEW k \in GoodConn, NEW segments \in Seq(Segments),
         Becomes(c, k, segments) \/ Returns(c, k, segments)
  PROVE  /\ conn' \in [Conn -> GoodConn] /\ toGuest' \in Seq(Segments)
         /\ conn'[c].state = k.state
         /\ \A d \in Conn \ {c} : conn'[d] = conn[d]
<1>1. Pump(k) \in GoodConn /\ Pump(k).state = k.state /\ Pumped(k) \in Seq(Segments)
  BY PumpGood, PumpedType
<1>2. toGuest \o segments \in Seq(Segments) /\ toGuest \o segments \o Pumped(k) \in Seq(Segments)
  BY <1>1, ConcatProperties
<1>3. CASE Becomes(c, k, segments)
  BY <1>1, <1>2, <1>3 DEF Becomes
<1>4. CASE Returns(c, k, segments)
  BY <1>2, <1>4 DEF Returns
<1> QED
  BY <1>3, <1>4

\* Taking bytes of the guest changes no more than the number expected next.
LEMMA AckGrows ==
  ASSUME NEW k \in GoodConn, NEW n \in Nat
  PROVE  /\ [k EXCEPT !.ack = k.ack + n] \in GoodConn
         /\ [k EXCEPT !.ack = k.ack + n].state = k.state
<1> DEFINE m == k.ack + n
<1>1. m \in Nat
  BY DEF GoodConn, ConnType
<1> HIDE DEF m
<1>2. [k EXCEPT !.ack = m] \in GoodConn /\ [k EXCEPT !.ack = m].state = k.state
  BY <1>1 DEF GoodConn, ConnType
<1> QED
  BY <1>2 DEF m

LEMMA ReleasedGood ==
  ASSUME NEW k \in GoodConn
  PROVE  Released(k) \in GoodConn
BY DEF Released, GoodConn, ConnType, States, FinStates

\* Counting an acknowledgement keeps a connection good, and takes it no
\* further than from FIN_WAIT_1 to FIN_WAIT_2.
LEMMA AckedGood ==
  ASSUME NEW k \in GoodConn, NEW s \in GuestSegments, Counts(k, s)
  PROVE  /\ Acked(k, s) \in GoodConn
         /\ \/ Acked(k, s).state = k.state
            \/ k.state = "fin-wait-1" /\ Acked(k, s).state = "fin-wait-2"
         /\ Acked(k, s).delayed = k.delayed /\ Acked(k, s).active = k.active
         /\ NewlyAcked(k, s) \in Nat
<1> DEFINE n == NewlyAcked(k, s)
<1>1. k \in ConnType /\ s.ackn \in Nat
  BY DEF GoodConn, GuestSegments
<1>2. n \in Nat
  BY <1>1 DEF Counts, NewlyAcked, ConnType, Undefined
<1>3. Drop(k.buf, n) \in Seq(Conn \X Nat) /\ (k.buf = <<>> => Drop(k.buf, n) = <<>>)
  BY <1>1, <1>2, DropType DEF ConnType
<1>4. CASE n > 0
  <2> DEFINE st == IF k.state = "fin-wait-1" /\ "fin" \notin s.flags THEN "fin-wait-2" ELSE k.state
  <2>1. Acked(k, s) = [k EXCEPT !.state = st, !.lastAck = s.ackn, !.buf = Drop(k.buf, n),
                                !.seq = k.seq + n, !.pending = FALSE]
    BY <1>4 DEF Acked
  <2>2. k.seq + n \in Nat
    BY <1>1, <1>2 DEF ConnType
  <2>3. st \in States /\ (st \in FinStates => k.state \in FinStates)
    BY <1>1 DEF ConnType, States, FinStates
  <2> HIDE DEF n, st
  <2>4. Acked(k, s) \in GoodConn
    BY <1>1, <1>3, <2>1, <2>2, <2>3 DEF GoodConn, ConnType
  <2> QED
    BY <1>1, <1>2, <2>1, <2>4 DEF ConnType, n, st
<1>5. CASE ~(n > 0)
  <2> DEFINE st == IF k.state = "fin-wait-1" /\ "fin" \notin s.flags THEN "fin-wait-2" ELSE k.state
  <2>1. Acked(k, s) = [k EXCEPT !.state = st, !.lastAck = s.ackn]
    BY <1>5 DEF Acked
  <2>2. st \in States /\ (st \in FinStates => k.state \in FinStates)
    BY <1>1 DEF ConnType, States, FinStates
  <2> HIDE DEF n, st
  <2>3. Acked(k, s) \in GoodConn
    BY <1>1, <2>1, <2>2 DEF GoodConn, ConnType
  <2> QED
    BY <1>1, <1>2, <2>1, <2>3 DEF ConnType, n, st
<1> QED
  BY <1>4, <1>5

-----------------------------------------------------------------------------
(* The adapter.                                                            *)

\* The frame of a step in which connection c changes, by Becomes or Returns.
LEMMA ConnStep ==
  ASSUME AdapterInv, NEW c \in Conn, NEW k \in GoodConn, NEW segments \in Seq(Segments),
         Becomes(c, k, segments) \/ Returns(c, k, segments),
         sock' \in [Conn -> SockStates], \A d \in Conn : sock[d] # "none" => sock'[d] # "none",
         written' \in [Conn -> Seq(Nat)], crashed' \in BOOLEAN,
         \/ tcp_conn' = NoConn
         \/ tcp_conn' = tcp_conn /\ (c = tcp_conn => k.state \in Alive)
  PROVE  AdapterInv'
<1>1. /\ conn' \in [Conn -> GoodConn] /\ toGuest' \in Seq(Segments)
      /\ conn'[c].state = k.state
      /\ \A d \in Conn \ {c} : conn'[d] = conn[d]
  BY BecomesGood DEF AdapterInv
<1>2. TableInv'
  <2> SUFFICES ASSUME tcp_conn' # NoConn
               PROVE  conn'[tcp_conn'].state \in Alive /\ sock'[tcp_conn'] # "none"
    BY DEF TableInv
  <2>1. tcp_conn' = tcp_conn /\ tcp_conn \in Conn /\ sock[tcp_conn] # "none"
        /\ conn[tcp_conn].state \in Alive
    BY DEF AdapterInv, TableInv
  <2>2. CASE c = tcp_conn
    BY <1>1, <2>1, <2>2
  <2>3. CASE c # tcp_conn
    BY <1>1, <2>1, <2>3
  <2> QED
    BY <2>2, <2>3
<1> QED
  BY <1>1, <1>2 DEF AdapterInv

\* A socket that is ended keeps its type and does not go away.
LEMMA EndSock ==
  ASSUME NEW c \in Conn, sock \in [Conn -> SockStates],
         \/ End(c) \/ UNCHANGED sock
         \/ sock' = [sock EXCEPT ![c] = IF @ \in {"shut", "ending"} THEN "broken" ELSE @]
  PROVE  /\ sock' \in [Conn -> SockStates]
         /\ \A d \in Conn : sock[d] # "none" => sock'[d] # "none"
BY DEF End, SockStates

\* Every path through TCPConnection.process.
LEMMA ProcessInv ==
  ASSUME AdapterInv, NEW c \in Conn, c = tcp_conn, NEW s \in GuestSegments,
         Process(c, s), UNCHANGED crashed
  PROVE  AdapterInv'
<1>1. /\ conn[c] \in GoodConn /\ conn[c] \in ConnType /\ c # NoConn
      /\ conn[c].state \in Alive
      /\ sock \in [Conn -> SockStates] /\ written \in [Conn -> Seq(Nat)]
      /\ crashed' \in BOOLEAN
  BY FakeTcpAssumption DEF AdapterInv, TableInv, GoodConn
<1>2. <<>> \in Seq(Segments)
  OBVIOUS
<1>3. Released(conn[c]) \in GoodConn
  BY <1>1, ReleasedGood
<1>4. CASE ProcessReset(c, s)
  <2>1. sock' \in [Conn -> SockStates] /\ \A d \in Conn : sock[d] # "none" => sock'[d] # "none"
    BY <1>1, <1>4, EndSock DEF ProcessReset
  <2> QED
    BY <1>1, <1>2, <1>3, <1>4, <2>1, ConnStep DEF ProcessReset
<1>5. CASE ProcessLastAck(c, s)
  BY <1>1, <1>2, <1>3, <1>5, ConnStep DEF ProcessLastAck
<1>6. CASE ProcessDelayedFin(c, s)
  <2> DEFINE a == Acked(conn[c], s)
             k == [a EXCEPT !.state = conn[c].delayed, !.delayed = "none"]
  <2>1. /\ a \in GoodConn /\ a.active = conn[c].active /\ a.buf = <<>>
        /\ conn[c].delayed \in {"fin-wait-1", "last-ack"} /\ conn[c].active
    BY <1>1, <1>6, AckedGood DEF ProcessDelayedFin, FinIsDue, GoodConn, ConnType
  <2>2. k \in GoodConn /\ k.state \in Alive
    <3> HIDE DEF a
    <3> QED
      BY <2>1 DEF GoodConn, ConnType, States, FinStates, Alive
  <2>3. <<Reply(k, {"ack", "fin"})>> \in Seq(Segments)
    BY <2>2, ReplyType
  <2>4. Returns(c, k, <<Reply(k, {"ack", "fin"})>>) /\ UNCHANGED <<tcp_conn, sock, written>>
    BY <1>6 DEF ProcessDelayedFin
  <2> HIDE DEF k
  <2> QED
    BY <1>1, <2>2, <2>3, <2>4, ConnStep
<1>7. CASE ProcessUnderflow(c, s)
  <2>1. sock' \in [Conn -> SockStates] /\ \A d \in Conn : sock[d] # "none" => sock'[d] # "none"
    BY <1>1, <1>7, EndSock DEF ProcessUnderflow
  <2>2. <<Reply(conn[c], {"rst"})>> \in Seq(Segments)
    BY <1>1, ReplyType
  <2> QED
    BY <1>1, <1>3, <1>7, <2>1, <2>2, ConnStep DEF ProcessUnderflow
<1>8. CASE ProcessFin(c, s)
  <2> DEFINE a == Acked(conn[c], s)
             k == [a EXCEPT !.ack = a.ack + 1]
  <2>1. Counts(conn[c], s) /\ written' = written
    BY <1>8 DEF ProcessFin
  <2>2. a \in GoodConn /\ a.state \in States
    BY <1>1, <2>1, AckedGood DEF GoodConn, ConnType
  <2>3. k \in GoodConn /\ k.state = a.state
    <3> HIDE DEF a
    <3> QED
      BY <2>2, AckGrows
  <2>4. /\ <<Reply(k, {"ack"})>> \in Seq(Segments)
        /\ <<Reply(k, {"rst"})>> \in Seq(Segments)
    BY <2>3, ReplyType
  <2>5. CASE /\ k.state = "established"
             /\ Becomes(c, [k EXCEPT !.state = "close-wait"], <<Reply(k, {"ack"})>>)
             /\ End(c) /\ UNCHANGED tcp_conn
    <3> DEFINE m == [k EXCEPT !.state = "close-wait"]
    <3>1. m \in GoodConn /\ m.state \in Alive
      <4> HIDE DEF k
      <4> QED
        BY <2>3, <2>5 DEF GoodConn, ConnType, States, FinStates, Alive
    <3>2. sock' \in [Conn -> SockStates] /\ \A d \in Conn : sock[d] # "none" => sock'[d] # "none"
      BY <1>1, <2>5, EndSock
    <3>3. Becomes(c, m, <<Reply(k, {"ack"})>>)
      BY <2>5
    <3> HIDE DEF m, k
    <3> QED
      BY <1>1, <2>1, <2>4, <2>5, <3>1, <3>2, <3>3, ConnStep
  <2>6. CASE /\ Becomes(c, Released(k), <<Reply(k, {"ack"})>>)
             /\ tcp_conn' = NoConn /\ UNCHANGED sock
    <3> HIDE DEF k
    <3> QED
      BY <1>1, <2>1, <2>3, <2>4, <2>6, ReleasedGood, ConnStep
  <2>7. CASE /\ Becomes(c, Released(k), <<Reply(k, {"rst"})>>)
             /\ End(c) /\ tcp_conn' = NoConn
    <3>1. sock' \in [Conn -> SockStates] /\ \A d \in Conn : sock[d] # "none" => sock'[d] # "none"
      BY <1>1, <2>7, EndSock
    <3> HIDE DEF k
    <3> QED
      BY <1>1, <2>1, <2>3, <2>4, <2>7, <3>1, ReleasedGood, ConnStep
  <2> QED
    BY <1>8, <2>5, <2>6, <2>7 DEF ProcessFin
<1>9. CASE ProcessWrongSeq(c, s)
  <2> DEFINE k == Acked(conn[c], s)
  <2>1. k \in GoodConn /\ k.state \in Alive
    BY <1>1, <1>9, AckedGood DEF ProcessWrongSeq, Alive, FinStates
  <2>2. <<Reply(k, {"ack"})>> \in Seq(Segments)
    BY <2>1, ReplyType
  <2>3. Becomes(c, k, <<Reply(k, {"ack"})>>) /\ UNCHANGED <<tcp_conn, sock, written>>
    BY <1>9 DEF ProcessWrongSeq
  <2> HIDE DEF k
  <2> QED
    BY <1>1, <2>1, <2>2, <2>3, ConnStep
<1>10. CASE ProcessData(c, s)
  <2> DEFINE a == Acked(conn[c], s)
             k == [a EXCEPT !.ack = a.ack + Len(s.bytes)]
  <2>1. a \in GoodConn /\ a.state \in Alive
    BY <1>1, <1>10, AckedGood DEF ProcessData, Alive, FinStates
  <2>2. Len(s.bytes) \in Nat /\ s.bytes \in Seq(Nat)
    BY DEF GuestSegments
  <2>3. k \in GoodConn /\ k.state \in Alive
    <3> HIDE DEF a
    <3> QED
      BY <2>1, <2>2, AckGrows
  <2>4. <<Reply(k, {"ack"})>> \in Seq(Segments)
    BY <2>3, ReplyType
  <2>5. Becomes(c, k, <<Reply(k, {"ack"})>>) /\ UNCHANGED tcp_conn
    BY <1>10 DEF ProcessData
  <2>6. sock' \in [Conn -> SockStates] /\ \A d \in Conn : sock[d] # "none" => sock'[d] # "none"
    BY <1>1, <1>10, EndSock DEF ProcessData
  <2>7. written' \in [Conn -> Seq(Nat)]
    <3>1. written[c] \o s.bytes \in Seq(Nat)
      BY <1>1, <2>2, ConcatProperties
    <3> QED
      BY <1>1, <1>10, <3>1 DEF ProcessData
  <2> HIDE DEF k
  <2> QED
    BY <1>1, <2>3, <2>4, <2>5, <2>6, <2>7, ConnStep
<1>11. CASE ProcessAck(c, s)
  <2> DEFINE k == Acked(conn[c], s)
  <2>1. k \in GoodConn /\ k.state \in Alive
    BY <1>1, <1>11, AckedGood DEF ProcessAck, Alive, FinStates
  <2>2. Becomes(c, k, <<>>) /\ UNCHANGED <<tcp_conn, sock, written>>
    BY <1>11 DEF ProcessAck
  <2> HIDE DEF k
  <2> QED
    BY <1>1, <1>2, <2>1, <2>2, ConnStep
<1> QED
  BY <1>4, <1>5, <1>6, <1>7, <1>8, <1>9, <1>10, <1>11 DEF Process

\* A segment of the guest, whatever becomes of it.
LEMMA DeliverInv ==
  ASSUME AdapterInv, NEW s \in GuestSegments, Deliver(s)
  PROVE  AdapterInv'
<1>1. UNCHANGED crashed
  BY DEF Deliver
<1>2. ASSUME NEW c \in Conn, sock[c] = "none", "syn" \in s.flags,
             conn' = [conn EXCEPT ![c] = [NewConn EXCEPT !.state = "syn-received"]],
             sock' = [sock EXCEPT ![c] = "connecting"],
             UNCHANGED <<tcp_conn, written, toGuest>>
      PROVE  AdapterInv'
  <2>1. [NewConn EXCEPT !.state = "syn-received"] \in GoodConn
    <3>1. <<>> \in Seq(Conn \X Nat)
      OBVIOUS
    <3> QED
      BY <3>1 DEF NewConn, GoodConn, ConnType, States, FinStates, Undefined
  <2>2. tcp_conn # c
    BY <1>2, FakeTcpAssumption DEF AdapterInv, TableInv
  <2>3. conn' \in [Conn -> GoodConn] /\ sock' \in [Conn -> SockStates]
    BY <1>2, <2>1 DEF AdapterInv, SockStates
  <2>4. TableInv'
    BY <1>2, <2>2 DEF AdapterInv, TableInv
  <2> QED
    BY <1>1, <1>2, <2>3, <2>4 DEF AdapterInv
<1>3. CASE OpenConnection(s)
  BY <1>2, <1>3 DEF OpenConnection
<1>4. CASE ResetUnknown(s)
  <2> DEFINE f == Segment({"rst"}, IF "fin" \in s.flags THEN s.ackn + 1 ELSE s.ackn, s.seq, <<>>)
  <2>1. /\ s.ackn \in Int /\ s.ackn + 1 \in Int /\ s.seq \in Int
        /\ <<>> \in Seq(Conn \X Nat)
    BY DEF GuestSegments
  <2>2. f \in Segments
    <3>1. CASE "fin" \in s.flags
      BY <2>1, <3>1, SegmentType
    <3>2. CASE "fin" \notin s.flags
      BY <2>1, <3>2, SegmentType
    <3> QED
      BY <3>1, <3>2
  <2>3. toGuest' = Append(toGuest, f) /\ UNCHANGED <<tcp_conn, conn, sock, written>>
    BY <1>4 DEF ResetUnknown
  <2> HIDE DEF f
  <2>4. toGuest' \in Seq(Segments)
    BY <2>2, <2>3 DEF AdapterInv
  <2> QED
    BY <1>1, <2>3, <2>4 DEF AdapterInv, TableInv
<1>5. ASSUME NEW c \in Conn, c = tcp_conn, Process(c, s)
      PROVE  AdapterInv'
  BY <1>1, <1>5, ProcessInv
<1> QED
  BY <1>3, <1>4, <1>5 DEF Deliver

-----------------------------------------------------------------------------
(* Events of the socket of a connection.                                   *)

\* TCPConnection.close, whatever the socket does meanwhile.
LEMMA CloseInv ==
  ASSUME AdapterInv, NEW c \in Conn, Close(c), UNCHANGED <<written, crashed>>,
         sock' \in [Conn -> SockStates], \A d \in Conn : sock[d] # "none" => sock'[d] # "none"
  PROVE  AdapterInv'
<1> DEFINE k == [conn[c] EXCEPT !.active = TRUE]
           next == IF k.state = "established" THEN "fin-wait-1" ELSE "last-ack"
<1>1. /\ conn[c] \in GoodConn /\ conn[c] \in ConnType
      /\ c = tcp_conn => conn[c].state \in Alive
      /\ written' \in [Conn -> Seq(Nat)] /\ crashed' \in BOOLEAN
  BY FakeTcpAssumption DEF AdapterInv, TableInv, GoodConn
<1>2. k \in GoodConn /\ k.state = conn[c].state /\ k.active
  BY <1>1 DEF GoodConn, ConnType
<1>3. <<>> \in Seq(Segments)
  OBVIOUS
<1>4. next \in {"fin-wait-1", "last-ack"}
  OBVIOUS
<1>5. CASE Becomes(c, k, <<>>) /\ UNCHANGED tcp_conn
  <2> HIDE DEF k
  <2> QED
    BY <1>1, <1>2, <1>3, <1>5, ConnStep
<1>6. CASE Becomes(c, [k EXCEPT !.delayed = next], <<>>) /\ UNCHANGED tcp_conn
  <2> HIDE DEF k, next
  <2>1. [k EXCEPT !.delayed = next] \in GoodConn /\ [k EXCEPT !.delayed = next].state = k.state
    BY <1>2, <1>4 DEF GoodConn, ConnType
  <2> QED
    BY <1>1, <1>2, <1>3, <1>6, <2>1, ConnStep
<1>7. CASE /\ k.buf = <<>> /\ UNCHANGED tcp_conn
           /\ Becomes(c, [k EXCEPT !.state = next], <<Reply(k, {"ack", "fin"})>>)
  <2>1. <<Reply(k, {"ack", "fin"})>> \in Seq(Segments)
    BY <1>2, ReplyType
  <2> HIDE DEF k, next
  <2>2. [k EXCEPT !.state = next] \in GoodConn /\ [k EXCEPT !.state = next].state \in Alive
    BY <1>2, <1>4, <1>7 DEF GoodConn, ConnType, States, FinStates, Alive
  <2> QED
    BY <1>1, <1>7, <2>1, <2>2, ConnStep
<1>8. CASE Returns(c, k, <<>>) /\ tcp_conn' = NoConn
  <2> HIDE DEF k
  <2> QED
    BY <1>1, <1>2, <1>3, <1>8, ConnStep
<1> QED
  BY <1>5, <1>6, <1>7, <1>8 DEF Close

LEMMA ConnectedInv ==
  ASSUME AdapterInv, NEW c \in Conn, Connected(c), guest.isn \in Nat
  PROVE  AdapterInv'
<1> DEFINE ack == guest.isn + 1
           k == [conn[c] EXCEPT !.state = "established", !.seq = Seq0, !.ack = ack]
           f == Segment({"syn", "ack"}, Seq0 - 1, ack, <<>>)
<1>1. conn[c] \in GoodConn /\ ack \in Nat /\ Seq0 \in Nat
  BY DEF AdapterInv, Seq0
<1>2. f \in Segments
  <2>1. Seq0 - 1 \in Int /\ ack \in Int /\ <<>> \in Seq(Conn \X Nat)
    BY <1>1
  <2> HIDE DEF ack
  <2> QED
    BY <2>1, SegmentType
<1>3. k \in GoodConn /\ k.state = "established"
  <2> HIDE DEF ack
  <2> QED
    BY <1>1 DEF GoodConn, ConnType, States, FinStates
<1>4. /\ conn' = [conn EXCEPT ![c] = k] /\ sock' = [sock EXCEPT ![c] = "open"]
      /\ toGuest' = Append(toGuest, f) /\ tcp_conn' = c
      /\ UNCHANGED <<written, crashed>>
  BY DEF Connected
<1> HIDE DEF k, f
<1>5. /\ conn' \in [Conn -> GoodConn] /\ sock' \in [Conn -> SockStates]
      /\ conn'[c].state = "established" /\ sock'[c] = "open"
  BY <1>3, <1>4 DEF AdapterInv, SockStates
<1>6. toGuest' \in Seq(Segments)
  BY <1>2, <1>4 DEF AdapterInv
<1>7. TableInv'
  BY <1>4, <1>5 DEF TableInv, Alive
<1> QED
  BY <1>4, <1>5, <1>6, <1>7 DEF AdapterInv

LEMMA HostDataInv ==
  ASSUME AdapterInv, EnvInv, NEW c \in Conn, HostData(c)
  PROVE  AdapterInv' /\ hostSent' \in [Conn -> 0 .. MaxHost]
<1> DEFINE byte == <<c, hostSent'[c]>>
           k == IF conn[c].active THEN conn[c]
                ELSE [conn[c] EXCEPT !.buf = Append(conn[c].buf, byte)]
<1>1. hostSent' \in [Conn -> 0 .. MaxHost]
  BY FakeTcpAssumption DEF HostData, EnvInv
<1>2. conn[c] \in GoodConn /\ conn[c].buf \in Seq(Conn \X Nat) /\ byte \in Conn \X Nat
  BY <1>1, FakeTcpAssumption DEF AdapterInv, GoodConn, ConnType
<1>3. Append(conn[c].buf, byte) \in Seq(Conn \X Nat)
  BY <1>2
<1>4. k \in GoodConn /\ k.state = conn[c].state
  <2> HIDE DEF byte
  <2> QED
    BY <1>2, <1>3 DEF GoodConn, ConnType
<1>5. Becomes(c, k, <<>>) /\ UNCHANGED <<tcp_conn, sock, written, crashed>>
  BY DEF HostData
<1>6. /\ <<>> \in Seq(Segments) /\ sock' \in [Conn -> SockStates]
      /\ \A d \in Conn : sock[d] # "none" => sock'[d] # "none"
      /\ written' \in [Conn -> Seq(Nat)] /\ crashed' \in BOOLEAN
      /\ c = tcp_conn => conn[c].state \in Alive
  BY <1>5, FakeTcpAssumption DEF AdapterInv, TableInv
<1> HIDE DEF k
<1> QED
  BY <1>1, <1>4, <1>5, <1>6, ConnStep

\* Every event of a socket.
LEMMA SocketInv ==
  ASSUME AdapterInv, EnvInv, NEW c \in Conn, Socket(c)
  PROVE  AdapterInv'
<1>1. guest.isn \in Nat
  <2>1. guest.isn \in Isns
    BY DEF EnvInv
  <2> QED
    BY <2>1, IsnType
<1>2. conn[c] \in GoodConn /\ Released(conn[c]) \in GoodConn
  BY ReleasedGood DEF AdapterInv
<1>3. ASSUME NEW st \in SockStates \ {"none"}, sock' = [sock EXCEPT ![c] = st]
      PROVE  /\ sock' \in [Conn -> SockStates]
             /\ \A d \in Conn : sock[d] # "none" => sock'[d] # "none"
  BY <1>3 DEF AdapterInv
<1>4. CASE Connected(c)
  BY <1>1, <1>4, ConnectedInv
<1>5. CASE Refused(c)
  <2>1. /\ conn' \in [Conn -> GoodConn] /\ sock' \in [Conn -> SockStates]
        /\ crashed' \in BOOLEAN /\ tcp_conn' = NoConn
        /\ UNCHANGED <<written, toGuest>>
    BY <1>2, <1>5 DEF Refused, AdapterInv, SockStates
  <2> QED
    BY <2>1 DEF AdapterInv, TableInv
<1>6. CASE HostData(c)
  BY <1>6, HostDataInv
<1>7. CASE HostEnd(c)
  <2>1. sock' = [sock EXCEPT ![c] = "ending"] /\ "ending" \in SockStates \ {"none"}
    BY <1>7 DEF HostEnd, SockStates
  <2> QED
    BY <1>3, <1>7, <2>1, CloseInv DEF HostEnd
<1>8. CASE SocketClosed(c)
  <2>1. sock' = [sock EXCEPT ![c] = "closed"] /\ "closed" \in SockStates \ {"none"}
    BY <1>8 DEF SocketClosed, SockStates
  <2>2. ASSUME UNCHANGED <<tcp_conn, conn, toGuest>>
        PROVE  AdapterInv'
    BY <1>3, <1>8, <2>1, <2>2 DEF SocketClosed, AdapterInv, TableInv
  <2>3. ASSUME Close(c)
        PROVE  AdapterInv'
    BY <1>3, <1>8, <2>1, <2>3, CloseInv DEF SocketClosed
  <2> QED
    BY <1>8, <2>2, <2>3 DEF SocketClosed
<1>9. CASE SocketError(c)
  <2>1. sock' = [sock EXCEPT ![c] = "failed"] /\ "failed" \in SockStates \ {"none"}
    BY <1>9 DEF SocketError, SockStates
  <2>2. ASSUME UNCHANGED <<tcp_conn, conn, toGuest>>
        PROVE  AdapterInv'
    BY <1>3, <1>9, <2>1, <2>2 DEF SocketError, AdapterInv, TableInv
  <2>3. ASSUME Close(c)
        PROVE  AdapterInv'
    BY <1>3, <1>9, <2>1, <2>3, CloseInv DEF SocketError
  <2>4. ASSUME Returns(c, Released(conn[c]), <<>>), tcp_conn' = NoConn
        PROVE  AdapterInv'
    <3>1. <<>> \in Seq(Segments)
      OBVIOUS
    <3>2. /\ UNCHANGED <<written, crashed>>
          /\ written' \in [Conn -> Seq(Nat)] /\ crashed' \in BOOLEAN
      BY <1>9 DEF SocketError, AdapterInv
    <3> QED
      BY <1>2, <1>3, <2>1, <2>4, <3>1, <3>2, ConnStep
  <2> QED
    BY <1>9, <2>2, <2>3, <2>4 DEF SocketError
<1> QED
  BY <1>4, <1>5, <1>6, <1>7, <1>8, <1>9 DEF Socket

LEMMA SocketEnv ==
  ASSUME AdapterInv, EnvInv, NEW c \in Conn, Socket(c)
  PROVE  EnvInv'
<1>1. /\ UNCHANGED <<guest, received>>
      /\ UNCHANGED hostSent \/ HostData(c)
      /\ UNCHANGED mishaps \/ Mishap("error")
  BY DEF Socket, Connected, Refused, HostData, HostEnd, SocketClosed, SocketError
<1>2. hostSent' \in [Conn -> 0 .. MaxHost]
  BY <1>1, HostDataInv DEF EnvInv
<1>3. mishaps' \subseteq Mishaps
  BY <1>1 DEF Mishap, Mishaps, EnvInv
<1> QED
  BY <1>1, <1>2, <1>3 DEF EnvInv

-----------------------------------------------------------------------------
(* The guest.                                                              *)

GuestType == [st : GuestStates, isn : Isns, snd : 0 .. MaxGuest, una : Nat, fin : BOOLEAN,
              finAlone : BOOLEAN, eof : BOOLEAN, ackDue : BOOLEAN]

LEMMA GuestNumbers ==
  ASSUME EnvInv
  PROVE  /\ guest \in GuestType /\ guest.isn \in Nat /\ guest.snd \in Nat /\ guest.una \in Nat
         /\ \A b \in BOOLEAN : One(b) \in Nat
         /\ RcvNxt \in Nat
<1>1. guest \in GuestType /\ received \in Seq(Conn \X Nat)
  BY DEF EnvInv, GuestType
<1>2. guest.isn \in Isns /\ guest.snd \in 0 .. MaxGuest /\ guest.una \in Nat
      /\ guest.eof \in BOOLEAN
  BY <1>1 DEF GuestType
<1>3. guest.isn \in Nat
  BY <1>2, IsnType
<1>4. guest.snd \in Nat
  BY <1>2, FakeTcpAssumption
<1>5. \A b \in BOOLEAN : One(b) \in Nat
  BY DEF One
<1>6. RcvNxt \in Nat
  <2>1. Len(received) \in Nat /\ One(guest.eof) \in Nat
    BY <1>1, <1>2, <1>5
  <2> QED
    BY <2>1 DEF RcvNxt, Seq0
<1> QED
  BY <1>1, <1>2, <1>3, <1>4, <1>5, <1>6

LEMMA WireNat ==
  ASSUME NEW n \in Int
  PROVE  Wire(n) \in Nat
<1>1. Wire(n) \in 0 .. W - 1
  BY WireType
<1> QED
  BY <1>1, FakeTcpAssumption

LEMMA GuestSegmentType ==
  ASSUME EnvInv, NEW from \in Nat, NEW n \in Nat, NEW fin \in BOOLEAN
  PROVE  GuestSegment(from, n, fin) \in GuestSegments
<1> DEFINE bytes == [i \in 1 .. n |-> from + i]
           flags == {"ack"} \cup (IF fin THEN {"fin"} ELSE {})
           seq == guest.isn + 1 + from
<1>1. seq \in Int /\ RcvNxt \in Int
  BY GuestNumbers
<1>2. Wire(seq) \in Nat /\ Wire(RcvNxt) \in Nat
  <2> HIDE DEF seq
  <2> QED
    BY <1>1, WireNat
<1>3. bytes \in Seq(Nat)
  <2>1. bytes \in [1 .. n -> Nat]
    OBVIOUS
  <2> QED
    BY <2>1, SeqDef
<1>4. flags \in SUBSET {"syn", "ack", "fin", "rst"}
  OBVIOUS
<1>5. GuestSegment(from, n, fin) =
        [flags |-> flags, seq |-> Wire(seq), ackn |-> Wire(RcvNxt), bytes |-> bytes]
  BY DEF GuestSegment, Segment
<1> HIDE DEF bytes, flags, seq
<1> QED
  BY <1>2, <1>3, <1>4, <1>5 DEF GuestSegments

\* A segment without bytes: a SYN or a RST.
LEMMA BareSegmentType ==
  ASSUME NEW flags \in SUBSET {"syn", "ack", "fin", "rst"}, NEW seq \in Int
  PROVE  Segment(flags, seq, 0, <<>>) \in GuestSegments
<1>1. Wire(seq) \in Nat /\ Wire(0) \in Nat
  BY WireNat
<1>2. <<>> \in Seq(Nat)
  OBVIOUS
<1> QED
  BY <1>1, <1>2 DEF Segment, GuestSegments

GuestSends ==
  \/ GuestConnect \/ GuestRepeatSyn \/ GuestAck \/ GuestReset
  \/ \E n \in 0 .. MaxGuest : GuestRepeat(n) \/ \E fin \in BOOLEAN : GuestSend(n, fin)

\* What the guest sends is a segment, so that the adapter stays as it must.
LEMMA GuestSendsInv ==
  ASSUME AdapterInv, EnvInv, GuestSends
  PROVE  AdapterInv'
<1>1. /\ guest.isn \in Nat /\ guest.snd \in Nat /\ guest.una \in Nat /\ guest.fin \in BOOLEAN
      /\ \A b \in BOOLEAN : One(b) \in Nat
  BY GuestNumbers DEF GuestType
<1>2. CASE GuestConnect \/ GuestRepeatSyn
  <2>1. Segment({"syn"}, guest.isn, 0, <<>>) \in GuestSegments
    BY <1>1, BareSegmentType
  <2>2. Deliver(Segment({"syn"}, guest.isn, 0, <<>>))
    BY <1>2 DEF GuestConnect, GuestRepeatSyn
  <2> QED
    BY <2>1, <2>2, DeliverInv
<1>3. CASE GuestAck
  <2> DEFINE from == guest.snd + One(guest.fin)
  <2>1. from \in Nat
    BY <1>1
  <2>2. Deliver(GuestSegment(from, 0, FALSE))
    BY <1>3 DEF GuestAck
  <2> HIDE DEF from
  <2>3. GuestSegment(from, 0, FALSE) \in GuestSegments
    BY <2>1, GuestSegmentType
  <2> QED
    BY <2>2, <2>3, DeliverInv
<1>4. CASE GuestReset
  <2> DEFINE seq == guest.isn + 1 + guest.snd
  <2>1. seq \in Int
    BY <1>1
  <2>2. Deliver(Segment({"rst"}, seq, 0, <<>>))
    BY <1>4 DEF GuestReset
  <2> HIDE DEF seq
  <2>3. Segment({"rst"}, seq, 0, <<>>) \in GuestSegments
    BY <2>1, BareSegmentType
  <2> QED
    BY <2>2, <2>3, DeliverInv
<1>5. ASSUME NEW n \in 0 .. MaxGuest, GuestRepeat(n)
      PROVE  AdapterInv'
  <2> DEFINE from == IF guest.una > guest.snd THEN guest.snd ELSE guest.una
             fin == guest.fin /\ guest.una + n >= guest.snd
  <2>1. from \in Nat /\ n \in Nat /\ fin \in BOOLEAN
    BY <1>1, FakeTcpAssumption
  <2>2. Deliver(GuestSegment(from, n, fin))
    BY <1>5 DEF GuestRepeat
  <2> HIDE DEF from, fin
  <2>3. GuestSegment(from, n, fin) \in GuestSegments
    BY <2>1, GuestSegmentType
  <2> QED
    BY <2>2, <2>3, DeliverInv
<1>6. ASSUME NEW n \in 0 .. MaxGuest, NEW fin \in BOOLEAN, GuestSend(n, fin)
      PROVE  AdapterInv'
  <2>1. n \in Nat
    BY FakeTcpAssumption
  <2>2. GuestSegment(guest.snd, n, fin) \in GuestSegments
    BY <1>1, <2>1, GuestSegmentType
  <2>3. Deliver(GuestSegment(guest.snd, n, fin))
    BY <1>6 DEF GuestSend
  <2> QED
    BY <2>2, <2>3, DeliverInv
<1> QED
  BY <1>2, <1>3, <1>4, <1>5, <1>6 DEF GuestSends

LEMMA MishapType ==
  ASSUME mishaps \subseteq Mishaps, NEW kind \in Mishaps, Mishap(kind) \/ UNCHANGED mishaps
  PROVE  mishaps' \subseteq Mishaps
<1>1. CASE Mishap(kind)
  BY <1>1 DEF Mishap
<1> QED
  BY <1>1

LEMMA GuestSendsEnv ==
  ASSUME EnvInv, GuestSends
  PROVE  EnvInv'
<1>1. guest \in GuestType /\ guest.snd \in Nat
  BY GuestNumbers
<1>2. /\ UNCHANGED <<hostSent, received>>
      /\ UNCHANGED mishaps \/ Mishap("syn") \/ Mishap("reset")
  BY DEF GuestSends, GuestConnect, GuestRepeatSyn, GuestAck, GuestReset, GuestRepeat,
         GuestSend, GuestUnchanged
<1>3. mishaps' \subseteq Mishaps
  BY <1>2, MishapType DEF EnvInv, Mishaps
<1>4. guest' \in GuestType
  <2>1. CASE GuestConnect
    BY <1>1, <2>1 DEF GuestConnect, GuestType, GuestStates
  <2>2. CASE GuestRepeatSyn
    BY <1>1, <2>2 DEF GuestRepeatSyn
  <2>3. CASE GuestAck
    BY <1>1, <2>3 DEF GuestAck, GuestType, GuestStates
  <2>4. CASE GuestReset
    BY <1>1, <2>4 DEF GuestReset, GuestType, GuestStates
  <2>5. ASSUME NEW n \in 0 .. MaxGuest, GuestRepeat(n)
        PROVE  guest' \in GuestType
    BY <1>1, <2>5 DEF GuestRepeat, GuestType
  <2>6. ASSUME NEW n \in 0 .. MaxGuest, NEW fin \in BOOLEAN, GuestSend(n, fin)
        PROVE  guest' \in GuestType
    <3> DEFINE m == guest.snd + n
               alone == n = 0
    <3>1. m \in 0 .. MaxGuest /\ alone \in BOOLEAN
      BY <1>1, <2>6, FakeTcpAssumption DEF GuestSend
    <3>2. guest' = [guest EXCEPT !.snd = m, !.fin = fin, !.finAlone = alone, !.ackDue = FALSE]
      BY <2>6 DEF GuestSend
    <3> HIDE DEF m, alone
    <3> QED
      BY <1>1, <3>1, <3>2 DEF GuestType
  <2> QED
    BY <2>1, <2>2, <2>3, <2>4, <2>5, <2>6 DEF GuestSends
<1> QED
  BY <1>2, <1>3, <1>4 DEF EnvInv, GuestType

LEMMA AckedByType ==
  ASSUME EnvInv, NEW f \in Segments
  PROVE  AckedBy(f) \in Nat
<1> DEFINE d == f.ackn - guest.isn - 1
           n == d % W
<1>1. guest.isn \in Nat /\ guest.una \in Nat
  BY GuestNumbers
<1>2. f.ackn \in Int
  BY FakeTcpAssumption DEF Segments
<1>3. d \in Int
  BY <1>1, <1>2
<1>4. n \in Nat
  <2> HIDE DEF d
  <2> QED
    BY <1>3, WireNat DEF Wire
<1>5. AckedBy(f) = n \/ AckedBy(f) = guest.una
  BY DEF AckedBy
<1> HIDE DEF n
<1> QED
  BY <1>1, <1>4, <1>5

LEMMA GuestReceiveInv ==
  ASSUME AdapterInv, EnvInv, GuestReceive
  PROVE  AdapterInv' /\ EnvInv'
<1> DEFINE f == Head(toGuest)
           acked == AckedBy(f)
<1>1. f \in Segments /\ toGuest' \in Seq(Segments)
  <2>1. toGuest \in Seq(Segments) /\ toGuest # <<>> /\ toGuest' = Tail(toGuest)
    BY DEF AdapterInv, GuestReceive
  <2> QED
    BY <2>1, HeadTailProperties
<1>2. AdapterInv'
  BY <1>1 DEF GuestReceive, AdapterInv, TableInv, adapter
<1>3. guest \in GuestType /\ acked \in Nat
  BY <1>1, GuestNumbers, AckedByType
<1>4. f.bytes \in Seq(Conn \X Nat)
  BY <1>1 DEF Segments
<1>5. Taken(f) /\ UNCHANGED <<hostSent, mishaps>>
  BY DEF GuestReceive
<1>6. received' \in Seq(Conn \X Nat)
  <2>1. received \in Seq(Conn \X Nat) /\ received \o f.bytes \in Seq(Conn \X Nat)
    BY <1>4, ConcatProperties DEF EnvInv
  <2>2. received' = received \/ received' = received \o f.bytes
    BY <1>5 DEF Taken
  <2> HIDE DEF f
  <2> QED
    BY <2>1, <2>2
<1>7. guest' \in GuestType
  <2> HIDE DEF f
  <2>1. ASSUME NEW st \in GuestStates, NEW due \in BOOLEAN
        PROVE  /\ [guest EXCEPT !.st = st] \in GuestType
               /\ [guest EXCEPT !.st = st, !.ackDue = due] \in GuestType
               /\ [guest EXCEPT !.ackDue = due] \in GuestType
    BY <1>3 DEF GuestType
  <2>2. ASSUME NEW eof \in BOOLEAN, NEW due \in BOOLEAN, NEW una \in Nat
        PROVE  /\ [guest EXCEPT !.una = una, !.eof = eof, !.ackDue = due] \in GuestType
               /\ [guest EXCEPT !.ackDue = due, !.una = una] \in GuestType
    BY <1>3 DEF GuestType
  <2>3. \/ guest' = guest
        \/ guest' = [guest EXCEPT !.st = "acking"]
        \/ guest' = [guest EXCEPT !.st = "resetting"]
        \/ guest' = [guest EXCEPT !.st = "reset", !.ackDue = FALSE]
        \/ guest' = [guest EXCEPT !.ackDue = TRUE]
        \/ guest' = [guest EXCEPT !.ackDue = TRUE, !.una = acked]
        \/ \E eof, due \in BOOLEAN :
             guest' = [guest EXCEPT !.una = acked, !.eof = eof, !.ackDue = due]
    <3>1. guest.eof \in BOOLEAN /\ guest.ackDue \in BOOLEAN
      BY <1>3 DEF GuestType
    <3>2. CASE guest' = [guest EXCEPT !.una = acked, !.eof = guest.eof \/ "fin" \in f.flags,
                                      !.ackDue = guest.ackDue \/ f.bytes # <<>> \/ "fin" \in f.flags]
      <4> DEFINE eof == guest.eof \/ "fin" \in f.flags
                 due == guest.ackDue \/ f.bytes # <<>> \/ "fin" \in f.flags
      <4>1. eof \in BOOLEAN /\ due \in BOOLEAN
        BY <3>1
      <4>2. guest' = [guest EXCEPT !.una = acked, !.eof = eof, !.ackDue = due]
        BY <3>2
      <4> HIDE DEF eof, due
      <4> QED
        BY <4>1, <4>2
    <3> QED
      BY <1>5, <3>2 DEF Taken
  <2> HIDE DEF acked
  <2>4. /\ "acking" \in GuestStates /\ "resetting" \in GuestStates
        /\ "reset" \in GuestStates /\ TRUE \in BOOLEAN /\ FALSE \in BOOLEAN
    BY DEF GuestStates
  <2>5. CASE \E eof, due \in BOOLEAN :
               guest' = [guest EXCEPT !.una = acked, !.eof = eof, !.ackDue = due]
    <3>1. PICK eof \in BOOLEAN, due \in BOOLEAN :
            guest' = [guest EXCEPT !.una = acked, !.eof = eof, !.ackDue = due]
      BY <2>5
    <3>2. [guest EXCEPT !.una = acked, !.eof = eof, !.ackDue = due] \in GuestType
      BY <1>3, <2>2
    <3> QED
      BY <3>1, <3>2
  <2>6. CASE guest' = [guest EXCEPT !.ackDue = TRUE, !.una = acked]
    BY <1>3, <2>2, <2>4, <2>6
  <2>7. CASE guest' = [guest EXCEPT !.st = "reset", !.ackDue = FALSE]
    BY <2>1, <2>4, <2>7
  <2> QED
    BY <1>3, <2>1, <2>3, <2>4, <2>5, <2>6, <2>7
<1> QED
  BY <1>2, <1>5, <1>6, <1>7 DEF EnvInv, GuestType

-----------------------------------------------------------------------------
(* The specification.                                                      *)

LEMMA InitInv ==
  ASSUME Init
  PROVE  AdapterInv /\ EnvInv
<1>1. <<>> \in Seq(Conn \X Nat) /\ <<>> \in Seq(Nat) /\ <<>> \in Seq(Segments)
  OBVIOUS
<1>2. NewConn \in GoodConn
  BY <1>1 DEF NewConn, GoodConn, ConnType, States, FinStates, Undefined
<1>3. AdapterInv
  BY <1>1, <1>2 DEF Init, AdapterInv, TableInv, SockStates
<1>4. 0 \in 0 .. MaxHost /\ 0 \in 0 .. MaxGuest
  BY FakeTcpAssumption
<1>5. EnvInv
  BY <1>1, <1>4 DEF Init, EnvInv, GuestStates
<1> QED
  BY <1>3, <1>5

\* A step of any kind keeps the invariant.
LEMMA NextInv ==
  ASSUME IInv, [Next]_vars
  PROVE  IInv'
<1>1. AdapterInv /\ EnvInv
  BY DEF IInv
<1>2. ASSUME NEW c \in Conn, Socket(c)
      PROVE  IInv'
  BY <1>1, <1>2, SocketInv, SocketEnv DEF IInv
<1>3. CASE GuestSends
  BY <1>1, <1>3, GuestSendsInv, GuestSendsEnv DEF IInv
<1>4. CASE GuestReceive
  BY <1>1, <1>4, GuestReceiveInv DEF IInv
<1>5. CASE LoseFrame
  <2>1. toGuest \in Seq(Segments) /\ toGuest # <<>> /\ toGuest' = Tail(toGuest)
        /\ mishaps \subseteq Mishaps
    BY <1>1, <1>5 DEF AdapterInv, EnvInv, LoseFrame
  <2>2. toGuest' \in Seq(Segments)
    BY <2>1, HeadTailProperties
  <2>3. mishaps' \subseteq Mishaps
    BY <1>5, <2>1, MishapType DEF LoseFrame, Mishaps
  <2>4. AdapterInv'
    BY <1>1, <1>5, <2>2 DEF LoseFrame, AdapterInv, TableInv, adapter
  <2>5. EnvInv'
    BY <1>1, <1>5, <2>3 DEF LoseFrame, EnvInv
  <2> QED
    BY <2>4, <2>5 DEF IInv
<1>6. CASE UNCHANGED vars
  <2>1. AdapterInv'
    BY <1>1, <1>6 DEF vars, adapter, AdapterInv, TableInv
  <2>2. EnvInv'
    BY <1>1, <1>6 DEF vars, EnvInv
  <2> QED
    BY <2>1, <2>2 DEF IInv
<1> QED
  BY <1>2, <1>3, <1>4, <1>5, <1>6 DEF Next, Guest, GuestSends

\* The types of the adapter, its connections, its sockets and the frames on
\* the wire hold after every event, for any number of connections.
THEOREM FakeTcpTypeCorrect == Spec => []TypeOK
<1>1. Init => IInv
  BY InitInv DEF IInv
<1>2. IInv /\ [Next]_vars => IInv'
  BY NextInv
<1>3. IInv => TypeOK
  <2> SUFFICES ASSUME IInv PROVE TypeOK
    OBVIOUS
  <2>1. GoodConn \subseteq ConnType
    BY DEF GoodConn
  <2>2. conn \in [Conn -> ConnType]
    BY <2>1 DEF IInv, AdapterInv
  <2> QED
    BY <2>2 DEF IInv, AdapterInv, EnvInv, TypeOK, ConnType, GuestStates
<1> QED
  BY <1>1, <1>2, <1>3, PTL DEF Spec

\* A FIN is the last thing a connection sends: once its FIN is out its buffer
\* is empty and closed for writing, for any number of connections, and the
\* table never holds a connection that was released.
THEOREM FinAlwaysLast == Spec => []FinIsLast
<1>1. Init => IInv
  BY InitInv DEF IInv
<1>2. IInv /\ [Next]_vars => IInv'
  BY NextInv
<1>3. IInv => FinIsLast
  <2> SUFFICES ASSUME IInv PROVE FinIsLast
    OBVIOUS
  <2>1. \A c \in Conn : conn[c] \in GoodConn
    BY DEF IInv, AdapterInv
  <2>2. \A c \in Conn : conn[c].state \in FinStates => conn[c].buf = <<>> /\ conn[c].active
    BY <2>1 DEF GoodConn
  <2> QED
    BY <2>2 DEF IInv, AdapterInv, TableInv, Alive, FinIsLast
<1> QED
  BY <1>1, <1>2, <1>3, PTL DEF Spec

-----------------------------------------------------------------------------
(* The guest's bytes on their way to the sockets.                          *)

\* A socket that has not connected has carried nothing, an open one has been
\* given the bytes that are acknowledged, and a connection is closed for
\* writing only when its socket is not read any more.
OpenInv ==
  \A c \in Conn :
    /\ sock[c] \in {"none", "connecting"} =>
         written[c] = <<>> /\ hostSent[c] = 0 /\ ~conn[c].active
    /\ sock[c] = "open" => conn[c].ack = guest.isn + 1 + Len(written[c])
    /\ conn[c].active => sock[c] \notin Readable

\* What process leaves of a connection whose socket may still be read.
Settled(c, s) ==
  /\ conn'[c].active = conn[c].active
  /\ \/ sock'[c] = sock[c]
     \/ sock[c] = "open" /\ sock'[c] = "shut"
     \/ sock[c] \in {"shut", "ending"} /\ sock'[c] = "broken"
  /\ written'[c] # written[c] => sock[c] = "open" /\ sock'[c] = "open"
  /\ sock'[c] = "open" /\ ~conn[c].active =>
       /\ "ack" \in s.flags /\ "fin" \notin s.flags /\ tcp_conn' = c
       /\ conn'[c].state = conn[c].state
       /\ \/ /\ written'[c] = written[c] \o s.bytes /\ conn[c].ack = s.seq
             /\ conn'[c].ack = conn[c].ack + Len(s.bytes)
          \/ /\ written'[c] = written[c] /\ conn'[c].ack = conn[c].ack
             /\ conn[c].ack # s.seq \/ s.bytes = <<>>
  /\ sock'[c] = "shut" /\ ~conn[c].active =>
       \/ conn'[c].state = "closed"
       \/ /\ conn[c].state = "established" /\ conn'[c].state = "close-wait"
          /\ "fin" \in s.flags /\ written'[c] = written[c]
       \/ /\ sock[c] = "shut" /\ conn'[c].state = conn[c].state
          /\ written'[c] = written[c]

\* The other connections stay as they are.
Others(c) ==
  \A d \in Conn \ {c} : conn'[d] = conn[d] /\ sock'[d] = sock[d] /\ written'[d] = written[d]

\* A connection that becomes k keeps all of k but whether a chunk is out.
LEMMA BecomesKeeps ==
  ASSUME conn \in [Conn -> GoodConn], NEW c \in Conn, NEW k \in GoodConn, NEW segments,
         Becomes(c, k, segments) \/ Returns(c, k, segments)
  PROVE  /\ conn'[c].state = k.state /\ conn'[c].ack = k.ack /\ conn'[c].active = k.active
         /\ \A d \in Conn \ {c} : conn'[d] = conn[d]
<1>1. Pump(k).state = k.state /\ Pump(k).ack = k.ack /\ Pump(k).active = k.active
  BY DEF Pump, GoodConn, ConnType
<1>2. conn' = [conn EXCEPT ![c] = Pump(k)] \/ conn' = [conn EXCEPT ![c] = k]
  BY DEF Becomes, Returns
<1> QED
  BY <1>1, <1>2

LEMMA AckedKeeps ==
  ASSUME NEW k \in GoodConn, NEW s
  PROVE  Acked(k, s).ack = k.ack /\ Acked(k, s).active = k.active
BY DEF Acked, GoodConn, ConnType

\* The connection of the table, released.
LEMMA ReleasedKeeps ==
  ASSUME NEW k \in GoodConn
  PROVE  /\ Released(k).ack = k.ack /\ Released(k).active = k.active
         /\ tcp_conn # NoConn => Released(k).state = "closed"
BY DEF Released, GoodConn, ConnType

LEMMA ProcessSettles ==
  ASSUME AdapterInv, NEW c \in Conn, c = tcp_conn, NEW s \in GuestSegments, Process(c, s)
  PROVE  Settled(c, s) /\ Others(c)
<1>1. /\ conn \in [Conn -> GoodConn] /\ conn[c] \in GoodConn /\ c # NoConn
      /\ conn[c].state \in FinStates => conn[c].active
      /\ conn[c].delayed # "none" => conn[c].active
      /\ sock \in [Conn -> SockStates] /\ written \in [Conn -> Seq(Nat)]
  BY FakeTcpAssumption DEF AdapterInv, GoodConn
<1> DEFINE a == Acked(conn[c], s)
           Ends == \/ sock' = sock
                   \/ sock' = [sock EXCEPT ![c] = IF @ = "open" THEN "shut" ELSE @]
<1>2. /\ Released(conn[c]).ack = conn[c].ack /\ Released(conn[c]).active = conn[c].active
      /\ Released(conn[c]).state = "closed" /\ Released(conn[c]) \in GoodConn
  BY <1>1, ReleasedKeeps, ReleasedGood
<1>3. ASSUME Counts(conn[c], s)
      PROVE  /\ a \in GoodConn /\ a.ack = conn[c].ack /\ a.active = conn[c].active
             /\ a.state = conn[c].state \/ conn[c].active
             /\ a.state \in FinStates => conn[c].active
  <2>1. a.state = conn[c].state \/ conn[c].state = "fin-wait-1"
    BY <1>1, <1>3, AckedGood
  <2>2. a.state = conn[c].state \/ conn[c].active
    BY <1>1, <2>1 DEF FinStates
  <2> QED
    BY <1>1, <1>3, <2>2, AckedGood, AckedKeeps
<1>4. ASSUME Ends
      PROVE  /\ sock' \in [Conn -> SockStates] /\ \A d \in Conn \ {c} : sock'[d] = sock[d]
             /\ sock'[c] = sock[c] \/ (sock[c] = "open" /\ sock'[c] = "shut")
  BY <1>1, <1>4 DEF SockStates
<1>5. CASE ProcessReset(c, s)
  <2>1. /\ End(c) /\ written' = written
        /\ Returns(c, Released(conn[c]), <<>>)
    BY <1>5 DEF ProcessReset
  <2>2. /\ conn'[c].state = "closed" /\ conn'[c].active = conn[c].active
        /\ \A d \in Conn \ {c} : conn'[d] = conn[d]
    BY <1>1, <1>2, <2>1, BecomesKeeps
  <2>3. sock'[c] # "open" /\ Ends
    BY <1>1, <2>1 DEF End
  <2> QED
    BY <1>4, <2>1, <2>2, <2>3 DEF Settled, Others
<1>6. CASE ProcessLastAck(c, s)
  <2>1. /\ UNCHANGED <<sock, written>> /\ conn[c].active
        /\ Returns(c, Released(conn[c]), <<>>)
    BY <1>1, <1>6 DEF ProcessLastAck, FinStates
  <2>2. /\ conn'[c].active = conn[c].active
        /\ \A d \in Conn \ {c} : conn'[d] = conn[d]
    BY <1>1, <1>2, <2>1, BecomesKeeps
  <2> QED
    BY <2>1, <2>2 DEF Settled, Others
<1>7. CASE ProcessDelayedFin(c, s)
  <2> DEFINE k == [a EXCEPT !.state = conn[c].delayed, !.delayed = "none"]
             segments == <<Reply(k, {"ack", "fin"})>>
  <2>1. /\ UNCHANGED <<sock, written>> /\ Counts(conn[c], s) /\ FinIsDue(conn[c], s)
        /\ Returns(c, k, segments)
    BY <1>7 DEF ProcessDelayedFin
  <2>2. conn[c].active /\ conn[c].delayed \in {"fin-wait-1", "last-ack"} /\ a.buf = <<>>
    BY <1>1, <2>1 DEF FinIsDue, GoodConn, ConnType
  <2>3. k \in GoodConn /\ k.active
    <3>1. a \in GoodConn /\ a.active
      BY <1>3, <2>1, <2>2
    <3> HIDE DEF a
    <3> QED
      BY <2>2, <3>1 DEF GoodConn, ConnType, States, FinStates
  <2> HIDE DEF k, segments
  <2>4. /\ conn'[c].active
        /\ \A d \in Conn \ {c} : conn'[d] = conn[d]
    BY <1>1, <2>1, <2>3, BecomesKeeps
  <2> QED
    BY <2>1, <2>2, <2>4 DEF Settled, Others
<1>8. CASE ProcessUnderflow(c, s)
  <2>1. /\ End(c) /\ written' = written
        /\ Returns(c, Released(conn[c]), <<Reply(conn[c], {"rst"})>>)
    BY <1>8 DEF ProcessUnderflow
  <2>2. /\ conn'[c].state = "closed" /\ conn'[c].active = conn[c].active
        /\ \A d \in Conn \ {c} : conn'[d] = conn[d]
    BY <1>1, <1>2, <2>1, BecomesKeeps
  <2>3. sock'[c] # "open" /\ Ends
    BY <1>1, <2>1 DEF End
  <2> QED
    BY <1>4, <2>1, <2>2, <2>3 DEF Settled, Others
<1>9. CASE ProcessFin(c, s)
  <2> DEFINE k == [a EXCEPT !.ack = a.ack + 1]
  <2>1. /\ Counts(conn[c], s) /\ written' = written /\ "fin" \in s.flags
    BY <1>9 DEF ProcessFin
  <2>2. a \in GoodConn
    BY <1>3, <2>1
  <2>3. k \in GoodConn /\ k.state = a.state /\ k.active = a.active
    <3> HIDE DEF a
    <3>1. k.active = a.active
      BY <2>2 DEF GoodConn, ConnType
    <3> QED
      BY <2>2, <3>1, AckGrows
  <2>4. CASE /\ k.state = "established"
             /\ Becomes(c, [k EXCEPT !.state = "close-wait"], <<Reply(k, {"ack"})>>)
             /\ End(c)
    <3> DEFINE m == [k EXCEPT !.state = "close-wait"]
               segments == <<Reply(k, {"ack"})>>
    <3>1. m \in GoodConn /\ m.state = "close-wait" /\ m.active = k.active
      <4> HIDE DEF k
      <4> QED
        BY <2>3, <2>4 DEF GoodConn, ConnType, States, FinStates
    <3>2. Becomes(c, m, segments)
      BY <2>4
    <3> HIDE DEF m, segments
    <3>3. /\ conn'[c].state = "close-wait" /\ conn'[c].active = k.active
          /\ \A d \in Conn \ {c} : conn'[d] = conn[d]
      BY <1>1, <3>1, <3>2, BecomesKeeps
    <3>4. sock'[c] # "open" /\ Ends
      BY <1>1, <2>4 DEF End
    <3>5. k.active = conn[c].active /\ (conn[c].state = "established" \/ conn[c].active)
      BY <1>3, <2>1, <2>3, <2>4
    <3> HIDE DEF k
    <3> QED
      BY <1>4, <2>1, <3>3, <3>4, <3>5 DEF Settled, Others
  <2>5. CASE /\ k.state \in {"fin-wait-1", "fin-wait-2"}
             /\ Becomes(c, Released(k), <<Reply(k, {"ack"})>>)
             /\ UNCHANGED sock
    <3>1. conn[c].active /\ k.active
      BY <1>3, <2>1, <2>3, <2>5 DEF FinStates
    <3> HIDE DEF k
    <3>2. Released(k) \in GoodConn /\ Released(k).active
      BY <2>3, <3>1, ReleasedGood, ReleasedKeeps
    <3>3. /\ conn'[c].active
          /\ \A d \in Conn \ {c} : conn'[d] = conn[d]
      BY <1>1, <2>5, <3>2, BecomesKeeps
    <3> QED
      BY <2>1, <2>5, <3>1, <3>3 DEF Settled, Others
  <2>6. CASE /\ Becomes(c, Released(k), <<Reply(k, {"rst"})>>)
             /\ End(c)
    <3>1. k.active = conn[c].active
      BY <1>3, <2>1, <2>3
    <3> HIDE DEF k
    <3>2. /\ Released(k) \in GoodConn /\ Released(k).active = conn[c].active
          /\ Released(k).state = "closed"
      BY <1>1, <2>3, <3>1, ReleasedGood, ReleasedKeeps
    <3>3. /\ conn'[c].active = conn[c].active /\ conn'[c].state = "closed"
          /\ \A d \in Conn \ {c} : conn'[d] = conn[d]
      BY <1>1, <2>6, <3>2, BecomesKeeps
    <3>4. sock'[c] # "open" /\ Ends
      BY <1>1, <2>6 DEF End
    <3> QED
      BY <1>4, <2>1, <3>3, <3>4 DEF Settled, Others
  <2> QED
    BY <1>9, <2>4, <2>5, <2>6 DEF ProcessFin
<1>10. CASE ProcessWrongSeq(c, s)
  <2>1. /\ Counts(conn[c], s) /\ "fin" \notin s.flags /\ conn[c].ack # s.seq
        /\ UNCHANGED <<tcp_conn, sock, written>>
        /\ Becomes(c, a, <<Reply(a, {"ack"})>>)
    BY <1>10 DEF ProcessWrongSeq
  <2>2. a \in GoodConn
    BY <1>3, <2>1
  <2>3. /\ conn'[c].active = a.active /\ conn'[c].state = a.state /\ conn'[c].ack = a.ack
        /\ \A d \in Conn \ {c} : conn'[d] = conn[d]
    <3> HIDE DEF a
    <3> QED
      BY <1>1, <2>1, <2>2, BecomesKeeps
  <2> QED
    BY <1>1, <1>3, <2>1, <2>3 DEF Settled, Others, Counts
<1>11. CASE ProcessData(c, s)
  <2> DEFINE n == Len(s.bytes)
             k == [a EXCEPT !.ack = a.ack + n]
  <2>1. /\ Counts(conn[c], s) /\ "fin" \notin s.flags /\ conn[c].ack = s.seq
        /\ UNCHANGED tcp_conn
        /\ Becomes(c, k, <<Reply(k, {"ack"})>>)
        /\ sock' = [sock EXCEPT ![c] = IF sock[c] \in {"shut", "ending"} THEN "broken"
                                        ELSE sock[c]]
        /\ written' = IF sock[c] = "open" THEN [written EXCEPT ![c] = written[c] \o s.bytes]
                      ELSE written
    BY <1>11 DEF ProcessData
  <2>2. a \in GoodConn /\ n \in Nat
    BY <1>3, <2>1 DEF GuestSegments
  <2>3. k \in GoodConn /\ k.state = a.state /\ k.active = a.active /\ k.ack = a.ack + n
    <3> HIDE DEF a, n
    <3>1. k.active = a.active /\ k.ack = a.ack + n
      BY <2>2 DEF GoodConn, ConnType
    <3> QED
      BY <2>2, <3>1, AckGrows
  <2>4. /\ conn'[c].active = k.active /\ conn'[c].state = k.state /\ conn'[c].ack = k.ack
        /\ \A d \in Conn \ {c} : conn'[d] = conn[d]
    <3> HIDE DEF k
    <3> QED
      BY <1>1, <2>1, <2>3, BecomesKeeps
  <2>5. /\ sock'[c] = IF sock[c] \in {"shut", "ending"} THEN "broken" ELSE sock[c]
        /\ written'[c] = IF sock[c] = "open" THEN written[c] \o s.bytes ELSE written[c]
        /\ \A d \in Conn \ {c} : sock'[d] = sock[d] /\ written'[d] = written[d]
    BY <1>1, <2>1
  <2>6. /\ conn'[c].active = conn[c].active /\ conn'[c].ack = conn[c].ack + n
        /\ conn'[c].state = conn[c].state \/ conn[c].active
    BY <1>3, <2>1, <2>3, <2>4
  <2> HIDE DEF k, a
  <2> QED
    BY <1>1, <2>1, <2>4, <2>5, <2>6 DEF Settled, Others, Counts
<1>12. CASE ProcessAck(c, s)
  <2>1. /\ Counts(conn[c], s) /\ "fin" \notin s.flags /\ s.bytes = <<>>
        /\ UNCHANGED <<tcp_conn, sock, written>>
        /\ Becomes(c, a, <<>>)
    BY <1>12 DEF ProcessAck
  <2>2. a \in GoodConn
    BY <1>3, <2>1
  <2>3. /\ conn'[c].active = a.active /\ conn'[c].state = a.state /\ conn'[c].ack = a.ack
        /\ \A d \in Conn \ {c} : conn'[d] = conn[d]
    <3> HIDE DEF a
    <3> QED
      BY <1>1, <2>1, <2>2, BecomesKeeps
  <2> QED
    BY <1>1, <1>3, <2>1, <2>3 DEF Settled, Others, Counts
<1> QED
  BY <1>5, <1>6, <1>7, <1>8, <1>9, <1>10, <1>11, <1>12 DEF Process

\* A number below twice the modulus wraps once at most.
LEMMA WireOnce ==
  ASSUME NEW n \in Nat, n < W + W
  PROVE  \/ n < W /\ Wire(n) = n
         \/ n >= W /\ Wire(n) = n - W
<1>1. W \in Nat /\ W > 0
  BY FakeTcpAssumption DEF Seq0
<1>2. CASE n < W
  BY <1>1, <1>2 DEF Wire
<1>3. CASE n >= W
  <2> DEFINE m == n - W
  <2>1. m \in Nat /\ m < W /\ n = m + W
    BY <1>1, <1>3
  <2> HIDE DEF m
  <2>2. (m + W) % W = m
    BY <1>1, <2>1
  <2> QED
    BY <1>1, <1>3, <2>1, <2>2 DEF Wire
<1> QED
  BY <1>1, <1>2, <1>3

\* What a segment of the guest says of the stream, and what is recorded of it.
Told(s, from, n, fin) ==
  /\ s = GuestSegment(from, n, fin)
  /\ n > 0 => from + n <= guest'.snd
  /\ guest.fin => guest'.fin /\ guest'.finAlone = guest.finAlone /\ guest'.snd = guest.snd
  /\ fin => guest'.fin /\ (guest'.finAlone => guest'.snd = guest.snd \/ guest.fin)
  /\ ~fin => /\ guest'.fin = guest.fin
             /\ \/ guest'.snd = guest.snd /\ (n = 0 \/ from < guest.snd)
                \/ guest'.snd = guest.snd + n /\ from = guest.snd /\ n > 0

\* A segment of the guest without a SYN or a RST: from the handshake on it
\* acknowledges what the guest has received.
Speaks(s) ==
  /\ guest.st = "acking" \/ guest.st = "open" \/ guest.ackDue
  /\ guest'.st = IF guest.st = "acking" THEN "open" ELSE guest.st
  /\ \E from, n \in Nat : \E fin \in BOOLEAN : Told(s, from, n, fin)
  /\ UNCHANGED mishaps

\* A RST of the guest.
Resets(s) ==
  /\ guest.st \in {"open", "resetting"} /\ guest'.st = "reset"
  /\ s.flags = {"rst"}
  /\ guest'.fin = guest.fin /\ guest'.finAlone = guest.finAlone /\ guest'.snd = guest.snd
  /\ mishaps \subseteq mishaps'

\* A SYN of the guest.
Connects(s) ==
  /\ s.flags = {"syn"}
  /\ \/ guest.st = "closed" /\ guest' = [guest EXCEPT !.st = "syn-sent"] /\ UNCHANGED mishaps
     \/ guest.st = "syn-sent" /\ UNCHANGED guest /\ mishaps' = mishaps \cup {"syn"}

\* The guest sends segments of three kinds, and each is delivered at once.
LEMMA GuestSendsThese ==
  ASSUME EnvInv, GuestSends
  PROVE  /\ UNCHANGED <<hostSent, received>> /\ guest'.isn = guest.isn
         /\ guest'.eof = guest.eof
         /\ \E s \in GuestSegments : Deliver(s) /\ (Speaks(s) \/ Resets(s) \/ Connects(s))
<1>1. /\ guest \in GuestType
      /\ guest.isn \in Nat /\ guest.snd \in Nat /\ guest.una \in Nat /\ guest.fin \in BOOLEAN
      /\ \A b \in BOOLEAN : One(b) \in Nat
  BY GuestNumbers DEF GuestType
<1>2. UNCHANGED <<hostSent, received>>
  BY DEF GuestSends, GuestConnect, GuestRepeatSyn, GuestAck, GuestReset, GuestRepeat,
         GuestSend, GuestUnchanged
<1> DEFINE Goal == /\ guest'.isn = guest.isn /\ guest'.eof = guest.eof
                   /\ \E s \in GuestSegments : Deliver(s) /\ (Speaks(s) \/ Resets(s) \/ Connects(s))
<1>3. CASE GuestConnect \/ GuestRepeatSyn
  <2> DEFINE s == Segment({"syn"}, guest.isn, 0, <<>>)
  <2>1. s \in GuestSegments /\ s.flags = {"syn"}
    <3>1. s \in GuestSegments
      BY <1>1, BareSegmentType
    <3> QED
      BY <3>1 DEF Segment
  <2>2. Deliver(s) /\ guest'.isn = guest.isn /\ guest'.eof = guest.eof
    BY <1>1, <1>3 DEF GuestConnect, GuestRepeatSyn, GuestType
  <2> HIDE DEF s
  <2>3. Connects(s)
    BY <1>3, <2>1 DEF GuestConnect, GuestRepeatSyn, Connects, Mishap
  <2> QED
    BY <1>2, <2>1, <2>2, <2>3
<1>4. CASE GuestReset
  <2> DEFINE seq == guest.isn + 1 + guest.snd
             s == Segment({"rst"}, seq, 0, <<>>)
  <2>1. seq \in Int
    BY <1>1
  <2>2. s \in GuestSegments /\ s.flags = {"rst"}
    <3> HIDE DEF seq
    <3> QED
      BY <2>1, BareSegmentType DEF Segment
  <2>3. Deliver(s) /\ guest' = [guest EXCEPT !.st = "reset", !.ackDue = FALSE]
    BY <1>4 DEF GuestReset
  <2> HIDE DEF s
  <2>4. Resets(s) /\ guest'.isn = guest.isn /\ guest'.eof = guest.eof
    BY <1>1, <1>4, <2>2, <2>3 DEF GuestReset, Resets, Mishap, GuestType
  <2> QED
    BY <1>2, <2>2, <2>3, <2>4
<1>5. CASE GuestAck
  <2> DEFINE from == guest.snd + One(guest.fin)
             s == GuestSegment(from, 0, FALSE)
  <2>1. from \in Nat /\ 0 \in Nat /\ FALSE \in BOOLEAN
    BY <1>1
  <2>2. Deliver(s)
    BY <1>5 DEF GuestAck
  <2> HIDE DEF from
  <2>3. s \in GuestSegments
    BY <2>1, GuestSegmentType
  <2>4. /\ guest' = [guest EXCEPT !.st = IF guest.st = "acking" THEN "open" ELSE guest.st,
                                  !.ackDue = FALSE]
        /\ guest.st = "acking" \/ guest.ackDue
        /\ UNCHANGED mishaps
    BY <1>5 DEF GuestAck
  <2>5. /\ guest'.st = IF guest.st = "acking" THEN "open" ELSE guest.st
        /\ guest'.isn = guest.isn /\ guest'.eof = guest.eof /\ guest'.snd = guest.snd
        /\ guest'.fin = guest.fin /\ guest'.finAlone = guest.finAlone
    BY <1>1, <2>4 DEF GuestType
  <2>6. Told(s, from, 0, FALSE)
    BY <2>5 DEF Told
  <2>7. Speaks(s)
    BY <2>1, <2>4, <2>5, <2>6 DEF Speaks
  <2> HIDE DEF s
  <2> QED
    BY <1>2, <2>2, <2>3, <2>5, <2>7
<1>6. ASSUME NEW n \in 0 .. MaxGuest, GuestRepeat(n)
      PROVE  Goal
  <2> DEFINE from == IF guest.una > guest.snd THEN guest.snd ELSE guest.una
             fin == guest.fin /\ guest.una + n >= guest.snd
             s == GuestSegment(from, n, fin)
  <2>1. from \in Nat /\ n \in Nat /\ fin \in BOOLEAN
    BY <1>1, FakeTcpAssumption
  <2>2. Deliver(s)
    BY <1>6 DEF GuestRepeat
  <2>3. /\ guest' = [guest EXCEPT !.ackDue = FALSE] /\ guest.st = "open"
        /\ guest.una + n <= guest.snd /\ UNCHANGED mishaps
    BY <1>6 DEF GuestRepeat
  <2>4. /\ guest'.st = guest.st
        /\ guest'.isn = guest.isn /\ guest'.eof = guest.eof /\ guest'.snd = guest.snd
        /\ guest'.fin = guest.fin /\ guest'.finAlone = guest.finAlone
    BY <1>1, <2>3 DEF GuestType
  <2>5. n > 0 => from + n <= guest.snd /\ from < guest.snd
    BY <1>1, <2>1, <2>3
  <2>6. fin => guest.fin
    OBVIOUS
  <2> HIDE DEF from, fin
  <2>7. s \in GuestSegments
    BY <2>1, GuestSegmentType
  <2>8. Told(s, from, n, fin)
    BY <2>1, <2>4, <2>5, <2>6 DEF Told
  <2>9. Speaks(s)
    BY <2>1, <2>3, <2>4, <2>8 DEF Speaks
  <2> HIDE DEF s
  <2> QED
    BY <2>2, <2>4, <2>7, <2>9
<1>7. ASSUME NEW n \in 0 .. MaxGuest, NEW fin \in BOOLEAN, GuestSend(n, fin)
      PROVE  Goal
  <2> DEFINE from == guest.snd
             s == GuestSegment(from, n, fin)
             m == guest.snd + n
             alone == n = 0
  <2>1. from \in Nat /\ n \in Nat
    BY <1>1, FakeTcpAssumption
  <2>2. Deliver(s)
    BY <1>7 DEF GuestSend
  <2>3. /\ guest' = [guest EXCEPT !.snd = m, !.fin = fin, !.finAlone = alone, !.ackDue = FALSE]
        /\ guest.st = "open" /\ ~guest.fin /\ (n > 0 \/ fin) /\ UNCHANGED mishaps
    BY <1>7 DEF GuestSend
  <2>4. /\ guest'.st = guest.st
        /\ guest'.isn = guest.isn /\ guest'.eof = guest.eof /\ guest'.snd = m
        /\ guest'.fin = fin /\ guest'.finAlone = alone
    <3> HIDE DEF m, alone
    <3> QED
      BY <1>1, <2>3 DEF GuestType
  <2>5. s \in GuestSegments
    BY <1>1, <2>1, GuestSegmentType
  <2>6. Told(s, from, n, fin)
    BY <1>1, <2>1, <2>3, <2>4 DEF Told
  <2>7. Speaks(s)
    BY <2>1, <2>3, <2>4, <2>6 DEF Speaks
  <2> HIDE DEF s
  <2> QED
    BY <2>2, <2>4, <2>5, <2>7
<1> QED
  BY <1>2, <1>3, <1>4, <1>5, <1>6, <1>7 DEF GuestSends

\* The bytes of a segment that was told of, and what else it says.
LEMMA ToldBytes ==
  ASSUME NEW s, NEW from \in Nat, NEW n \in Nat, NEW fin \in BOOLEAN, Told(s, from, n, fin)
  PROVE  \A i \in 1 .. n : s.bytes[i] = from + i
BY DEF Told, GuestSegment, Segment

LEMMA ToldIs ==
  ASSUME NEW s, NEW from \in Nat, NEW n \in Nat, NEW fin \in BOOLEAN, Told(s, from, n, fin)
  PROVE  /\ s.seq = Wire(guest.isn + 1 + from) /\ s.ackn = Wire(RcvNxt)
         /\ "ack" \in s.flags /\ {"syn", "rst"} \cap s.flags = {}
         /\ fin = TRUE => "fin" \in s.flags
         /\ fin = FALSE => "fin" \notin s.flags
         /\ Len(s.bytes) = n /\ s.bytes \in Seq(Nat)
<1> DEFINE bytes == [i \in 1 .. n |-> from + i]
           flags == {"ack"} \cup (IF fin THEN {"fin"} ELSE {})
           seq == Wire(guest.isn + 1 + from)
           ackn == Wire(RcvNxt)
<1>1. bytes \in Seq(Nat) /\ Len(bytes) = n
  <2>1. bytes \in [1 .. n -> Nat]
    OBVIOUS
  <2> QED
    BY <2>1, SeqDef, LenProperties
<1>2. /\ "ack" \in flags /\ {"syn", "rst"} \cap flags = {}
      /\ fin = TRUE => "fin" \in flags
      /\ fin = FALSE => "fin" \notin flags
  OBVIOUS
<1>3. s = [flags |-> flags, seq |-> seq, ackn |-> ackn, bytes |-> bytes]
  BY DEF Told, GuestSegment, Segment
<1> HIDE DEF bytes, flags, seq, ackn
<1>4. s.flags = flags /\ s.seq = seq /\ s.ackn = ackn /\ s.bytes = bytes
  BY <1>3
<1> QED
  BY <1>1, <1>2, <1>4 DEF seq, ackn

\* What becomes of a segment: a connection begins, the guest gets a RST, or
\* the connection of the table takes it.
LEMMA DeliverCases ==
  ASSUME AdapterInv, NEW s \in GuestSegments, Deliver(s)
  PROVE  \/ /\ "syn" \in s.flags /\ UNCHANGED <<tcp_conn, written, toGuest>>
            /\ \E c \in Conn :
                 /\ sock[c] = "none" /\ c # tcp_conn
                 /\ sock' = [sock EXCEPT ![c] = "connecting"]
                 /\ conn' = [conn EXCEPT ![c] = [NewConn EXCEPT !.state = "syn-received"]]
         \/ /\ "syn" \notin s.flags /\ tcp_conn = NoConn
            /\ UNCHANGED <<tcp_conn, conn, sock, written>>
         \/ /\ "syn" \notin s.flags /\ tcp_conn \in Conn
            /\ Process(tcp_conn, s) /\ Settled(tcp_conn, s) /\ Others(tcp_conn)
<1>1. CASE OpenConnection(s)
  <2>1. PICK c \in Conn : /\ sock[c] = "none"
                          /\ sock' = [sock EXCEPT ![c] = "connecting"]
                          /\ conn' = [conn EXCEPT ![c] = [NewConn EXCEPT !.state = "syn-received"]]
    BY <1>1 DEF OpenConnection
  <2>2. c # tcp_conn
    BY <2>1, FakeTcpAssumption DEF AdapterInv, TableInv
  <2> QED
    BY <1>1, <2>1, <2>2 DEF OpenConnection
<1>2. CASE ResetUnknown(s)
  BY <1>2 DEF ResetUnknown
<1>3. ASSUME "syn" \notin s.flags, NEW c \in Conn, c = tcp_conn, Process(c, s)
      PROVE  /\ "syn" \notin s.flags /\ tcp_conn \in Conn
             /\ Process(tcp_conn, s) /\ Settled(tcp_conn, s) /\ Others(tcp_conn)
  BY <1>3, ProcessSettles
<1> QED
  BY <1>1, <1>2, <1>3 DEF Deliver

\* The numbers of a socket's bytes.
LEMMA WrittenType ==
  ASSUME AdapterInv, EnvInv, NEW c \in Conn
  PROVE  /\ written[c] \in Seq(Nat) /\ Len(written[c]) \in Nat
         /\ conn[c].ack \in Nat /\ guest.isn \in Nat
  BY GuestNumbers DEF AdapterInv, GoodConn, ConnType

\* A segment keeps what is known of each socket and what it was given.
LEMMA DeliverOpen ==
  ASSUME AdapterInv, EnvInv, OpenInv, NEW s \in GuestSegments, Deliver(s),
         hostSent' = hostSent, guest'.isn = guest.isn
  PROVE  OpenInv'
<1>1. sock \in [Conn -> SockStates] /\ conn \in [Conn -> GoodConn]
  BY DEF AdapterInv
<1>2. CASE UNCHANGED <<conn, sock, written>>
  BY <1>2 DEF OpenInv
<1>3. ASSUME NEW c \in Conn, sock[c] = "none", sock' = [sock EXCEPT ![c] = "connecting"],
             conn' = [conn EXCEPT ![c] = [NewConn EXCEPT !.state = "syn-received"]],
             UNCHANGED written
      PROVE  OpenInv'
  <2>1. /\ sock'[c] = "connecting" /\ ~conn'[c].active
        /\ written'[c] = <<>> /\ hostSent'[c] = 0
    BY <1>1, <1>3 DEF OpenInv, NewConn
  <2>2. \A d \in Conn \ {c} : sock'[d] = sock[d] /\ conn'[d] = conn[d] /\ written'[d] = written[d]
    BY <1>1, <1>3
  <2> QED
    BY <2>1, <2>2 DEF OpenInv, Readable
<1>4. ASSUME NEW c \in Conn, Settled(c, s), Others(c)
      PROVE  OpenInv'
  <2>1. s.bytes \in Seq(Nat)
    BY DEF GuestSegments
  <2>2. /\ written[c] \in Seq(Nat) /\ Len(written[c]) \in Nat /\ Len(s.bytes) \in Nat
        /\ conn[c].ack \in Nat /\ guest.isn \in Nat
    BY <2>1, WrittenType
  <2>3. Len(written[c] \o s.bytes) = Len(written[c]) + Len(s.bytes)
    BY <2>1, <2>2, ConcatProperties
  <2>4. sock'[c] \in {"none", "connecting"} =>
          written'[c] = <<>> /\ hostSent'[c] = 0 /\ ~conn'[c].active
    BY <1>4 DEF Settled, OpenInv
  <2>5. conn'[c].active => sock'[c] \notin Readable
    BY <1>4 DEF Settled, OpenInv, Readable
  <2>6. sock'[c] = "open" => conn'[c].ack = guest'.isn + 1 + Len(written'[c])
    <3> SUFFICES ASSUME sock'[c] = "open"
                 PROVE  conn'[c].ack = guest.isn + 1 + Len(written'[c])
      OBVIOUS
    <3>1. sock[c] = "open" /\ ~conn[c].active
      BY <1>4 DEF Settled, OpenInv, Readable
    <3>2. conn[c].ack = guest.isn + 1 + Len(written[c])
      BY <3>1 DEF OpenInv
    <3>3. \/ written'[c] = written[c] \o s.bytes /\ conn'[c].ack = conn[c].ack + Len(s.bytes)
          \/ written'[c] = written[c] /\ conn'[c].ack = conn[c].ack
      BY <1>4, <3>1 DEF Settled
    <3>4. CASE written'[c] = written[c] \o s.bytes /\ conn'[c].ack = conn[c].ack + Len(s.bytes)
      <4>1. Len(written'[c]) = Len(written[c]) + Len(s.bytes)
        BY <2>3, <3>4
      <4>2. conn'[c].ack = conn[c].ack + Len(s.bytes)
        BY <3>4
      <4> DEFINE old == Len(written[c])
                 new == Len(written'[c])
                 n == Len(s.bytes)
      <4>3. /\ old \in Nat /\ n \in Nat /\ new = old + n
            /\ conn[c].ack = guest.isn + 1 + old /\ conn'[c].ack = conn[c].ack + n
        BY <2>2, <3>2, <4>1, <4>2
      <4> HIDE DEF old, new, n
      <4>4. conn'[c].ack = guest.isn + 1 + new
        BY <2>2, <4>3
      <4> QED
        BY <4>4 DEF new
    <3> QED
      BY <3>2, <3>3, <3>4
  <2>7. ASSUME NEW d \in Conn \ {c}
        PROVE  /\ sock'[d] \in {"none", "connecting"} =>
                    written'[d] = <<>> /\ hostSent'[d] = 0 /\ ~conn'[d].active
               /\ sock'[d] = "open" => conn'[d].ack = guest'.isn + 1 + Len(written'[d])
               /\ conn'[d].active => sock'[d] \notin Readable
    BY <1>4 DEF Others, OpenInv
  <2> QED
    BY <2>4, <2>5, <2>6, <2>7 DEF OpenInv
<1> QED
  BY <1>2, <1>3, <1>4, DeliverCases

\* close marks the connection as closed for writing, and no more that matters
\* here.
LEMMA CloseKeeps ==
  ASSUME AdapterInv, NEW c \in Conn, Close(c)
  PROVE  /\ conn'[c].active /\ conn'[c].ack = conn[c].ack
         /\ \A d \in Conn \ {c} : conn'[d] = conn[d]
<1> DEFINE k == [conn[c] EXCEPT !.active = TRUE]
           next == IF k.state = "established" THEN "fin-wait-1" ELSE "last-ack"
<1>1. conn \in [Conn -> GoodConn] /\ conn[c] \in GoodConn
  BY DEF AdapterInv
<1>2. k \in GoodConn /\ k.active /\ k.ack = conn[c].ack
  BY <1>1 DEF GoodConn, ConnType
<1>3. next \in {"fin-wait-1", "last-ack"}
  OBVIOUS
<1>4. \/ Becomes(c, k, <<>>) \/ Returns(c, k, <<>>)
      \/ Becomes(c, [k EXCEPT !.delayed = next], <<>>)
      \/ k.buf = <<>> /\ Becomes(c, [k EXCEPT !.state = next], <<Reply(k, {"ack", "fin"})>>)
  BY DEF Close
<1> HIDE DEF k, next
<1>5. /\ [k EXCEPT !.delayed = next] \in GoodConn
      /\ [k EXCEPT !.delayed = next].active /\ [k EXCEPT !.delayed = next].ack = k.ack
  BY <1>2, <1>3 DEF GoodConn, ConnType
<1>6. k.buf = <<>> => /\ [k EXCEPT !.state = next] \in GoodConn
                      /\ [k EXCEPT !.state = next].active /\ [k EXCEPT !.state = next].ack = k.ack
  BY <1>2, <1>3 DEF GoodConn, ConnType, States, FinStates
<1>7. CASE k.buf = <<>> /\ Becomes(c, [k EXCEPT !.state = next], <<Reply(k, {"ack", "fin"})>>)
  <2> DEFINE m == [k EXCEPT !.state = next]
             segments == <<Reply(k, {"ack", "fin"})>>
  <2>1. m \in GoodConn /\ m.active /\ m.ack = k.ack /\ Becomes(c, m, segments)
    BY <1>6, <1>7
  <2> HIDE DEF m, segments
  <2> QED
    BY <1>1, <1>2, <2>1, BecomesKeeps
<1>8. CASE Becomes(c, [k EXCEPT !.delayed = next], <<>>)
  <2> DEFINE m == [k EXCEPT !.delayed = next]
  <2>1. m \in GoodConn /\ m.active /\ m.ack = k.ack /\ Becomes(c, m, <<>>)
    BY <1>5, <1>8
  <2> HIDE DEF m
  <2> QED
    BY <1>1, <1>2, <2>1, BecomesKeeps
<1> QED
  BY <1>1, <1>2, <1>4, <1>7, <1>8, BecomesKeeps

\* An event of a socket: one that connects, one byte of the host, or its end.
SocketIs(c) ==
  \/ /\ sock[c] = "connecting" /\ sock'[c] = "open" /\ hostSent'[c] = hostSent[c]
     /\ conn'[c].ack = guest.isn + 1 /\ conn'[c].active = conn[c].active
  \/ /\ sock[c] \in Readable /\ sock'[c] = sock[c]
     /\ conn'[c].ack = conn[c].ack /\ conn'[c].active = conn[c].active
  \/ sock'[c] \notin Readable \cup {"none", "connecting"}

LEMMA SocketEvents ==
  ASSUME AdapterInv, EnvInv, NEW c \in Conn, Socket(c)
  PROVE  /\ SocketIs(c) /\ UNCHANGED <<written, guest, received>>
         /\ \A d \in Conn \ {c} :
              sock'[d] = sock[d] /\ conn'[d] = conn[d] /\ hostSent'[d] = hostSent[d]
<1>1. /\ sock \in [Conn -> SockStates] /\ conn \in [Conn -> GoodConn]
      /\ hostSent \in [Conn -> 0 .. MaxHost] /\ conn[c] \in GoodConn
  BY DEF AdapterInv, EnvInv
<1>2. CASE Connected(c)
  <2> DEFINE ack == guest.isn + 1
             k == [conn[c] EXCEPT !.state = "established", !.seq = Seq0, !.ack = ack]
  <2>1. k.ack = ack /\ k.active = conn[c].active
    <3> HIDE DEF ack
    <3> QED
      BY <1>1 DEF GoodConn, ConnType
  <2>2. /\ conn' = [conn EXCEPT ![c] = k] /\ sock' = [sock EXCEPT ![c] = "open"]
        /\ sock[c] = "connecting" /\ UNCHANGED <<hostSent, written, guest, received>>
    BY <1>2 DEF Connected
  <2> HIDE DEF k
  <2> QED
    BY <1>1, <2>1, <2>2 DEF SocketIs
<1>3. CASE HostData(c)
  <2> DEFINE k == IF conn[c].active THEN conn[c]
                  ELSE [conn[c] EXCEPT !.buf = Append(conn[c].buf, <<c, hostSent'[c]>>)]
  <2>1. /\ sock[c] \in Readable /\ UNCHANGED <<sock, written, guest, received>>
        /\ hostSent' = [hostSent EXCEPT ![c] = hostSent[c] + 1]
        /\ Becomes(c, k, <<>>)
    BY <1>3 DEF HostData
  <2>2. k.ack = conn[c].ack /\ k.active = conn[c].active
    BY <1>1 DEF GoodConn, ConnType
  <2> HIDE DEF k
  <2>3. Pump(k).ack = k.ack /\ Pump(k).active = k.active
    BY DEF Pump
  <2>4. conn'[c] = Pump(k) /\ \A d \in Conn \ {c} : conn'[d] = conn[d]
    BY <1>1, <2>1 DEF Becomes
  <2> QED
    BY <1>1, <2>1, <2>2, <2>3, <2>4 DEF SocketIs
<1>4. CASE Refused(c) \/ HostEnd(c) \/ SocketClosed(c) \/ SocketError(c)
  <2>1. /\ \E st \in {"failed", "ending", "closed"} : sock' = [sock EXCEPT ![c] = st]
        /\ UNCHANGED <<hostSent, written, guest, received>>
    BY <1>4 DEF Refused, HostEnd, SocketClosed, SocketError
  <2>2. /\ sock'[c] \in {"failed", "ending", "closed"}
        /\ \A d \in Conn \ {c} : sock'[d] = sock[d]
    BY <1>1, <2>1
  <2>3. \A d \in Conn \ {c} : conn'[d] = conn[d]
    <3>1. ASSUME Close(c)
          PROVE  \A d \in Conn \ {c} : conn'[d] = conn[d]
      BY <3>1, CloseKeeps
    <3>2. ASSUME conn' = [conn EXCEPT ![c] = Released(conn[c])] \/ UNCHANGED conn
          PROVE  \A d \in Conn \ {c} : conn'[d] = conn[d]
      BY <1>1, <3>2
    <3>3. \/ Close(c) \/ UNCHANGED conn
          \/ conn' = [conn EXCEPT ![c] = Released(conn[c])]
      BY <1>4 DEF Refused, HostEnd, SocketClosed, SocketError, Returns
    <3> QED
      BY <3>1, <3>2, <3>3
  <2> QED
    BY <2>1, <2>2, <2>3 DEF SocketIs, Readable
<1> QED
  BY <1>2, <1>3, <1>4 DEF Socket

\* A frame that the guest takes leaves what it sends.
LEMMA ReceiveKeeps ==
  ASSUME EnvInv, GuestReceive
  PROVE  /\ guest'.isn = guest.isn /\ guest'.snd = guest.snd /\ guest'.fin = guest.fin
         /\ guest'.finAlone = guest.finAlone
BY GuestNumbers DEF GuestReceive, Taken, GuestType

\* Every step keeps what is known of each socket and what it was given.
LEMMA OpenNext ==
  ASSUME IInv, OpenInv, [Next]_vars
  PROVE  OpenInv'
<1>1. AdapterInv /\ EnvInv
  BY DEF IInv
<1>2. ASSUME NEW c \in Conn, Socket(c)
      PROVE  OpenInv'
  <2>1. /\ SocketIs(c) /\ UNCHANGED <<written, guest>>
        /\ \A d \in Conn \ {c} :
             sock'[d] = sock[d] /\ conn'[d] = conn[d] /\ hostSent'[d] = hostSent[d]
    BY <1>1, <1>2, SocketEvents
  <2>2. /\ written[c] \in Seq(Nat) /\ guest.isn \in Nat
    BY <1>1, WrittenType
  <2>3. /\ sock'[c] \in {"none", "connecting"} =>
             written'[c] = <<>> /\ hostSent'[c] = 0 /\ ~conn'[c].active
        /\ conn'[c].active => sock'[c] \notin Readable
    BY <2>1 DEF SocketIs, OpenInv, Readable
  <2>4. sock'[c] = "open" => conn'[c].ack = guest'.isn + 1 + Len(written'[c])
    <3>1. ASSUME sock[c] = "connecting", conn'[c].ack = guest.isn + 1
          PROVE  conn'[c].ack = guest'.isn + 1 + Len(written'[c])
      <4>1. Len(written[c]) = 0
        BY <3>1 DEF OpenInv
      <4> QED
        BY <2>1, <2>2, <3>1, <4>1
    <3>2. ASSUME sock[c] = "open", conn'[c].ack = conn[c].ack
          PROVE  conn'[c].ack = guest'.isn + 1 + Len(written'[c])
      BY <2>1, <3>2 DEF OpenInv
    <3> QED
      BY <2>1, <3>1, <3>2 DEF SocketIs, Readable
  <2>5. ASSUME NEW d \in Conn \ {c}
        PROVE  /\ sock'[d] \in {"none", "connecting"} =>
                    written'[d] = <<>> /\ hostSent'[d] = 0 /\ ~conn'[d].active
               /\ sock'[d] = "open" => conn'[d].ack = guest'.isn + 1 + Len(written'[d])
               /\ conn'[d].active => sock'[d] \notin Readable
    BY <2>1 DEF OpenInv
  <2> QED
    BY <2>3, <2>4, <2>5 DEF OpenInv
<1>3. CASE GuestSends
  <2>1. /\ hostSent' = hostSent /\ guest'.isn = guest.isn
        /\ \E s \in GuestSegments : Deliver(s)
    BY <1>1, <1>3, GuestSendsThese
  <2> QED
    BY <1>1, <2>1, DeliverOpen
<1>4. CASE GuestReceive
  <2>1. guest'.isn = guest.isn
    BY <1>1, <1>4, ReceiveKeeps
  <2>2. UNCHANGED <<adapter, hostSent>>
    BY <1>4 DEF GuestReceive
  <2> QED
    BY <2>1, <2>2 DEF adapter, OpenInv
<1>5. CASE LoseFrame
  BY <1>5 DEF LoseFrame, adapter, OpenInv
<1>6. CASE UNCHANGED vars
  BY <1>6 DEF vars, adapter, OpenInv
<1> QED
  BY <1>2, <1>3, <1>4, <1>5, <1>6 DEF Next, Guest, GuestSends

-----------------------------------------------------------------------------
(* The bytes of each socket are those of the guest, in order.              *)

OrderInv == \A c \in Conn : \A i \in 1 .. Len(written[c]) : written[c][i] = i

\* Bytes that are written to an open socket begin behind those it was given,
\* since the guest's numbers are told apart by what a header holds of them.
LEMMA NextBytes ==
  ASSUME MaxGuest < W, EnvInv, NEW len \in Nat, NEW from \in 0 .. MaxGuest,
         guest.isn + 1 + len = Wire(guest.isn + 1 + from)
  PROVE  len = from
<1>1. guest.isn \in Nat /\ guest.isn < W /\ W \in Nat /\ MaxGuest \in Nat
  <2>1. guest.isn \in Isns /\ guest.isn \in Nat
    BY GuestNumbers DEF GuestType
  <2>2. guest.isn \in 0 .. W - 1
    BY <2>1, FakeTcpAssumption
  <2> QED
    BY <2>1, <2>2, FakeTcpAssumption
<1> DEFINE n == guest.isn + 1 + from
<1>2. n \in Nat /\ n < W + W
  BY <1>1
<1>3. \/ n < W /\ Wire(n) = n
      \/ n >= W /\ Wire(n) = n - W
  <2> HIDE DEF n
  <2> QED
    BY <1>2, WireOnce
<1> QED
  BY <1>1, <1>3

\* Bytes 1 .. len and the n that follow them are the bytes 1 .. len + n.
LEMMA OrderedConcat ==
  ASSUME NEW a \in Seq(Nat), NEW b \in Seq(Nat),
         \A i \in 1 .. Len(a) : a[i] = i, \A i \in 1 .. Len(b) : b[i] = Len(a) + i
  PROVE  \A i \in 1 .. Len(a \o b) : (a \o b)[i] = i
<1> DEFINE both == a \o b
<1>1. /\ Len(both) = Len(a) + Len(b)
      /\ \A i \in 1 .. Len(a) + Len(b) :
           both[i] = IF i <= Len(a) THEN a[i] ELSE b[i - Len(a)]
  BY ConcatProperties
<1>2. Len(a) \in Nat /\ Len(b) \in Nat
  OBVIOUS
<1> HIDE DEF both
<1>3. ASSUME NEW i \in 1 .. Len(both)
      PROVE  both[i] = i
  <2>1. CASE i <= Len(a)
    BY <1>1, <1>2, <2>1
  <2>2. CASE i > Len(a)
    <3>1. i - Len(a) \in 1 .. Len(b) /\ both[i] = b[i - Len(a)]
      BY <1>1, <1>2, <2>2
    <3> QED
      BY <1>2, <3>1
  <2> QED
    BY <1>2, <2>1, <2>2
<1> QED
  BY <1>3 DEF both

\* What a segment adds to the bytes of a socket follows them, and was sent.
LEMMA SpeaksBytes ==
  ASSUME MaxGuest < W, AdapterInv, EnvInv, EnvInv', OpenInv,
         NEW s \in GuestSegments, Speaks(s), NEW c \in Conn, Settled(c, s),
         written'[c] # written[c]
  PROVE  /\ written'[c] = written[c] \o s.bytes /\ s.bytes \in Seq(Nat)
         /\ \A i \in 1 .. Len(s.bytes) : s.bytes[i] = Len(written[c]) + i
         /\ Len(written[c]) + Len(s.bytes) <= guest'.snd
<1>1. PICK from \in Nat, n \in Nat, fin \in BOOLEAN : Told(s, from, n, fin)
  BY DEF Speaks
<1>2. /\ s.seq = Wire(guest.isn + 1 + from) /\ Len(s.bytes) = n
      /\ \A i \in 1 .. n : s.bytes[i] = from + i
      /\ s.bytes \in Seq(Nat)
  <2>1. s.seq = Wire(guest.isn + 1 + from)
    BY <1>1, ToldIs
  <2>3. Len(s.bytes) = n
    BY <1>1, ToldIs
  <2>4. s.bytes \in Seq(Nat)
    BY <1>1, ToldIs
  <2>2. \A i \in 1 .. n : s.bytes[i] = from + i
    BY <1>1, ToldBytes
  <2> QED
    BY <2>1, <2>2, <2>3, <2>4
<1>3. /\ written'[c] = written[c] \o s.bytes /\ conn[c].ack = s.seq
      /\ conn[c].ack = guest.isn + 1 + Len(written[c])
  BY DEF Settled, OpenInv, Readable
<1>4. written[c] \in Seq(Nat) /\ Len(written[c]) \in Nat
  BY WrittenType
<1>5. n > 0
  <2>1. CASE n = 0
    <3>1. s.bytes = <<>>
      BY <1>2, <2>1, EmptySeq
    <3>2. written[c] \o <<>> = written[c]
      BY <1>4, ConcatEmptySeq
    <3> QED
      BY <1>3, <3>1, <3>2
  <2> QED
    BY <2>1
<1>6. from \in 0 .. MaxGuest
  <2>1. guest'.snd \in 0 .. MaxGuest
    BY DEF EnvInv
  <2>2. from + n <= guest'.snd
    BY <1>1, <1>5 DEF Told
  <2> QED
    BY <1>1, <1>5, <2>1, <2>2, FakeTcpAssumption
<1>7. Len(written[c]) = from
  BY <1>2, <1>3, <1>4, <1>6, NextBytes
<1>8. from + n <= guest'.snd
  BY <1>1, <1>5 DEF Told
<1> QED
  BY <1>2, <1>3, <1>7, <1>8

LEMMA SpeaksOrder ==
  ASSUME MaxGuest < W, AdapterInv, EnvInv, EnvInv', OpenInv, OrderInv,
         NEW s \in GuestSegments, Speaks(s), NEW c \in Conn, Settled(c, s)
  PROVE  \A i \in 1 .. Len(written'[c]) : written'[c][i] = i
<1>1. CASE written'[c] = written[c]
  BY <1>1 DEF OrderInv
<1>2. CASE written'[c] # written[c]
  <2>1. /\ written'[c] = written[c] \o s.bytes /\ s.bytes \in Seq(Nat)
        /\ \A i \in 1 .. Len(s.bytes) : s.bytes[i] = Len(written[c]) + i
    BY <1>2, SpeaksBytes
  <2>2. written[c] \in Seq(Nat)
    BY WrittenType
  <2> QED
    BY <2>1, <2>2, OrderedConcat DEF OrderInv
<1> QED
  BY <1>1, <1>2

LEMMA OrderNext ==
  ASSUME MaxGuest < W, IInv, IInv', OpenInv, OrderInv, [Next]_vars
  PROVE  OrderInv'
<1>1. AdapterInv /\ EnvInv /\ EnvInv'
  BY DEF IInv
<1>2. CASE UNCHANGED written
  BY <1>2 DEF OrderInv
<1>3. CASE GuestSends
  <2>1. PICK s \in GuestSegments : Deliver(s) /\ (Speaks(s) \/ Resets(s) \/ Connects(s))
    BY <1>1, <1>3, GuestSendsThese
  <2>2. CASE tcp_conn \in Conn /\ Settled(tcp_conn, s) /\ Others(tcp_conn) /\ "syn" \notin s.flags
    <3> DEFINE c == tcp_conn
    <3>1. CASE written'[c] = written[c]
      <4>1. \A d \in Conn : written'[d] = written[d]
        BY <2>2, <3>1 DEF Others
      <4> QED
        BY <4>1 DEF OrderInv
    <3>2. CASE written'[c] # written[c]
      <4>1. "ack" \in s.flags
        BY <2>2, <3>2 DEF Settled, OpenInv, Readable
      <4>2. Speaks(s)
        BY <2>1, <2>2, <4>1 DEF Resets, Connects
      <4> HIDE DEF c
      <4>3. c \in Conn /\ Settled(c, s) /\ Others(c)
        BY <2>2 DEF c
      <4>4. \A i \in 1 .. Len(written'[c]) : written'[c][i] = i
        BY <1>1, <4>2, <4>3, SpeaksOrder
      <4>5. \A d \in Conn \ {c} : written'[d] = written[d]
        BY <4>3 DEF Others
      <4> QED
        BY <4>4, <4>5 DEF OrderInv
    <3> QED
      BY <3>1, <3>2
  <2> QED
    BY <1>1, <1>2, <2>1, <2>2, DeliverCases
<1>4. ASSUME NEW c \in Conn, Socket(c)
      PROVE  UNCHANGED written
  BY <1>1, <1>4, SocketEvents
<1>5. UNCHANGED written \/ GuestSends
  BY <1>4 DEF Next, Guest, GuestSends, GuestReceive, LoseFrame, adapter, vars
<1> QED
  BY <1>2, <1>3, <1>5

-----------------------------------------------------------------------------
(* The host's bytes on their way to the guest, of one connection.          *)

\* How many bytes of the host are acknowledged.
Base(k, sent) == sent - Len(k.buf)

\* Everything was acknowledged and the FIN is out.
FinSent(k) == k.buf = <<>> /\ k.active /\ k.delayed = "none"

\* A connection k of c whose host has sent so many bytes, and a guest that has
\* received the bytes rcv, and the end of the stream or not: the buffer goes on
\* where the acknowledged bytes end, and what the guest has besides them is of
\* the chunk that is pending.
Stream(c, k, sent, rcv, eof) ==
  /\ Base(k, sent) \in Nat
  /\ \A i \in 1 .. Len(k.buf) : k.buf[i] = <<c, Base(k, sent) + i>>
  /\ \A i \in 1 .. Len(rcv) : rcv[i] = <<c, i>>
  /\ k.pending => k.buf # <<>>
  /\ \/ Len(rcv) = Base(k, sent)
     \/ /\ k.pending /\ Len(rcv) > Base(k, sent)
        /\ Len(rcv) - Base(k, sent) <= ChunkSize /\ Len(rcv) <= sent
  /\ \/ k.seq = Seq0 + Base(k, sent)
     \/ eof /\ k.seq = Seq0 + Base(k, sent) + 1
  /\ eof => FinSent(k) /\ Len(rcv) = Base(k, sent)

Carries(f) == f.bytes # <<>> \/ "fin" \in f.flags
Quiet(q) == \A i \in 1 .. Len(q) : ~Carries(q[i])

\* A frame that carries something carries what the guest expects next.
NextFrame(c, k, sent, rcv, eof, f) ==
  /\ f.flags \cap {"syn", "rst"} = {}
  /\ f.seq = Wire(Seq0 + Len(rcv))
  /\ Len(rcv) = Base(k, sent) /\ ~eof
  /\ \/ f.bytes = <<>> /\ FinSent(k)
     \/ /\ "fin" \notin f.flags /\ k.pending
        /\ Len(f.bytes) <= ChunkSize /\ Len(f.bytes) <= Len(k.buf)
        /\ \A j \in 1 .. Len(f.bytes) : f.bytes[j] = <<c, Len(rcv) + j>>

Frames(c, k, sent, rcv, eof, q) ==
  /\ \A i \in 1 .. Len(q) : Carries(q[i]) => NextFrame(c, k, sent, rcv, eof, q[i])
  /\ \A i, j \in 1 .. Len(q) : Carries(q[i]) /\ Carries(q[j]) => i = j

\* Frames that carry nothing are no matter.
LEMMA QuietFrames ==
  ASSUME NEW c, NEW k, NEW sent, NEW rcv, NEW eof, NEW q, Quiet(q)
  PROVE  Frames(c, k, sent, rcv, eof, q)
BY DEF Quiet, Frames

\* No frame carries anything when no chunk is pending and no FIN was sent, or
\* when the guest has more than was acknowledged.
LEMMA NothingOut ==
  ASSUME NEW c, NEW k, NEW sent, NEW rcv, NEW eof, NEW q, Frames(c, k, sent, rcv, eof, q),
         \/ ~k.pending /\ ~FinSent(k)
         \/ Len(rcv) # Base(k, sent) \/ eof
  PROVE  Quiet(q)
BY DEF Quiet, Frames, NextFrame

LEMMA FramesAppend ==
  ASSUME NEW c, NEW k, NEW sent, NEW rcv, NEW eof, NEW q \in Seq(Segments), NEW f \in Segments
  PROVE  /\ Quiet(q) /\ (Carries(f) => NextFrame(c, k, sent, rcv, eof, f))
              => Frames(c, k, sent, rcv, eof, Append(q, f))
         /\ Frames(c, k, sent, rcv, eof, q) /\ ~Carries(f)
              => Frames(c, k, sent, rcv, eof, Append(q, f))
         /\ Quiet(q) /\ ~Carries(f) => Quiet(Append(q, f))
<1> DEFINE r == Append(q, f)
<1>1. /\ Len(q) \in Nat /\ Len(r) = Len(q) + 1 /\ r[Len(q) + 1] = f
      /\ \A i \in 1 .. Len(q) : r[i] = q[i]
  BY AppendProperties
<1> HIDE DEF r
<1>2. \A i \in 1 .. Len(r) : i \in 1 .. Len(q) \/ i = Len(q) + 1
  BY <1>1
<1>3. ASSUME Quiet(q), Carries(f) => NextFrame(c, k, sent, rcv, eof, f)
      PROVE  Frames(c, k, sent, rcv, eof, r)
  <2>1. ASSUME NEW i \in 1 .. Len(r), Carries(r[i])
        PROVE  i = Len(q) + 1 /\ NextFrame(c, k, sent, rcv, eof, r[i])
    BY <1>1, <1>2, <1>3, <2>1 DEF Quiet
  <2> QED
    BY <2>1 DEF Frames
<1>4. ASSUME Frames(c, k, sent, rcv, eof, q), ~Carries(f)
      PROVE  Frames(c, k, sent, rcv, eof, r)
  <2>1. ASSUME NEW i \in 1 .. Len(r), Carries(r[i])
        PROVE  i \in 1 .. Len(q) /\ r[i] = q[i] /\ NextFrame(c, k, sent, rcv, eof, r[i])
    BY <1>1, <1>2, <1>4, <2>1 DEF Frames
  <2> QED
    BY <1>4, <2>1 DEF Frames
<1>5. ASSUME Quiet(q), ~Carries(f)
      PROVE  Quiet(r)
  BY <1>1, <1>2, <1>5 DEF Quiet
<1> QED
  BY <1>3, <1>4, <1>5 DEF r

\* The first frame is taken or lost.
LEMMA FramesTail ==
  ASSUME NEW c, NEW k, NEW sent, NEW rcv, NEW eof, NEW q \in Seq(Segments), q # <<>>,
         Frames(c, k, sent, rcv, eof, q)
  PROVE  /\ Frames(c, k, sent, rcv, eof, Tail(q))
         /\ Carries(Head(q)) => NextFrame(c, k, sent, rcv, eof, Head(q)) /\ Quiet(Tail(q))
<1> DEFINE t == Tail(q)
           h == Head(q)
<1>1. /\ Len(q) \in Nat /\ Len(q) > 0 /\ Len(t) = Len(q) - 1 /\ h = q[1]
      /\ \A i \in 1 .. Len(t) : t[i] = q[i + 1]
  BY HeadTailProperties, EmptySeq
<1> HIDE DEF t, h
<1>2. \A i \in 1 .. Len(t) : i + 1 \in 1 .. Len(q) /\ i + 1 # 1
  BY <1>1
<1>3. 1 \in 1 .. Len(q)
  BY <1>1
<1>4. ASSUME NEW i \in 1 .. Len(t), Carries(t[i])
      PROVE  NextFrame(c, k, sent, rcv, eof, t[i]) /\ ~Carries(h)
  BY <1>1, <1>2, <1>3, <1>4 DEF Frames
<1>5. ASSUME NEW i \in 1 .. Len(t), NEW j \in 1 .. Len(t), Carries(t[i]), Carries(t[j])
      PROVE  i = j
  <2>1. i + 1 = j + 1
    BY <1>1, <1>2, <1>5 DEF Frames
  <2> QED
    BY <2>1
<1>6. Frames(c, k, sent, rcv, eof, t)
  BY <1>4, <1>5 DEF Frames
<1>7. Carries(h) => NextFrame(c, k, sent, rcv, eof, h) /\ Quiet(t)
  BY <1>1, <1>3, <1>4 DEF Frames, Quiet
<1> QED
  BY <1>6, <1>7 DEF t, h

Flow(c, k, sent, rcv, eof, q) ==
  Stream(c, k, sent, rcv, eof) /\ Frames(c, k, sent, rcv, eof, q)

\* What is not about the buffer does not matter, unless it takes a FIN back.
LEMMA SameFlow ==
  ASSUME NEW c, NEW k, NEW m, NEW sent, NEW rcv, NEW eof, NEW q,
         Flow(c, k, sent, rcv, eof, q),
         m.buf = k.buf, m.pending = k.pending, m.seq = k.seq, FinSent(k) => FinSent(m)
  PROVE  Flow(c, m, sent, rcv, eof, q)
<1>1. Base(m, sent) = Base(k, sent)
  BY DEF Base
<1>2. Stream(c, m, sent, rcv, eof)
  BY <1>1 DEF Flow, Stream
<1>3. ASSUME NEW f, NextFrame(c, k, sent, rcv, eof, f)
      PROVE  NextFrame(c, m, sent, rcv, eof, f)
  BY <1>1, <1>3 DEF NextFrame
<1>4. Frames(c, m, sent, rcv, eof, q)
  BY <1>3 DEF Flow, Frames
<1> QED
  BY <1>2, <1>4 DEF Flow

\* pump puts the next chunk on its way when none is.
LEMMA PumpFlow ==
  ASSUME NEW c \in Conn, NEW k \in GoodConn, NEW sent \in Nat, NEW rcv \in Seq(Conn \X Nat),
         NEW eof \in BOOLEAN, NEW q \in Seq(Segments), Flow(c, k, sent, rcv, eof, q)
  PROVE  Flow(c, Pump(k), sent, rcv, eof, q \o Pumped(k))
<1>1. CASE ~Sends(k)
  <2>1. q \o <<>> = q
    BY ConcatEmptySeq
  <2> QED
    BY <1>1, <2>1 DEF Pump, Pumped
<1>2. CASE Sends(k)
  <2> DEFINE m == [k EXCEPT !.pending = TRUE]
             n == IF Len(k.buf) < ChunkSize THEN Len(k.buf) ELSE ChunkSize
             bytes == SubSeq(k.buf, 1, n)
             f == Segment({"psh", "ack"}, k.seq, k.ack, bytes)
  <2>1. /\ k.buf \in Seq(Conn \X Nat) /\ k.seq \in Nat /\ k.ack \in Nat
        /\ k.buf # <<>> /\ ~k.pending
    BY <1>2 DEF Sends, GoodConn, ConnType
  <2>2. Len(k.buf) \in Nat /\ Len(rcv) \in Nat /\ ChunkSize \in Nat /\ ChunkSize > 0
    BY <2>1, FakeTcpAssumption
  <2>3. n \in Nat /\ n <= Len(k.buf) /\ n <= ChunkSize
    BY <2>2
  <2> HIDE DEF n
  <2>4. /\ bytes \in Seq(Conn \X Nat) /\ Len(bytes) = n
        /\ \A j \in 1 .. n : bytes[j] = k.buf[j]
    <3>1. \A i \in 1 .. n : k.buf[i] \in Conn \X Nat
      BY <2>1, <2>2, <2>3, ElementOfSeq
    <3> QED
      BY <2>3, <3>1, SubSeqProperties
  <2> HIDE DEF bytes
  <2>5. /\ m.buf = k.buf /\ m.seq = k.seq /\ m.pending /\ m.active = k.active
        /\ m.delayed = k.delayed
    BY DEF GoodConn, ConnType
  <2>6. f \in Segments
    <3>1. bytes \in Seq(Conn \X Nat)
      BY <2>4
    <3>2. k.seq \in Int /\ k.ack \in Int
      BY <2>1
    <3> QED
      BY <3>1, <3>2, SegmentType
  <2>7. /\ f.flags = {"psh", "ack"} /\ f.seq = Wire(k.seq) /\ f.bytes = bytes
    BY DEF Segment
  <2> HIDE DEF m, f
  <2>8. Base(m, sent) = Base(k, sent)
    BY <2>5 DEF Base
  <2>9. ~eof /\ Len(rcv) = Base(k, sent) /\ k.seq = Seq0 + Len(rcv)
    BY <2>1 DEF Flow, Stream, FinSent
  <2>10. \A j \in 1 .. n : bytes[j] = <<c, Len(rcv) + j>>
    <3>1. \A j \in 1 .. Len(k.buf) : k.buf[j] = <<c, Len(rcv) + j>>
      BY <2>9 DEF Flow, Stream
    <3>2. \A j \in 1 .. n : j \in 1 .. Len(k.buf)
      BY <2>2, <2>3
    <3> QED
      BY <2>4, <3>1, <3>2
  <2>11. NextFrame(c, m, sent, rcv, eof, f)
    BY <2>3, <2>4, <2>5, <2>7, <2>8, <2>9, <2>10 DEF NextFrame
  <2>12. Quiet(q)
    BY <2>1, NothingOut DEF Flow, FinSent
  <2>13. Frames(c, m, sent, rcv, eof, Append(q, f))
    BY <2>6, <2>11, <2>12, FramesAppend
  <2>14. Append(q, f) = q \o <<f>>
    BY <2>6, AppendIsConcat
  <2>15. Stream(c, m, sent, rcv, eof)
    BY <2>1, <2>5, <2>8, <2>9 DEF Flow, Stream
  <2>16. Pump(k) = m /\ Pumped(k) = <<f>>
    BY <1>2 DEF Pump, Pumped, m, f, n, bytes
  <2> QED
    BY <2>13, <2>14, <2>15, <2>16 DEF Flow
<1> QED
  BY <1>1, <1>2

\* A FIN follows the last byte.
LEMMA FinFlow ==
  ASSUME NEW c \in Conn, NEW k \in GoodConn, NEW m \in GoodConn, NEW sent \in Nat,
         NEW rcv \in Seq(Conn \X Nat), NEW eof \in BOOLEAN, NEW q \in Seq(Segments),
         Flow(c, k, sent, rcv, eof, q), Quiet(q), ~k.pending, ~eof,
         m.buf = k.buf, m.pending = k.pending, m.seq = k.seq, FinSent(m)
  PROVE  Flow(c, m, sent, rcv, eof, q \o <<Reply(k, {"ack", "fin"})>>)
<1> DEFINE f == Reply(k, {"ack", "fin"})
<1>1. f \in Segments
  <2>1. k.seq \in Int /\ k.ack \in Int /\ <<>> \in Seq(Conn \X Nat)
    BY DEF GoodConn, ConnType
  <2> QED
    BY <2>1, SegmentType DEF Reply
<1>2. f.flags = {"ack", "fin"} /\ f.seq = Wire(k.seq) /\ f.bytes = <<>>
  BY DEF Reply, Segment
<1>3. Flow(c, m, sent, rcv, eof, q)
  BY SameFlow
<1>4. Len(rcv) = Base(k, sent) /\ k.seq = Seq0 + Len(rcv)
  BY DEF Flow, Stream
<1>5. Base(m, sent) = Base(k, sent)
  BY DEF Base
<1> HIDE DEF f
<1>6. NextFrame(c, m, sent, rcv, eof, f)
  BY <1>2, <1>4, <1>5 DEF NextFrame
<1>7. Frames(c, m, sent, rcv, eof, Append(q, f))
  BY <1>1, <1>6, FramesAppend
<1>8. Append(q, f) = q \o <<f>>
  BY <1>1, AppendIsConcat
<1> QED
  BY <1>3, <1>7, <1>8 DEF Flow, f

\* The other host sends a byte.
LEMMA HostFlowGrows ==
  ASSUME NEW c \in Conn, NEW k \in GoodConn, NEW sent \in Nat, NEW rcv \in Seq(Conn \X Nat),
         NEW eof \in BOOLEAN, NEW q \in Seq(Segments), Flow(c, k, sent, rcv, eof, q), ~k.active
  PROVE  Flow(c, [k EXCEPT !.buf = Append(k.buf, <<c, sent + 1>>)], sent + 1, rcv, eof, q)
<1> DEFINE byte == <<c, sent + 1>>
           buf == Append(k.buf, byte)
           m == [k EXCEPT !.buf = buf]
<1>1. k.buf \in Seq(Conn \X Nat) /\ Len(k.buf) \in Nat /\ byte \in Conn \X Nat
  BY DEF GoodConn, ConnType
<1>2. /\ Len(buf) = Len(k.buf) + 1 /\ buf # <<>> /\ buf[Len(k.buf) + 1] = byte
      /\ \A i \in 1 .. Len(k.buf) : buf[i] = k.buf[i]
  BY <1>1, AppendProperties
<1>3. m.buf = buf /\ m.seq = k.seq /\ m.pending = k.pending
  BY DEF GoodConn, ConnType
<1> HIDE DEF buf, m
<1>4. ~FinSent(k) /\ ~eof
  BY DEF FinSent, Flow, Stream
<1>5. Base(m, sent + 1) = Base(k, sent)
  <2> DEFINE old == Len(k.buf)
             new == Len(m.buf)
  <2>1. old \in Nat /\ new = old + 1
    BY <1>1, <1>2, <1>3
  <2> HIDE DEF old, new
  <2>2. sent + 1 - new = sent - old
    BY <2>1
  <2>3. sent + 1 - Len(m.buf) = sent - Len(k.buf)
    BY <2>2 DEF old, new
  <2>4. Base(m, sent + 1) = sent + 1 - Len(m.buf) /\ Base(k, sent) = sent - Len(k.buf)
    BY DEF Base
  <2> QED
    BY <2>3, <2>4
<1>6. \A i \in 1 .. Len(buf) : buf[i] = <<c, Base(k, sent) + i>>
  <2>1. byte = <<c, Base(k, sent) + Len(k.buf) + 1>>
    BY <1>1 DEF Base
  <2>2. \A i \in 1 .. Len(k.buf) : buf[i] = <<c, Base(k, sent) + i>>
    BY <1>2 DEF Flow, Stream
  <2>3. Base(k, sent) + Len(k.buf) + 1 = Base(k, sent) + (Len(k.buf) + 1)
    <3> DEFINE old == Len(k.buf)
    <3>1. old \in Nat
      BY <1>1
    <3> HIDE DEF old
    <3>2. (sent - old) + old + 1 = (sent - old) + (old + 1)
      BY <3>1
    <3> QED
      BY <3>2 DEF Base, old
  <2>4. ASSUME NEW i \in 1 .. Len(buf)
        PROVE  buf[i] = <<c, Base(k, sent) + i>>
    <3>1. CASE i \in 1 .. Len(k.buf)
      BY <2>2, <3>1
    <3>2. CASE i = Len(k.buf) + 1
      BY <1>2, <2>1, <2>3, <3>2
    <3> QED
      BY <1>1, <1>2, <3>1, <3>2
  <2> QED
    BY <2>4
<1>7. Stream(c, m, sent + 1, rcv, eof)
  <2>1. Base(k, sent) \in Nat /\ Len(rcv) \in Nat
    BY DEF Flow, Stream
  <2>2. \/ Len(rcv) = Base(k, sent)
        \/ /\ k.pending /\ Len(rcv) > Base(k, sent)
           /\ Len(rcv) - Base(k, sent) <= ChunkSize /\ Len(rcv) <= sent + 1
    BY <2>1 DEF Flow, Stream
  <2>3. k.seq = Seq0 + Base(k, sent)
    BY <1>4 DEF Flow, Stream
  <2>4. \A i \in 1 .. Len(rcv) : rcv[i] = <<c, i>>
    BY DEF Flow, Stream
  <2> QED
    BY <1>2, <1>3, <1>4, <1>5, <1>6, <2>1, <2>2, <2>3, <2>4 DEF Stream
<1>8. ASSUME NEW f \in Segments, NextFrame(c, k, sent, rcv, eof, f)
      PROVE  NextFrame(c, m, sent + 1, rcv, eof, f)
  <2>1. Len(f.bytes) \in Nat
    BY DEF Segments
  <2> QED
    BY <1>1, <1>2, <1>3, <1>4, <1>5, <1>8, <2>1 DEF NextFrame
<1>9. Frames(c, m, sent + 1, rcv, eof, q)
  <2>1. \A i \in 1 .. Len(q) : q[i] \in Segments
    BY ElementOfSeq
  <2> QED
    BY <1>8, <2>1 DEF Flow, Frames
<1> QED
  BY <1>7, <1>9 DEF Flow, m, buf

\* What an acknowledgement that counts changes.
LEMMA AckedIs ==
  ASSUME NEW k \in GoodConn, NEW s
  PROVE  /\ Acked(k, s).lastAck = s.ackn
         /\ Acked(k, s).active = k.active /\ Acked(k, s).delayed = k.delayed
         /\ NewlyAcked(k, s) > 0 =>
              /\ Acked(k, s).buf = Drop(k.buf, NewlyAcked(k, s))
              /\ Acked(k, s).seq = k.seq + NewlyAcked(k, s) /\ ~Acked(k, s).pending
         /\ ~(NewlyAcked(k, s) > 0) =>
              /\ Acked(k, s).buf = k.buf /\ Acked(k, s).seq = k.seq
              /\ Acked(k, s).pending = k.pending
BY DEF Acked, GoodConn, ConnType

\* The rest of a buffer.
LEMMA DropIs ==
  ASSUME NEW S, NEW seq \in Seq(S), NEW n \in Nat, n <= Len(seq)
  PROVE  /\ Len(Drop(seq, n)) = Len(seq) - n
         /\ \A i \in 1 .. Len(seq) - n : Drop(seq, n)[i] = seq[n + i]
<1>1. Len(seq) \in Nat /\ \A i \in n + 1 .. Len(seq) : seq[i] \in S
  BY ElementOfSeq
<1> DEFINE d == SubSeq(seq, n + 1, Len(seq))
<1>2. /\ Len(d) = IF n + 1 <= Len(seq) THEN Len(seq) - (n + 1) + 1 ELSE 0
      /\ \A i \in 1 .. Len(seq) - (n + 1) + 1 : d[i] = seq[n + 1 + i - 1]
  BY <1>1, SubSeqProperties
<1> HIDE DEF d
<1>3. Len(seq) - (n + 1) + 1 = Len(seq) - n
  BY <1>1
<1>4. Len(d) = Len(seq) - n
  <2> DEFINE l == Len(seq)
  <2>1. l \in Nat /\ n <= l /\ Len(d) = IF n + 1 <= l THEN l - (n + 1) + 1 ELSE 0
    BY <1>1, <1>2
  <2> HIDE DEF l
  <2>2. Len(d) = l - n
    BY <2>1
  <2> QED
    BY <2>2 DEF l
<1>5. ASSUME NEW i \in 1 .. Len(seq) - n
      PROVE  d[i] = seq[n + i]
  <2>1. n + 1 + i - 1 = n + i
    BY <1>1
  <2>2. d[i] = seq[n + 1 + i - 1]
    BY <1>2, <1>3
  <2> QED
    BY <2>1, <2>2
<1> QED
  BY <1>4, <1>5 DEF Drop, d

\* What the guest acknowledges is what it has and the adapter has not counted,
\* unless the number wraps, and then it is less than what was counted.
LEMMA AckCount ==
  ASSUME NEW k \in GoodConn, NEW s \in GuestSegments, NEW c \in Conn, NEW sent \in Nat,
         NEW rcv \in Seq(Conn \X Nat), NEW eof \in BOOLEAN, Stream(c, k, sent, rcv, eof),
         Counts(k, s), s.ackn = Wire(Seq0 + Len(rcv) + One(eof)),
         \/ k.lastAck = k.seq /\ k.seq < W
         \/ k.lastAck = Undefined /\ k.seq = Seq0 /\ rcv = <<>> /\ ~eof
  PROVE  /\ s.ackn = Seq0 + Len(rcv) + One(eof) /\ s.ackn < W
         /\ NewlyAcked(k, s) = Seq0 + Len(rcv) + One(eof) - k.seq
<1> DEFINE l == Len(rcv)
           b == Base(k, sent)
           e == One(eof)
           next == Seq0 + l + e
<1>1. /\ k.seq \in Nat /\ l \in Nat /\ b \in Nat /\ e \in {0, 1} /\ Seq0 \in Nat
      /\ W \in Nat /\ W > Seq0 /\ W > 1 /\ ChunkSize \in Nat /\ ChunkSize < W
  BY FakeTcpAssumption DEF Stream, GoodConn, ConnType, One, Seq0
<1>2. /\ eof => e = 1 /\ l = b
      /\ ~eof => e = 0
      /\ l = b \/ (l > b /\ l - b <= ChunkSize)
      /\ k.seq = Seq0 + b \/ (eof /\ k.seq = Seq0 + b + 1)
  BY DEF Stream, One
<1>3. NewlyAcked(k, s) >= 0
  BY DEF Counts
<1>4. CASE k.lastAck = k.seq /\ k.seq < W
  <2> HIDE DEF l, b, e, next
  <2>1. next - k.seq >= 0 /\ next - k.seq < W /\ next \in Nat /\ next < W + W
    BY <1>1, <1>2, <1>4 DEF next
  <2>2. NewlyAcked(k, s) = Wire(next) - k.seq
    BY <1>1, <1>4 DEF NewlyAcked, Undefined, next, l, e
  <2>3. \/ next < W /\ Wire(next) = next
        \/ next >= W /\ Wire(next) = next - W
    BY <2>1, WireOnce
  <2>4. next < W /\ Wire(next) = next
    BY <1>1, <1>3, <2>1, <2>2, <2>3
  <2>5. s.ackn = Wire(next)
    BY DEF next, l, e
  <2>6. s.ackn = next /\ s.ackn < W /\ NewlyAcked(k, s) = next - k.seq
    BY <2>2, <2>4, <2>5
  <2> QED
    <3>1. next = Seq0 + Len(rcv) + One(eof)
      BY DEF next, l, e
    <3> QED
      BY <1>1, <2>1, <2>6, <3>1 DEF l, e
<1>5. CASE k.lastAck = Undefined /\ k.seq = Seq0 /\ rcv = <<>> /\ ~eof
  <2>1. l = 0 /\ e = 0
    BY <1>2, <1>5
  <2> HIDE DEF l, b, e
  <2>2. next = Seq0 /\ next < W + W
    BY <1>1, <2>1
  <2>3. \/ next < W /\ Wire(next) = next
        \/ next >= W /\ Wire(next) = next - W
    BY <1>1, <2>2, WireOnce
  <2>4. Wire(next) = Seq0
    BY <1>1, <2>2, <2>3
  <2>5. NewlyAcked(k, s) = 0
    BY <1>5 DEF NewlyAcked
  <2> QED
    BY <1>1, <1>5, <2>2, <2>4, <2>5 DEF l, e
<1> QED
  BY <1>4, <1>5

\* An acknowledgement that counts moves the bytes that the guest has from the
\* buffer to the acknowledged ones, and only then may the next chunk leave.
LEMMA AckFlow ==
  ASSUME NEW k \in GoodConn, NEW s \in GuestSegments, NEW c \in Conn, NEW sent \in Nat,
         NEW rcv \in Seq(Conn \X Nat), NEW eof \in BOOLEAN, NEW q \in Seq(Segments),
         Flow(c, k, sent, rcv, eof, q),
         Counts(k, s), s.ackn = Wire(Seq0 + Len(rcv) + One(eof)),
         \/ k.lastAck = k.seq /\ k.seq < W
         \/ k.lastAck = Undefined /\ k.seq = Seq0 /\ rcv = <<>> /\ ~eof
  PROVE  /\ Flow(c, Acked(k, s), sent, rcv, eof, q)
         /\ Acked(k, s).lastAck = Acked(k, s).seq /\ Acked(k, s).seq < W
         /\ NewlyAcked(k, s) > 0 => Quiet(q) /\ ~Acked(k, s).pending
<1> DEFINE a == Acked(k, s)
           n == NewlyAcked(k, s)
           l == Len(rcv)
           b == Base(k, sent)
           e == One(eof)
<1>1. s.ackn = Seq0 + l + e /\ s.ackn < W /\ n = Seq0 + l + e - k.seq
  BY AckCount DEF Flow
<1>2. /\ k.seq \in Nat /\ l \in Nat /\ b \in Nat /\ e \in {0, 1} /\ Seq0 \in Nat
      /\ k.buf \in Seq(Conn \X Nat) /\ Len(k.buf) \in Nat /\ b = sent - Len(k.buf)
  BY DEF Flow, Stream, GoodConn, ConnType, One, Seq0, Base
<1>3. /\ eof => e = 1 /\ l = b /\ FinSent(k)
      /\ ~eof => e = 0
      /\ l = b \/ (k.pending /\ l > b /\ l <= sent)
      /\ k.seq = Seq0 + b \/ (eof /\ k.seq = Seq0 + b + 1)
  BY DEF Flow, Stream, One
<1>4. /\ a.lastAck = s.ackn /\ a.active = k.active /\ a.delayed = k.delayed
      /\ n > 0 => a.buf = Drop(k.buf, n) /\ a.seq = k.seq + n /\ ~a.pending
      /\ ~(n > 0) => a.buf = k.buf /\ a.seq = k.seq /\ a.pending = k.pending
  BY AckedIs
<1>5. n >= 0 /\ n \in Nat
  BY AckedGood DEF Counts
<1>6. a.seq = s.ackn
  <2> HIDE DEF a, n, l, e
  <2> QED
    BY <1>1, <1>2, <1>4, <1>5
<1>7. CASE ~(n > 0)
  <2>1. FinSent(k) => FinSent(a)
    BY <1>4, <1>7 DEF FinSent
  <2> HIDE DEF a, n
  <2>2. Flow(c, a, sent, rcv, eof, q)
    BY <1>4, <1>7, <2>1, SameFlow
  <2> QED
    BY <1>1, <1>4, <1>6, <1>7, <2>2 DEF a, n
<1>8. CASE n > 0
  <2>1. eof \/ l > b
    <3>1. CASE ~eof
      <4>1. e = 0 /\ k.seq = Seq0 + b /\ (l = b \/ l > b)
        BY <1>3, <3>1
      <4> DEFINE x == k.seq
      <4>2. n = Seq0 + l + e - x /\ x = Seq0 + b /\ n > 0
        BY <1>1, <1>8, <4>1
      <4>3. l \in Nat /\ b \in Nat /\ Seq0 \in Nat
        BY <1>2
      <4> HIDE DEF n, l, b, e, x
      <4> QED
        BY <4>1, <4>2, <4>3
    <3> QED
      BY <3>1
  <2>2. Quiet(q)
    BY <1>2, <2>1, NothingOut DEF Flow
  <2>3. Stream(c, a, sent, rcv, eof)
    <3>1. CASE eof
      <4>1. a.buf = <<>> /\ ~a.pending /\ k.buf = <<>>
        BY <1>2, <1>3, <1>4, <1>5, <1>8, <3>1, DropType DEF FinSent
      <4>2. FinSent(a) /\ Base(a, sent) = b
        BY <1>3, <1>4, <3>1, <4>1 DEF FinSent, Base
      <4>3. a.seq = Seq0 + b + 1
        BY <1>1, <1>2, <1>3, <1>6, <3>1
      <4> HIDE DEF a
      <4> QED
        BY <1>3, <3>1, <4>1, <4>2, <4>3 DEF Flow, Stream
    <3>2. CASE ~eof
      <4>1. n = l - b /\ l > b /\ n <= Len(k.buf) /\ k.seq = Seq0 + b
        <5>1. e = 0 /\ k.seq = Seq0 + b /\ l > b /\ l <= sent
          <6>1. e = 0 /\ k.seq = Seq0 + b /\ l > b
            BY <1>3, <2>1, <3>2
          <6> QED
            BY <1>2, <1>3, <6>1
        <5> DEFINE old == Len(k.buf)
                   x == k.seq
        <5>2. /\ old \in Nat /\ b = sent - old /\ n = Seq0 + l + e - x
              /\ x = Seq0 + b /\ l \in Nat /\ b \in Nat /\ Seq0 \in Nat
          BY <1>1, <1>2, <5>1
        <5>4. e = 0 /\ l <= sent
          BY <5>1
        <5> HIDE DEF n, l, b, e, old, x
        <5>3. n = l - b /\ n <= old
          BY <5>2, <5>4
        <5> QED
          BY <5>1, <5>3 DEF old
      <4>2. /\ Len(a.buf) = Len(k.buf) - n
            /\ \A i \in 1 .. Len(k.buf) - n : a.buf[i] = k.buf[n + i]
        <5> HIDE DEF n, a
        <5> QED
          <6>1. a.buf = Drop(k.buf, n) /\ n \in Nat /\ n <= Len(k.buf) /\ k.buf \in Seq(Conn \X Nat)
            BY <1>2, <1>4, <1>5, <1>8, <4>1
          <6> QED
            BY <6>1, DropIs
      <4>3. Base(a, sent) = l
        <5> DEFINE new == Len(a.buf)
                   old == Len(k.buf)
        <5>1. new = old - n /\ old \in Nat /\ b = sent - old /\ n = l - b
          BY <1>2, <4>1, <4>2
        <5> HIDE DEF new, old, n, l, b
        <5>2. sent - new = l
          BY <1>2, <5>1
        <5>3. Base(a, sent) = sent - Len(a.buf)
          BY DEF Base
        <5> QED
          BY <5>2, <5>3 DEF new
      <4>4. \A i \in 1 .. Len(a.buf) : a.buf[i] = <<c, l + i>>
        <5>1. \A i \in 1 .. Len(k.buf) : k.buf[i] = <<c, b + i>>
          BY DEF Flow, Stream
        <5> SUFFICES ASSUME NEW i \in 1 .. Len(a.buf)
                     PROVE  a.buf[i] = <<c, l + i>>
          OBVIOUS
        <5> HIDE DEF a, n, l, b
        <5>2. i \in 1 .. Len(k.buf) - n /\ n + i \in 1 .. Len(k.buf)
          BY <1>2, <1>5, <4>1, <4>2
        <5>3. b + (n + i) = l + i
          <6>1. i \in Nat /\ l \in Nat /\ b \in Nat /\ n = l - b
            BY <1>2, <4>1, <5>2
          <6> QED
            BY <6>1
        <5> QED
          BY <4>2, <5>1, <5>2, <5>3
      <4>5. a.seq = Seq0 + l
        BY <1>1, <1>2, <1>3, <1>6, <3>2
      <4>6. ~a.pending
        BY <1>4, <1>8
      <4>7. \A i \in 1 .. l : rcv[i] = <<c, i>>
        BY DEF Flow, Stream
      <4> HIDE DEF a
      <4> QED
        BY <1>2, <3>2, <4>3, <4>4, <4>5, <4>6, <4>7 DEF Stream
    <3> QED
      BY <3>1, <3>2
  <2>4. Frames(c, a, sent, rcv, eof, q)
    BY <2>2, QuietFrames
  <2> QED
    BY <1>1, <1>4, <1>6, <1>8, <2>2, <2>3, <2>4 DEF Flow
<1> QED
  BY <1>7, <1>8

\* The guest takes a frame that begins with the next number.
LEMMA TakeFlow ==
  ASSUME NEW c \in Conn, NEW k \in GoodConn, NEW sent \in Nat, NEW rcv \in Seq(Conn \X Nat),
         NEW eof \in BOOLEAN, NEW q \in Seq(Segments), q # <<>>,
         Flow(c, k, sent, rcv, eof, q),
         NEW new, new = (IF eof THEN rcv ELSE rcv \o Head(q).bytes),
         NEW end \in BOOLEAN, end <=> eof \/ "fin" \in Head(q).flags
  PROVE  Flow(c, k, sent, new, end, Tail(q))
<1> DEFINE f == Head(q)
           t == Tail(q)
<1>1. f \in Segments /\ f.bytes \in Seq(Conn \X Nat)
  <2>1. f \in Segments
    BY HeadTailProperties
  <2> QED
    BY <2>1 DEF Segments
<1>2. /\ Frames(c, k, sent, rcv, eof, t)
      /\ Carries(f) => NextFrame(c, k, sent, rcv, eof, f) /\ Quiet(t)
  BY FramesTail DEF Flow
<1> HIDE DEF f, t
<1>3. CASE ~Carries(f)
  <2>1. f.bytes = <<>> /\ "fin" \notin f.flags
    BY <1>3 DEF Carries
  <2>2. rcv \o <<>> = rcv
    BY ConcatEmptySeq
  <2>3. new = rcv
    BY <2>1, <2>2 DEF f
  <2>4. end = eof
    BY <2>1 DEF f
  <2> QED
    BY <1>2, <2>3, <2>4 DEF Flow, t
<1>4. CASE Carries(f)
  <2>1. ~eof /\ Len(rcv) = Base(k, sent) /\ k.seq = Seq0 + Base(k, sent)
    BY <1>2, <1>4 DEF NextFrame, Flow, Stream
  <2>2. new = rcv \o f.bytes
    BY <2>1 DEF f
  <2>3. Frames(c, k, sent, new, end, t)
    BY <1>2, <1>4, QuietFrames
  <2>4. Stream(c, k, sent, new, end)
    <3>1. CASE f.bytes = <<>> /\ FinSent(k)
      <4>1. rcv \o <<>> = rcv
        BY ConcatEmptySeq
      <4>2. new = rcv
        BY <2>2, <3>1, <4>1
      <4> QED
        BY <2>1, <3>1, <4>2 DEF Flow, Stream
    <3>2. CASE /\ "fin" \notin f.flags /\ k.pending
               /\ Len(f.bytes) <= ChunkSize /\ Len(f.bytes) <= Len(k.buf)
               /\ \A j \in 1 .. Len(f.bytes) : f.bytes[j] = <<c, Len(rcv) + j>>
      <4> DEFINE l == Len(rcv)
                 n == Len(f.bytes)
                 m == Len(k.buf)
      <4>1. ~end
        BY <2>1, <3>2 DEF f
      <4>2. /\ l \in Nat /\ n \in Nat /\ m \in Nat /\ n <= m /\ n <= ChunkSize
            /\ l = Base(k, sent) /\ Base(k, sent) = sent - m
        BY <1>1, <2>1, <3>2 DEF GoodConn, ConnType, Base
      <4>3. /\ Len(new) = l + n
            /\ \A i \in 1 .. l + n : new[i] = IF i <= l THEN rcv[i] ELSE f.bytes[i - l]
        BY <1>1, <2>2, ConcatProperties
      <4>4. \A i \in 1 .. Len(new) : new[i] = <<c, i>>
        <5>1. \A i \in 1 .. l : rcv[i] = <<c, i>>
          BY DEF Flow, Stream
        <5>2. \A j \in 1 .. n : f.bytes[j] = <<c, l + j>>
          BY <3>2
        <5> HIDE DEF l, n
        <5> SUFFICES ASSUME NEW i \in 1 .. l + n
                     PROVE  new[i] = <<c, i>>
          BY <4>3
        <5>3. CASE i <= l
          <6>1. i \in 1 .. l
            BY <4>2, <5>3
          <6> QED
            BY <4>3, <5>1, <5>3, <6>1
        <5>4. CASE ~(i <= l)
          <6>1. i - l \in 1 .. n /\ l + (i - l) = i
            <7>1. l \in Nat /\ n \in Nat
              BY <4>2
            <7> QED
              BY <5>4, <7>1
          <6> QED
            BY <4>3, <5>2, <5>4, <6>1
        <5> QED
          BY <5>3, <5>4
      <4>5. Len(new) = Base(k, sent) \/ (Len(new) > Base(k, sent)
              /\ Len(new) - Base(k, sent) <= ChunkSize /\ Len(new) <= sent)
        <5> DEFINE b == Base(k, sent)
                   x == Len(new)
        <5>1. /\ x = b + n /\ b \in Nat /\ n \in Nat /\ n <= ChunkSize /\ ChunkSize \in Nat
              /\ m \in Nat /\ n <= m /\ b = sent - m
          <6>1. b = l /\ x = l + n
            BY <4>2, <4>3
          <6>2. ChunkSize \in Nat
            BY FakeTcpAssumption
          <6>3. l \in Nat /\ n \in Nat /\ m \in Nat /\ n <= m /\ n <= ChunkSize /\ b = sent - m
            BY <4>2
          <6> HIDE DEF l, n, m, b, x
          <6> QED
            BY <6>1, <6>2, <6>3
        <5> HIDE DEF l, n, m, b, x
        <5>2. x = b \/ (x > b /\ x - b <= ChunkSize /\ x <= sent)
          BY <5>1
        <5> QED
          BY <5>2 DEF b, x
      <4> HIDE DEF l, n, m
      <4> QED
        BY <2>1, <3>2, <4>1, <4>4, <4>5 DEF Flow, Stream
    <3> QED
      BY <1>2, <1>4, <3>1, <3>2 DEF NextFrame
  <2> QED
    BY <2>3, <2>4 DEF Flow, t
<1> QED
  BY <1>3, <1>4

-----------------------------------------------------------------------------
(* The steps of a connection, as they change its stream.                   *)

\* An answer without a FIN carries nothing.
LEMMA QuietReply ==
  ASSUME NEW k \in GoodConn, NEW flags \in SUBSET {"syn", "ack", "rst", "psh"}
  PROVE  Reply(k, flags) \in Segments /\ ~Carries(Reply(k, flags))
<1>1. k.seq \in Int /\ k.ack \in Int /\ <<>> \in Seq(Conn \X Nat)
  BY DEF GoodConn, ConnType
<1>2. Reply(k, flags) \in Segments
  BY <1>1, SegmentType DEF Reply
<1>3. Reply(k, flags).flags = flags /\ Reply(k, flags).bytes = <<>>
  BY DEF Reply, Segment
<1> QED
  BY <1>2, <1>3 DEF Carries

\* A connection becomes k, with an answer that carries nothing or without one.
LEMMA BecomesFlow ==
  ASSUME AdapterInv, NEW c \in Conn, NEW k \in GoodConn, NEW sent \in Nat,
         NEW rcv \in Seq(Conn \X Nat), NEW eof \in BOOLEAN,
         Flow(c, k, sent, rcv, eof, toGuest),
         NEW segments,
         segments = <<>> \/ \E f \in Segments : segments = <<f>> /\ ~Carries(f),
         Becomes(c, k, segments) \/ Returns(c, k, segments)
  PROVE  Flow(c, conn'[c], sent, rcv, eof, toGuest')
<1> DEFINE q == toGuest \o segments
<1>1. conn \in [Conn -> GoodConn] /\ toGuest \in Seq(Segments)
  BY DEF AdapterInv
<1>2. q \in Seq(Segments) /\ Flow(c, k, sent, rcv, eof, q)
  <2>1. CASE segments = <<>>
    <3>1. toGuest \o <<>> = toGuest
      BY <1>1, ConcatEmptySeq
    <3> QED
      BY <1>1, <2>1, <3>1
  <2>2. CASE \E f \in Segments : segments = <<f>> /\ ~Carries(f)
    <3>1. PICK f \in Segments : segments = <<f>> /\ ~Carries(f)
      BY <2>2
    <3>2. Append(toGuest, f) = toGuest \o <<f>> /\ Append(toGuest, f) \in Seq(Segments)
      BY <1>1, AppendIsConcat, AppendProperties
    <3>3. Frames(c, k, sent, rcv, eof, Append(toGuest, f))
      BY <1>1, <3>1, FramesAppend DEF Flow
    <3> QED
      BY <3>1, <3>2, <3>3 DEF Flow
  <2> QED
    BY <2>1, <2>2
<1>3. CASE Becomes(c, k, segments)
  <2>1. conn'[c] = Pump(k) /\ toGuest' = q \o Pumped(k)
    BY <1>1, <1>3 DEF Becomes
  <2>2. Flow(c, Pump(k), sent, rcv, eof, q \o Pumped(k))
    <3> HIDE DEF q
    <3> QED
      BY <1>2, PumpFlow
  <2> QED
    BY <2>1, <2>2
<1>4. CASE Returns(c, k, segments)
  <2>1. conn'[c] = k /\ toGuest' = q
    BY <1>1, <1>4 DEF Returns
  <2> QED
    BY <1>2, <2>1
<1> QED
  BY <1>3, <1>4

\* And what it has counted.
LEMMA BecomesCounts ==
  ASSUME conn \in [Conn -> GoodConn], NEW c \in Conn, NEW k \in GoodConn, NEW segments,
         Becomes(c, k, segments) \/ Returns(c, k, segments)
  PROVE  conn'[c].seq = k.seq /\ conn'[c].lastAck = k.lastAck
<1>1. Pump(k).seq = k.seq /\ Pump(k).lastAck = k.lastAck
  BY DEF Pump, GoodConn, ConnType
<1>2. conn' = [conn EXCEPT ![c] = Pump(k)] \/ conn' = [conn EXCEPT ![c] = k]
  BY DEF Becomes, Returns
<1> QED
  BY <1>1, <1>2

\* close lets what is in the buffer go first.
LEMMA CloseFlow ==
  ASSUME AdapterInv, NEW c \in Conn, Close(c), NEW sent \in Nat,
         NEW rcv \in Seq(Conn \X Nat), NEW eof \in BOOLEAN,
         Flow(c, conn[c], sent, rcv, eof, toGuest)
  PROVE  /\ Flow(c, conn'[c], sent, rcv, eof, toGuest')
         /\ conn'[c].seq = conn[c].seq /\ conn'[c].lastAck = conn[c].lastAck
<1> DEFINE k == [conn[c] EXCEPT !.active = TRUE]
           next == IF k.state = "established" THEN "fin-wait-1" ELSE "last-ack"
<1>1. /\ conn \in [Conn -> GoodConn] /\ conn[c] \in GoodConn /\ toGuest \in Seq(Segments)
      /\ conn[c].delayed # "none" => conn[c].active
  BY DEF AdapterInv, GoodConn
<1>2. /\ k \in GoodConn /\ k.active /\ k.buf = conn[c].buf /\ k.pending = conn[c].pending
      /\ k.seq = conn[c].seq /\ k.lastAck = conn[c].lastAck /\ k.delayed = conn[c].delayed
  BY <1>1 DEF GoodConn, ConnType
<1>3. next \in {"fin-wait-1", "last-ack"}
  OBVIOUS
<1>4. \/ Becomes(c, k, <<>>) \/ Returns(c, k, <<>>)
      \/ /\ k.buf # <<>> \/ k.pending
         /\ Becomes(c, [k EXCEPT !.delayed = next], <<>>)
      \/ /\ ~conn[c].active /\ k.buf = <<>> /\ ~k.pending
         /\ Becomes(c, [k EXCEPT !.state = next], <<Reply(k, {"ack", "fin"})>>)
  BY DEF Close
<1> HIDE DEF k, next
<1>5. Flow(c, k, sent, rcv, eof, toGuest)
  <2>1. FinSent(conn[c]) => FinSent(k)
    BY <1>2 DEF FinSent
  <2> QED
    BY <1>2, <2>1, SameFlow
<1>6. CASE Becomes(c, k, <<>>) \/ Returns(c, k, <<>>)
  <2>1. Flow(c, conn'[c], sent, rcv, eof, toGuest')
    BY <1>2, <1>5, <1>6, BecomesFlow
  <2>2. conn'[c].seq = k.seq /\ conn'[c].lastAck = k.lastAck
    BY <1>1, <1>2, <1>5, <1>6, BecomesCounts
  <2> QED
    BY <1>2, <2>1, <2>2
<1>7. CASE /\ k.buf # <<>> \/ k.pending
           /\ Becomes(c, [k EXCEPT !.delayed = next], <<>>)
  <2> DEFINE m == [k EXCEPT !.delayed = next]
  <2>1. /\ m \in GoodConn /\ m.buf = k.buf /\ m.pending = k.pending /\ m.seq = k.seq
        /\ m.lastAck = k.lastAck
    BY <1>2, <1>3 DEF GoodConn, ConnType
  <2>2. ~FinSent(k)
    BY <1>5, <1>7 DEF FinSent, Flow, Stream
  <2>3. Becomes(c, m, <<>>)
    BY <1>7
  <2> HIDE DEF m
  <2>4. Flow(c, m, sent, rcv, eof, toGuest)
    BY <1>5, <2>1, <2>2, SameFlow
  <2> QED
    <3>1. Flow(c, conn'[c], sent, rcv, eof, toGuest')
      BY <1>2, <2>1, <2>3, <2>4, BecomesFlow
    <3>2. conn'[c].seq = m.seq /\ conn'[c].lastAck = m.lastAck
      BY <1>1, <1>2, <2>1, <2>3, <2>4, BecomesCounts
    <3> QED
      BY <1>2, <2>1, <3>1, <3>2
<1>8. CASE /\ ~conn[c].active /\ k.buf = <<>> /\ ~k.pending
           /\ Becomes(c, [k EXCEPT !.state = next], <<Reply(k, {"ack", "fin"})>>)
  <2> DEFINE m == [k EXCEPT !.state = next]
             q == toGuest \o <<Reply(k, {"ack", "fin"})>>
  <2>1. /\ m \in GoodConn /\ m.buf = k.buf /\ m.pending = k.pending /\ m.seq = k.seq
        /\ m.lastAck = k.lastAck /\ m.active /\ m.delayed = k.delayed
    BY <1>2, <1>3, <1>8 DEF GoodConn, ConnType, States, FinStates
  <2>2. conn' = [conn EXCEPT ![c] = Pump(m)] /\ toGuest' = q \o Pumped(m)
    BY <1>8 DEF Becomes
  <2> HIDE DEF m
  <2>3. ~FinSent(conn[c]) /\ ~conn[c].pending
    BY <1>2, <1>8 DEF FinSent
  <2>4. Quiet(toGuest) /\ ~eof
    BY <2>3, NothingOut DEF Flow, Stream
  <2>5. FinSent(m)
    BY <1>1, <1>2, <1>8, <2>1 DEF FinSent
  <2>6. Flow(c, m, sent, rcv, eof, q)
    BY <1>1, <1>2, <1>5, <1>8, <2>1, <2>4, <2>5, FinFlow
  <2>7. Pump(m) = m /\ Pumped(m) = <<>>
    BY <1>8, <2>1 DEF Pump, Pumped, Sends
  <2>8. q \in Seq(Segments)
    <3>1. <<Reply(k, {"ack", "fin"})>> \in Seq(Segments)
      BY <1>2, ReplyType
    <3> QED
      BY <1>1, <3>1, ConcatProperties
  <2>9. q \o <<>> = q
    BY <2>8, ConcatEmptySeq
  <2> HIDE DEF q
  <2> QED
    BY <1>1, <1>2, <2>1, <2>2, <2>6, <2>7, <2>9
<1> QED
  BY <1>4, <1>6, <1>7, <1>8

\* A released connection keeps its stream.
LEMMA ReleasedFlow ==
  ASSUME NEW c \in Conn, NEW k \in GoodConn, NEW sent, NEW rcv, NEW eof, NEW q,
         Flow(c, k, sent, rcv, eof, q)
  PROVE  Released(k) \in GoodConn /\ Flow(c, Released(k), sent, rcv, eof, q)
<1>1. /\ Released(k).buf = k.buf /\ Released(k).pending = k.pending
      /\ Released(k).seq = k.seq /\ Released(k).active = k.active
      /\ Released(k).delayed = k.delayed
  BY DEF Released, GoodConn, ConnType
<1>2. FinSent(k) => FinSent(Released(k))
  BY <1>1 DEF FinSent
<1> QED
  BY <1>1, <1>2, SameFlow, ReleasedGood

\* Every path through TCPConnection.process keeps the stream, and counts what
\* the guest acknowledges or ends the connection.
LEMMA ProcessFlow ==
  ASSUME AdapterInv, EnvInv, NEW c \in Conn, c = tcp_conn, NEW s \in GuestSegments,
         Process(c, s), NEW sent \in Nat, NEW rcv \in Seq(Conn \X Nat), NEW eof \in BOOLEAN,
         Flow(c, conn[c], sent, rcv, eof, toGuest),
         "ack" \in s.flags => s.ackn = Wire(Seq0 + Len(rcv) + One(eof)),
         \/ conn[c].lastAck = conn[c].seq /\ conn[c].seq < W
         \/ conn[c].lastAck = Undefined /\ conn[c].seq = Seq0 /\ rcv = <<>> /\ ~eof
  PROVE  /\ Flow(c, conn'[c], sent, rcv, eof, toGuest')
         /\ tcp_conn' = NoConn \/ (conn'[c].lastAck = conn'[c].seq /\ conn'[c].seq < W)
<1> DEFINE a == Acked(conn[c], s)
<1>1. /\ conn \in [Conn -> GoodConn] /\ conn[c] \in GoodConn /\ toGuest \in Seq(Segments)
      /\ conn[c].delayed # "none" => conn[c].active
      /\ c # NoConn
  BY FakeTcpAssumption DEF AdapterInv, GoodConn
<1>2. ASSUME NEW k \in GoodConn, Flow(c, k, sent, rcv, eof, toGuest)
      PROVE  Released(k) \in GoodConn /\ Flow(c, Released(k), sent, rcv, eof, toGuest)
  BY <1>2, ReleasedFlow
<1>3. ASSUME Counts(conn[c], s)
      PROVE  /\ a \in GoodConn /\ Flow(c, a, sent, rcv, eof, toGuest)
             /\ a.lastAck = a.seq /\ a.seq < W
             /\ NewlyAcked(conn[c], s) > 0 => Quiet(toGuest) /\ ~a.pending
  <2>1. s.ackn = Wire(Seq0 + Len(rcv) + One(eof))
    BY <1>3 DEF Counts
  <2> QED
    BY <1>1, <1>3, <2>1, AckedGood, AckFlow
<1>4. CASE ProcessReset(c, s) \/ ProcessLastAck(c, s)
  <2>1. Returns(c, Released(conn[c]), <<>>) /\ tcp_conn' = NoConn
    BY <1>4 DEF ProcessReset, ProcessLastAck
  <2>2. Released(conn[c]) \in GoodConn /\ Flow(c, Released(conn[c]), sent, rcv, eof, toGuest)
    BY <1>1, <1>2
  <2> QED
    BY <2>1, <2>2, BecomesFlow, BecomesCounts
<1>5. CASE ProcessUnderflow(c, s)
  <2> DEFINE f == Reply(conn[c], {"rst"})
  <2>1. Returns(c, Released(conn[c]), <<f>>) /\ tcp_conn' = NoConn
    BY <1>5 DEF ProcessUnderflow
  <2>2. Released(conn[c]) \in GoodConn /\ Flow(c, Released(conn[c]), sent, rcv, eof, toGuest)
    BY <1>1, <1>2
  <2>3. f \in Segments /\ ~Carries(f)
    BY <1>1, QuietReply
  <2> HIDE DEF f
  <2> QED
    BY <2>1, <2>2, <2>3, BecomesFlow, BecomesCounts
<1>6. CASE ProcessDelayedFin(c, s)
  <2> DEFINE m == [a EXCEPT !.state = conn[c].delayed, !.delayed = "none"]
  <2>1. /\ Counts(conn[c], s) /\ FinIsDue(conn[c], s)
        /\ Returns(c, m, <<Reply(m, {"ack", "fin"})>>)
    BY <1>6 DEF ProcessDelayedFin
  <2>2. /\ conn[c].active /\ conn[c].delayed \in {"fin-wait-1", "last-ack"} /\ a.buf = <<>>
        /\ NewlyAcked(conn[c], s) > 0
    BY <1>1, <2>1 DEF FinIsDue, GoodConn, ConnType
  <2>3. /\ a \in GoodConn /\ Flow(c, a, sent, rcv, eof, toGuest) /\ a.active
        /\ a.lastAck = a.seq /\ a.seq < W /\ Quiet(toGuest) /\ ~a.pending
    BY <1>1, <1>3, <2>1, <2>2, AckedKeeps
  <2>4. ~eof
    BY <2>2 DEF Flow, Stream, FinSent
  <2> HIDE DEF a
  <2>5. /\ m \in GoodConn /\ m.buf = a.buf /\ m.pending = a.pending /\ m.seq = a.seq
        /\ m.ack = a.ack /\ m.lastAck = a.lastAck /\ FinSent(m)
    BY <2>2, <2>3 DEF GoodConn, ConnType, States, FinStates, FinSent
  <2> HIDE DEF m
  <2>6. Reply(m, {"ack", "fin"}) = Reply(a, {"ack", "fin"})
    BY <2>5 DEF Reply
  <2>7. Flow(c, m, sent, rcv, eof, toGuest \o <<Reply(a, {"ack", "fin"})>>)
    BY <1>1, <2>3, <2>4, <2>5, FinFlow
  <2>8. conn'[c] = m /\ toGuest' = toGuest \o <<Reply(m, {"ack", "fin"})>>
    BY <1>1, <2>1 DEF Returns
  <2> QED
    BY <2>3, <2>5, <2>6, <2>7, <2>8
<1>7. CASE ProcessFin(c, s)
  <2> DEFINE k == [a EXCEPT !.ack = a.ack + 1]
             f == Reply(k, {"ack"})
             g == Reply(k, {"rst"})
  <2>1. Counts(conn[c], s)
    BY <1>7 DEF ProcessFin
  <2>2. \/ Becomes(c, [k EXCEPT !.state = "close-wait"], <<f>>) /\ k.state = "established"
        \/ Becomes(c, Released(k), <<f>>) /\ tcp_conn' = NoConn
        \/ Becomes(c, Released(k), <<g>>) /\ tcp_conn' = NoConn
    BY <1>7 DEF ProcessFin
  <2>3. /\ a \in GoodConn /\ Flow(c, a, sent, rcv, eof, toGuest)
        /\ a.lastAck = a.seq /\ a.seq < W
    BY <1>3, <2>1
  <2> HIDE DEF a
  <2>4. /\ k \in GoodConn /\ k.buf = a.buf /\ k.pending = a.pending /\ k.seq = a.seq
        /\ k.lastAck = a.lastAck /\ k.active = a.active /\ k.delayed = a.delayed
    <3>1. k \in GoodConn
      BY <2>3, AckGrows
    <3> QED
      BY <2>3, <3>1 DEF GoodConn, ConnType
  <2>5. /\ f \in Segments /\ ~Carries(f)
        /\ g \in Segments /\ ~Carries(g)
    <3> HIDE DEF k
    <3> QED
      BY <2>4, QuietReply
  <2> HIDE DEF k, f, g
  <2>6. FinSent(a) => FinSent(k)
    BY <2>4 DEF FinSent
  <2>7. Flow(c, k, sent, rcv, eof, toGuest)
    BY <2>3, <2>4, <2>6, SameFlow
  <2>8. CASE Becomes(c, [k EXCEPT !.state = "close-wait"], <<f>>) /\ k.state = "established"
    <3> DEFINE m == [k EXCEPT !.state = "close-wait"]
    <3>1. /\ m \in GoodConn /\ m.buf = k.buf /\ m.pending = k.pending /\ m.seq = k.seq
          /\ m.lastAck = k.lastAck /\ m.active = k.active /\ m.delayed = k.delayed
      BY <2>4, <2>8 DEF GoodConn, ConnType, States, FinStates
    <3>2. Becomes(c, m, <<f>>)
      BY <2>8
    <3> HIDE DEF m
    <3>3. FinSent(k) => FinSent(m)
      BY <3>1 DEF FinSent
    <3>4. Flow(c, m, sent, rcv, eof, toGuest)
      BY <2>7, <3>1, <3>3, SameFlow
    <3>5. /\ Flow(c, conn'[c], sent, rcv, eof, toGuest')
          /\ conn'[c].seq = m.seq /\ conn'[c].lastAck = m.lastAck
      <4>1. Flow(c, conn'[c], sent, rcv, eof, toGuest')
        BY <2>5, <3>1, <3>2, <3>4, BecomesFlow
      <4>2. conn'[c].seq = m.seq /\ conn'[c].lastAck = m.lastAck
        BY <1>1, <2>5, <3>1, <3>2, <3>4, BecomesCounts
      <4> QED
        BY <4>1, <4>2
    <3> QED
      BY <2>3, <2>4, <3>1, <3>5
  <2>9. CASE (Becomes(c, Released(k), <<f>>) \/ Becomes(c, Released(k), <<g>>))
             /\ tcp_conn' = NoConn
    <3>1. Released(k) \in GoodConn /\ Flow(c, Released(k), sent, rcv, eof, toGuest)
      BY <1>2, <2>4, <2>7
    <3> QED
      BY <2>5, <2>9, <3>1, BecomesFlow, BecomesCounts
  <2> QED
    BY <2>2, <2>8, <2>9
<1>8. CASE ProcessWrongSeq(c, s)
  <2> DEFINE f == Reply(a, {"ack"})
  <2>1. Counts(conn[c], s) /\ Becomes(c, a, <<f>>)
    BY <1>8 DEF ProcessWrongSeq
  <2>2. /\ a \in GoodConn /\ Flow(c, a, sent, rcv, eof, toGuest)
        /\ a.lastAck = a.seq /\ a.seq < W
    BY <1>3, <2>1
  <2> HIDE DEF a
  <2>3. f \in Segments /\ ~Carries(f)
    BY <2>2, QuietReply
  <2> HIDE DEF f
  <2>4. /\ Flow(c, conn'[c], sent, rcv, eof, toGuest')
        /\ conn'[c].seq = a.seq /\ conn'[c].lastAck = a.lastAck
    <3>1. Flow(c, conn'[c], sent, rcv, eof, toGuest')
      BY <2>1, <2>2, <2>3, BecomesFlow
    <3>2. conn'[c].seq = a.seq /\ conn'[c].lastAck = a.lastAck
      BY <1>1, <2>1, <2>2, <2>3, BecomesCounts
    <3> QED
      BY <3>1, <3>2
  <2> QED
    BY <2>2, <2>4
<1>9. CASE ProcessData(c, s)
  <2> DEFINE n == Len(s.bytes)
             k == [a EXCEPT !.ack = a.ack + n]
             f == Reply(k, {"ack"})
  <2>1. Counts(conn[c], s) /\ Becomes(c, k, <<f>>)
    BY <1>9 DEF ProcessData
  <2>2. /\ a \in GoodConn /\ Flow(c, a, sent, rcv, eof, toGuest)
        /\ a.lastAck = a.seq /\ a.seq < W /\ n \in Nat
    BY <1>3, <2>1 DEF GuestSegments
  <2> HIDE DEF a, n
  <2>3. /\ k \in GoodConn /\ k.buf = a.buf /\ k.pending = a.pending /\ k.seq = a.seq
        /\ k.lastAck = a.lastAck /\ k.active = a.active /\ k.delayed = a.delayed
    <3>1. k \in GoodConn
      BY <2>2, AckGrows
    <3> QED
      BY <2>2, <3>1 DEF GoodConn, ConnType
  <2> HIDE DEF k
  <2>4. f \in Segments /\ ~Carries(f)
    BY <2>3, QuietReply
  <2> HIDE DEF f
  <2>5. FinSent(a) => FinSent(k)
    BY <2>3 DEF FinSent
  <2>6. Flow(c, k, sent, rcv, eof, toGuest)
    BY <2>2, <2>3, <2>5, SameFlow
  <2>7. /\ Flow(c, conn'[c], sent, rcv, eof, toGuest')
        /\ conn'[c].seq = k.seq /\ conn'[c].lastAck = k.lastAck
    <3>1. Flow(c, conn'[c], sent, rcv, eof, toGuest')
      BY <2>1, <2>3, <2>4, <2>6, BecomesFlow
    <3>2. conn'[c].seq = k.seq /\ conn'[c].lastAck = k.lastAck
      BY <1>1, <2>1, <2>3, <2>4, <2>6, BecomesCounts
    <3> QED
      BY <3>1, <3>2
  <2> QED
    BY <2>2, <2>3, <2>7
<1>10. CASE ProcessAck(c, s)
  <2>1. Counts(conn[c], s) /\ Becomes(c, a, <<>>)
    BY <1>10 DEF ProcessAck
  <2>2. /\ a \in GoodConn /\ Flow(c, a, sent, rcv, eof, toGuest)
        /\ a.lastAck = a.seq /\ a.seq < W
    BY <1>3, <2>1
  <2> HIDE DEF a
  <2>3. /\ Flow(c, conn'[c], sent, rcv, eof, toGuest')
        /\ conn'[c].seq = a.seq /\ conn'[c].lastAck = a.lastAck
    <3>1. Flow(c, conn'[c], sent, rcv, eof, toGuest')
      BY <2>1, <2>2, BecomesFlow
    <3>2. conn'[c].seq = a.seq /\ conn'[c].lastAck = a.lastAck
      BY <1>1, <2>1, <2>2, BecomesCounts
    <3> QED
      BY <3>1, <3>2
  <2> QED
    BY <2>2, <2>3
<1> QED
  BY <1>4, <1>5, <1>6, <1>7, <1>8, <1>9, <1>10 DEF Process

-----------------------------------------------------------------------------
(* A history with one SYN: the streams of its connection.                  *)

\* The stream of connection c.
Flows(c) == Flow(c, conn[c], hostSent[c], received, guest.eof, toGuest)

\* The guest has neither received nor sent anything.
Untouched == received = <<>> /\ ~guest.eof /\ guest.snd = 0 /\ ~guest.fin /\ ~guest.ackDue

\* The host's bytes of connection c are in order on their way, and while it is
\* in the table what the guest acknowledges is counted.
HostFlow(c) ==
  /\ Flows(c)
  /\ tcp_conn = c =>
       \/ conn[c].lastAck = conn[c].seq /\ conn[c].seq < W
       \/ /\ conn[c].lastAck = Undefined /\ conn[c].seq = Seq0
          /\ guest.st \in {"syn-sent", "acking"}
  /\ guest.st \in {"syn-sent", "acking"} => Untouched

\* An open socket has been given all that the guest has sent, and so has one
\* that was ended by the guest's FIN.
GuestFlow(c) ==
  /\ sock[c] = "open" =>
       /\ tcp_conn = c /\ conn[c].state = "established" /\ ~guest.fin
       /\ NoWrap => Len(written[c]) = guest.snd
  /\ sock[c] = "shut" => conn[c].state # "established"
  /\ sock[c] = "shut" /\ conn[c].state = "close-wait" =>
       /\ guest.fin
       /\ guest.finAlone /\ NoWrap => Len(written[c]) = guest.snd

\* The one SYN was not sent, waits for its socket, or was accepted.
Idle ==
  /\ guest.st = "closed" /\ Untouched /\ toGuest = <<>> /\ tcp_conn = NoConn
  /\ \A c \in Conn : sock[c] = "none"

Waiting(c) ==
  /\ sock[c] = "connecting" \/ (sock[c] = "failed" /\ crashed)
  /\ guest.st = "syn-sent" /\ Untouched /\ toGuest = <<>> /\ tcp_conn = NoConn
  /\ conn[c] = [NewConn EXCEPT !.state = "syn-received"]
  /\ hostSent[c] = 0 /\ written[c] = <<>>

Accepted(c) ==
  /\ sock[c] \notin {"none", "connecting"} /\ guest.st # "closed"
  /\ tcp_conn \in {c, NoConn}
  /\ HostFlow(c) /\ GuestFlow(c)

Alone(c) == \A d \in Conn \ {c} : sock[d] = "none"

SoloInv == Single => Idle \/ \E c \in Conn : Alone(c) /\ (Waiting(c) \/ Accepted(c))

\* Only a socket that exists has events.
LEMMA SocketHas ==
  ASSUME NEW c \in Conn, Socket(c)
  PROVE  sock[c] # "none"
BY DEF Socket, Connected, Refused, HostData, HostEnd, SocketClosed, SocketError, Readable

\* A second SYN stays on record.
LEMMA SingleBefore ==
  ASSUME EnvInv, Next, Single'
  PROVE  Single
<1>1. CASE GuestSends
  <2>1. PICK s \in GuestSegments : Speaks(s) \/ Resets(s) \/ Connects(s)
    BY <1>1, GuestSendsThese
  <2> QED
    BY <2>1 DEF Single, Speaks, Resets, Connects
<1>2. CASE \E c \in Conn : Socket(c)
  BY <1>2 DEF Socket, Connected, Refused, HostData, HostEnd, SocketClosed, SocketError,
              Mishap, Single
<1>3. CASE GuestReceive \/ LoseFrame
  BY <1>3 DEF GuestReceive, LoseFrame, Mishap, Single
<1> QED
  BY <1>1, <1>2, <1>3 DEF Next, Guest, GuestSends

\* The types of what the stream of a connection depends on.
LEMMA FlowTypes ==
  ASSUME AdapterInv, EnvInv, NEW c \in Conn
  PROVE  /\ conn \in [Conn -> GoodConn] /\ conn[c] \in GoodConn
         /\ hostSent \in [Conn -> 0 .. MaxHost] /\ hostSent[c] \in Nat
         /\ received \in Seq(Conn \X Nat) /\ guest.eof \in BOOLEAN
         /\ toGuest \in Seq(Segments) /\ sock \in [Conn -> SockStates]
         /\ c # NoConn
  BY FakeTcpAssumption DEF AdapterInv, EnvInv

\* One more byte of the host.
LEMMA DataAccepted ==
  ASSUME AdapterInv, EnvInv, OpenInv, NEW c \in Conn, Accepted(c), HostData(c)
  PROVE  Accepted(c)'
<1> DEFINE sent == hostSent[c]
           k == [conn[c] EXCEPT !.buf = Append(conn[c].buf, <<c, sent + 1>>)]
<1>1. /\ conn \in [Conn -> GoodConn] /\ conn[c] \in GoodConn
      /\ hostSent \in [Conn -> 0 .. MaxHost] /\ sent \in Nat
      /\ received \in Seq(Conn \X Nat) /\ guest.eof \in BOOLEAN
      /\ toGuest \in Seq(Segments)
  BY FlowTypes
<1>2. /\ ~conn[c].active /\ hostSent'[c] = sent + 1
      /\ UNCHANGED <<tcp_conn, sock, written, guest, received>>
  BY <1>1 DEF HostData, OpenInv
<1>3. Becomes(c, k, <<>>)
  BY <1>2 DEF HostData
<1>4. /\ k \in GoodConn /\ k.state = conn[c].state /\ k.seq = conn[c].seq
      /\ k.lastAck = conn[c].lastAck
  <2> DEFINE byte == <<c, sent + 1>>
             buf == Append(conn[c].buf, byte)
  <2>1. buf \in Seq(Conn \X Nat)
    <3>1. byte \in Conn \X Nat
      BY <1>1
    <3>2. conn[c].buf \in Seq(Conn \X Nat)
      BY <1>1 DEF GoodConn, ConnType
    <3> QED
      BY <3>1, <3>2, AppendProperties
  <2>2. k = [conn[c] EXCEPT !.buf = buf]
    OBVIOUS
  <2> HIDE DEF k, buf
  <2> QED
    BY <1>1, <1>2, <2>1, <2>2 DEF GoodConn, ConnType
<1>5. Flow(c, k, sent + 1, received, guest.eof, toGuest)
  <2>1. Flow(c, conn[c], sent, received, guest.eof, toGuest)
    BY DEF Accepted, HostFlow, Flows
  <2> QED
    BY <1>1, <1>2, <2>1, HostFlowGrows
<1>6. sent + 1 \in Nat
  BY <1>1
<1> HIDE DEF k, sent
<1>7. Flow(c, conn'[c], sent + 1, received, guest.eof, toGuest')
  <2> DEFINE n == sent + 1
  <2>1. n \in Nat /\ Flow(c, k, n, received, guest.eof, toGuest)
    BY <1>5, <1>6
  <2> HIDE DEF n
  <2>2. Flow(c, conn'[c], n, received, guest.eof, toGuest')
    BY <1>1, <1>3, <1>4, <2>1, BecomesFlow
  <2> QED
    BY <2>2 DEF n
<1>8. /\ conn'[c].seq = k.seq /\ conn'[c].lastAck = k.lastAck
  BY <1>1, <1>3, <1>4, BecomesCounts
<1>9. conn'[c].state = k.state
  BY <1>1, <1>3, <1>4, BecomesKeeps
<1>10. Flows(c)'
  BY <1>2, <1>7 DEF Flows
<1> QED
  BY <1>2, <1>4, <1>8, <1>9, <1>10 DEF Accepted, HostFlow, GuestFlow, Untouched, NoWrap

\* The socket ends or fails: what is in the buffer still goes.
LEMMA EndAccepted ==
  ASSUME AdapterInv, EnvInv, NEW c \in Conn, Accepted(c),
         HostEnd(c) \/ SocketClosed(c) \/ SocketError(c)
  PROVE  Accepted(c)'
<1>1. /\ conn \in [Conn -> GoodConn] /\ conn[c] \in GoodConn /\ hostSent[c] \in Nat
      /\ received \in Seq(Conn \X Nat) /\ guest.eof \in BOOLEAN
      /\ toGuest \in Seq(Segments) /\ sock \in [Conn -> SockStates] /\ c # NoConn
  BY FlowTypes
<1>2. /\ sock'[c] \in {"failed", "ending", "closed"}
      /\ UNCHANGED <<hostSent, written, guest, received>>
  BY <1>1 DEF HostEnd, SocketClosed, SocketError
<1>3. Flow(c, conn[c], hostSent[c], received, guest.eof, toGuest)
  BY DEF Accepted, HostFlow, Flows
<1>4. \/ UNCHANGED <<tcp_conn, conn, toGuest>>
      \/ Close(c)
      \/ Returns(c, Released(conn[c]), <<>>) /\ tcp_conn' = NoConn
  BY DEF HostEnd, SocketClosed, SocketError
<1>5. /\ Flow(c, conn'[c], hostSent[c], received, guest.eof, toGuest')
      /\ tcp_conn' = NoConn
         \/ /\ tcp_conn' = tcp_conn /\ conn'[c].seq = conn[c].seq
            /\ conn'[c].lastAck = conn[c].lastAck
  <2>1. CASE UNCHANGED <<tcp_conn, conn, toGuest>>
    BY <1>3, <2>1
  <2>2. CASE Close(c)
    <3>1. tcp_conn' = NoConn \/ tcp_conn' = tcp_conn
      BY <2>2 DEF Close
    <3> QED
      BY <1>1, <1>3, <2>2, <3>1, CloseFlow
  <2>3. CASE Returns(c, Released(conn[c]), <<>>) /\ tcp_conn' = NoConn
    <3> DEFINE k == Released(conn[c])
    <3>1. k \in GoodConn /\ Flow(c, k, hostSent[c], received, guest.eof, toGuest)
      BY <1>1, <1>3, ReleasedFlow
    <3>2. Returns(c, k, <<>>)
      BY <2>3
    <3> HIDE DEF k
    <3> QED
      BY <1>1, <2>3, <3>1, <3>2, BecomesFlow
  <2> QED
    BY <1>4, <2>1, <2>2, <2>3
<1>6. Flows(c)'
  BY <1>2, <1>5 DEF Flows
<1>7. HostFlow(c)'
  BY <1>1, <1>2, <1>5, <1>6 DEF Accepted, HostFlow, Untouched
<1>8. GuestFlow(c)'
  BY <1>2 DEF GuestFlow
<1> QED
  BY <1>2, <1>5, <1>7, <1>8 DEF Accepted

\* What the guest sends changes nothing of what its host has sent it: the
\* adapter counts the acknowledgement or ends the connection, or answers that
\* there is none.
LEMMA DeliverFlow ==
  ASSUME AdapterInv, EnvInv, NEW c \in Conn, HostFlow(c), tcp_conn \in {c, NoConn},
         NEW s \in GuestSegments, Deliver(s), "syn" \notin s.flags,
         "ack" \in s.flags => s.ackn = Wire(RcvNxt)
  PROVE  /\ Flow(c, conn'[c], hostSent[c], received, guest.eof, toGuest')
         /\ \/ tcp_conn' = NoConn
            \/ /\ tcp_conn' = c /\ conn'[c].lastAck = conn'[c].seq /\ conn'[c].seq < W
<1>1. /\ conn \in [Conn -> GoodConn] /\ conn[c] \in GoodConn /\ hostSent[c] \in Nat
      /\ received \in Seq(Conn \X Nat) /\ guest.eof \in BOOLEAN
      /\ toGuest \in Seq(Segments) /\ c # NoConn
  BY FlowTypes
<1>2. Flow(c, conn[c], hostSent[c], received, guest.eof, toGuest)
  BY DEF HostFlow, Flows
<1>3. CASE tcp_conn = NoConn
  <2>1. ResetUnknown(s)
    BY <1>3, FakeTcpAssumption DEF Deliver, OpenConnection
  <2> DEFINE m == IF "fin" \in s.flags THEN s.ackn + 1 ELSE s.ackn
             f == Segment({"rst"}, m, s.seq, <<>>)
  <2>2. /\ toGuest' = Append(toGuest, f) /\ UNCHANGED <<tcp_conn, conn>>
    BY <2>1 DEF ResetUnknown
  <2>3. m \in Int /\ s.seq \in Int /\ <<>> \in Seq(Conn \X Nat)
    BY DEF GuestSegments
  <2>4. f \in Segments /\ ~Carries(f)
    <3> HIDE DEF m
    <3>1. f \in Segments
      BY <2>3, SegmentType
    <3>2. f.flags = {"rst"} /\ f.bytes = <<>>
      BY DEF Segment
    <3> QED
      BY <3>1, <3>2 DEF Carries
  <2> HIDE DEF f
  <2>5. Flow(c, conn[c], hostSent[c], received, guest.eof, Append(toGuest, f))
    BY <1>1, <1>2, <2>4, FramesAppend DEF Flow
  <2> QED
    BY <1>3, <2>2, <2>5
<1>4. CASE tcp_conn = c
  <2>1. Process(c, s)
    BY <1>1, <1>4 DEF Deliver, OpenConnection, ResetUnknown
  <2>2. tcp_conn' = NoConn \/ tcp_conn' = c
    BY <1>4, <2>1 DEF Process, ProcessReset, ProcessLastAck, ProcessDelayedFin,
         ProcessUnderflow, ProcessFin, ProcessWrongSeq, ProcessData, ProcessAck
  <2>3. "ack" \in s.flags => s.ackn = Wire(Seq0 + Len(received) + One(guest.eof))
    BY DEF RcvNxt
  <2>4. \/ conn[c].lastAck = conn[c].seq /\ conn[c].seq < W
        \/ /\ conn[c].lastAck = Undefined /\ conn[c].seq = Seq0
           /\ received = <<>> /\ ~guest.eof
    BY <1>4 DEF HostFlow, Untouched
  <2>5. /\ Flow(c, conn'[c], hostSent[c], received, guest.eof, toGuest')
        /\ tcp_conn' = NoConn \/ (conn'[c].lastAck = conn'[c].seq /\ conn'[c].seq < W)
    BY <1>1, <1>2, <1>4, <2>1, <2>3, <2>4, ProcessFlow
  <2> QED
    BY <2>2, <2>5
<1> QED
  BY <1>3, <1>4

\* A segment of the guest's stream, delivered to an open socket.
LEMMA OpenGiven ==
  ASSUME AdapterInv, EnvInv, OpenInv, EnvInv', NEW c \in Conn, GuestFlow(c), sock[c] = "open",
         guest'.isn = guest.isn, ~conn[c].active, NoWrap,
         NEW s, NEW from \in Nat, NEW n \in Nat, Told(s, from, n, FALSE),
         \/ /\ written'[c] = written[c] \o s.bytes /\ conn[c].ack = s.seq
         \/ /\ written'[c] = written[c]
            /\ conn[c].ack # s.seq \/ s.bytes = <<>>
  PROVE  Len(written'[c]) = guest'.snd
<1> DEFINE l == Len(written[c])
           isn == guest.isn
           snd == guest.snd
           snd2 == guest'.snd
           seq == s.seq
           ack == conn[c].ack
<1>1. /\ l \in Nat /\ isn \in Nat /\ snd \in Nat /\ snd2 \in Nat /\ MaxGuest \in Nat
      /\ snd <= MaxGuest /\ snd2 <= MaxGuest /\ W \in Nat /\ isn + 1 + MaxGuest < W
      /\ written[c] \in Seq(Nat)
  <2>1. /\ guest \in GuestType /\ guest' \in GuestType /\ isn \in Nat
    BY GuestNumbers DEF EnvInv, GuestType
  <2>2. snd \in 0 .. MaxGuest /\ snd2 \in 0 .. MaxGuest
    BY <2>1 DEF GuestType
  <2>3. MaxGuest \in Nat /\ W \in Nat
    BY FakeTcpAssumption
  <2> QED
    BY <2>1, <2>2, <2>3, WrittenType DEF NoWrap
<1>2. l = snd /\ ack = isn + 1 + l
  BY DEF GuestFlow, OpenInv
<1>3. /\ seq = Wire(isn + 1 + from) /\ Len(s.bytes) = n /\ s.bytes \in Seq(Nat)
  BY ToldIs
<1>4. \/ snd2 = snd /\ (n = 0 \/ from < snd)
      \/ snd2 = snd + n /\ from = snd /\ n > 0
  BY DEF Told
<1>5. from <= MaxGuest => seq = isn + 1 + from
  <2> SUFFICES ASSUME from <= MaxGuest
               PROVE  seq = isn + 1 + from
    OBVIOUS
  <2> DEFINE m == isn + 1 + from
  <2>1. m \in Nat /\ m < W
    BY <1>1
  <2> HIDE DEF m
  <2>2. Wire(m) = m
    <3>1. m < W + W
      BY <1>1, <2>1
    <3> QED
      BY <1>1, <2>1, <3>1, WireOnce
  <2> QED
    BY <1>3, <2>2 DEF m
<1>6. Len(written[c] \o s.bytes) = l + n
  BY <1>1, <1>3, ConcatProperties
<1>7. CASE /\ written'[c] = written[c] \o s.bytes /\ ack = seq
  <2>1. Len(written'[c]) = l + n
    BY <1>6, <1>7
  <2> HIDE DEF l, isn, snd, snd2, seq, ack
  <2>2. l + n = snd2
    BY <1>1, <1>2, <1>4, <1>5, <1>7
  <2> QED
    BY <2>1, <2>2 DEF snd2
<1>8. CASE /\ written'[c] = written[c] /\ (ack # seq \/ s.bytes = <<>>)
  <2>1. Len(written'[c]) = l /\ (s.bytes = <<>> => n = 0)
    BY <1>3, <1>8
  <2>2. ack # seq \/ n = 0
    BY <1>8, <2>1
  <2> HIDE DEF l, isn, snd, snd2, seq, ack
  <2>3. l = snd2
    BY <1>1, <1>2, <1>4, <1>5, <2>2
  <2> QED
    BY <2>1, <2>3 DEF snd2
<1> QED
  BY <1>7, <1>8

\* What the guest sends reaches an open socket, and a FIN that ends one comes
\* when the socket has the rest.
LEMMA DeliverGiven ==
  ASSUME AdapterInv, EnvInv, OpenInv, EnvInv', NEW c \in Conn, GuestFlow(c),
         tcp_conn \in {c, NoConn}, guest'.isn = guest.isn,
         NEW s \in GuestSegments, Deliver(s), Speaks(s) \/ Resets(s), "syn" \notin s.flags
  PROVE  GuestFlow(c)'
<1>1. /\ c # NoConn /\ (NoWrap' <=> NoWrap)
  BY FlowTypes DEF NoWrap
<1>2. guest.fin => /\ guest'.fin = guest.fin /\ guest'.finAlone = guest.finAlone
                   /\ guest'.snd = guest.snd
  <2>1. guest.fin \in BOOLEAN /\ guest'.fin \in BOOLEAN
    BY GuestNumbers DEF EnvInv, GuestType
  <2> QED
    BY <2>1 DEF Speaks, Resets, Told
\* A socket that is shut and stays as it is.
<1>3. ASSUME sock[c] = "shut", conn'[c].state = conn[c].state, written'[c] = written[c]
      PROVE  /\ conn'[c].state # "established"
             /\ conn'[c].state = "close-wait" =>
                  /\ guest'.fin
                  /\ guest'.finAlone /\ NoWrap => Len(written'[c]) = guest'.snd
  BY <1>2, <1>3 DEF GuestFlow
<1>4. CASE UNCHANGED <<tcp_conn, conn, sock, written>> /\ tcp_conn = NoConn
  BY <1>1, <1>3, <1>4 DEF GuestFlow
<1>5. CASE tcp_conn = c /\ Settled(c, s)
  <2>1. CASE conn[c].active
    BY <1>5, <2>1 DEF OpenInv, Settled, Readable, GuestFlow
  <2>2. CASE ~conn[c].active
    <3>1. ASSUME sock'[c] = "open"
          PROVE  /\ tcp_conn' = c /\ conn'[c].state = "established" /\ ~guest'.fin
                 /\ NoWrap => Len(written'[c]) = guest'.snd
      <4>1. /\ sock[c] = "open" /\ tcp_conn' = c /\ conn'[c].state = conn[c].state
            /\ "ack" \in s.flags /\ "fin" \notin s.flags
            /\ \/ /\ written'[c] = written[c] \o s.bytes /\ conn[c].ack = s.seq
               \/ /\ written'[c] = written[c]
                  /\ conn[c].ack # s.seq \/ s.bytes = <<>>
        BY <1>5, <2>2, <3>1 DEF Settled
      <4>2. PICK from \in Nat, n \in Nat, fin \in BOOLEAN : Told(s, from, n, fin)
        BY <4>1 DEF Speaks, Resets
      <4>3. fin = FALSE
        BY <4>1, <4>2, ToldIs
      <4>4. Told(s, from, n, FALSE)
        BY <4>2, <4>3
      <4>5. ~guest'.fin
        BY <4>1, <4>4 DEF Told, GuestFlow
      <4>6. NoWrap => Len(written'[c]) = guest'.snd
        BY <2>2, <4>1, <4>4, OpenGiven
      <4> QED
        BY <4>1, <4>5, <4>6 DEF GuestFlow
    <3>2. ASSUME sock'[c] = "shut"
          PROVE  /\ conn'[c].state # "established"
                 /\ conn'[c].state = "close-wait" =>
                      /\ guest'.fin
                      /\ guest'.finAlone /\ NoWrap => Len(written'[c]) = guest'.snd
      <4>1. CASE conn'[c].state = "closed"
        BY <4>1
      <4>2. CASE /\ conn[c].state = "established" /\ conn'[c].state = "close-wait"
                 /\ "fin" \in s.flags /\ written'[c] = written[c]
        <5>1. sock[c] = "open"
          BY <1>5, <3>2, <4>2 DEF Settled, GuestFlow
        <5>6. Speaks(s)
          <6>1. s.flags # {"rst"}
            BY <4>2
          <6> QED
            BY <6>1 DEF Resets
        <5>2. PICK from \in Nat, n \in Nat, fin \in BOOLEAN : Told(s, from, n, fin)
          BY <5>6 DEF Speaks
        <5>3. fin = TRUE
          BY <4>2, <5>2, ToldIs
        <5>4. Told(s, from, n, TRUE)
          BY <5>2, <5>3
        <5>5. /\ guest'.fin
              /\ guest'.finAlone => guest'.snd = guest.snd
          BY <5>1, <5>4 DEF Told, GuestFlow
        <5> QED
          BY <4>2, <5>1, <5>5 DEF GuestFlow
      <4>3. CASE /\ sock[c] = "shut" /\ conn'[c].state = conn[c].state
                 /\ written'[c] = written[c]
        BY <1>3, <4>3
      <4> QED
        BY <1>5, <2>2, <3>2, <4>1, <4>2, <4>3 DEF Settled
    <3> QED
      BY <1>1, <3>1, <3>2 DEF GuestFlow
  <2> QED
    BY <2>1, <2>2
<1>6. \/ UNCHANGED <<tcp_conn, conn, sock, written>> /\ tcp_conn = NoConn
      \/ tcp_conn \in Conn /\ Settled(tcp_conn, s)
  BY DeliverCases
<1>7. tcp_conn \in Conn => tcp_conn = c
  BY FakeTcpAssumption
<1>8. CASE tcp_conn \in Conn /\ Settled(tcp_conn, s)
  <2>1. tcp_conn = c
    BY <1>7, <1>8
  <2>2. Settled(c, s)
    BY <1>8, <2>1
  <2> QED
    BY <1>5, <2>1, <2>2
<1> QED
  BY <1>4, <1>6, <1>8

\* The guest sends on its connection.
LEMMA SendAccepted ==
  ASSUME AdapterInv, EnvInv, OpenInv, EnvInv', NEW c \in Conn, Alone(c), Accepted(c),
         GuestSends, Single'
  PROVE  Alone(c)' /\ Accepted(c)'
<1>1. /\ UNCHANGED <<hostSent, received>> /\ guest'.isn = guest.isn
      /\ guest'.eof = guest.eof
  BY GuestSendsThese
<1>2. PICK s \in GuestSegments : Deliver(s) /\ (Speaks(s) \/ Resets(s) \/ Connects(s))
  BY GuestSendsThese
<1>3. ~Connects(s)
  BY DEF Connects, Accepted, Single
<1>4. /\ "syn" \notin s.flags
      /\ "ack" \in s.flags => s.ackn = Wire(RcvNxt)
  <2>1. CASE Speaks(s)
    <3>1. PICK from \in Nat, n \in Nat, fin \in BOOLEAN : Told(s, from, n, fin)
      BY <2>1 DEF Speaks
    <3> QED
      BY <3>1, ToldIs
  <2>2. CASE Resets(s)
    BY <2>2 DEF Resets
  <2> QED
    BY <1>2, <1>3, <2>1, <2>2
<1>5. tcp_conn \in {c, NoConn} /\ HostFlow(c) /\ GuestFlow(c) /\ c # NoConn
  BY FakeTcpAssumption DEF Accepted
<1>6. guest'.st \notin {"closed", "syn-sent", "acking"}
  <2>1. CASE Speaks(s)
    BY <2>1 DEF Speaks, Accepted, HostFlow, Untouched
  <2>2. CASE Resets(s)
    BY <2>2 DEF Resets
  <2> QED
    BY <1>2, <1>3, <2>1, <2>2
<1>7. /\ Flow(c, conn'[c], hostSent[c], received, guest.eof, toGuest')
      /\ \/ tcp_conn' = NoConn
         \/ /\ tcp_conn' = c /\ conn'[c].lastAck = conn'[c].seq /\ conn'[c].seq < W
  BY <1>2, <1>4, <1>5, DeliverFlow
<1>8. Flows(c)'
  BY <1>1, <1>7 DEF Flows
<1>9. HostFlow(c)'
  BY <1>5, <1>6, <1>7, <1>8 DEF HostFlow
<1>10. GuestFlow(c)'
  BY <1>1, <1>2, <1>3, <1>4, <1>5, DeliverGiven
<1>11. /\ \A d \in Conn \ {c} : sock'[d] = sock[d]
       /\ sock'[c] \notin {"none", "connecting"}
  <2>1. \/ UNCHANGED sock
        \/ tcp_conn \in Conn /\ Settled(tcp_conn, s) /\ Others(tcp_conn)
    BY <1>2, <1>4, DeliverCases
  <2>2. CASE tcp_conn \in Conn /\ Settled(tcp_conn, s) /\ Others(tcp_conn)
    <3>1. tcp_conn = c
      BY <1>5, <2>2, FakeTcpAssumption
    <3>2. Settled(c, s) /\ Others(c)
      BY <2>2, <3>1
    <3> QED
      BY <3>2 DEF Settled, Others, Accepted
  <2> QED
    BY <2>1, <2>2 DEF Accepted
<1> QED
  BY <1>6, <1>7, <1>9, <1>10, <1>11 DEF Alone, Accepted

\* The guest takes a frame.
LEMMA TakeAccepted ==
  ASSUME AdapterInv, EnvInv, EnvInv', NEW c \in Conn, Accepted(c), GuestReceive
  PROVE  Accepted(c)'
<1>1. /\ conn[c] \in GoodConn /\ hostSent[c] \in Nat
      /\ received \in Seq(Conn \X Nat) /\ guest.eof \in BOOLEAN
      /\ toGuest \in Seq(Segments)
  BY FlowTypes
<1>2. /\ toGuest # <<>> /\ toGuest' = Tail(toGuest) /\ Taken(Head(toGuest))
      /\ UNCHANGED <<tcp_conn, conn, sock, written, hostSent, mishaps>>
  BY DEF GuestReceive, adapter
<1>3. /\ guest'.isn = guest.isn /\ guest'.snd = guest.snd /\ guest'.fin = guest.fin
      /\ guest'.finAlone = guest.finAlone
  BY ReceiveKeeps
<1>4. guest \in GuestType /\ guest' \in GuestType
  BY DEF EnvInv, GuestType
<1>5. Flow(c, conn[c], hostSent[c], received, guest.eof, toGuest)
  BY DEF Accepted, HostFlow, Flows
<1>6. Flow(c, conn[c], hostSent[c], received, guest.eof, Tail(toGuest))
  BY <1>1, <1>2, <1>5, FramesTail DEF Flow
<1>7. /\ Flow(c, conn[c], hostSent[c], received', guest'.eof, Tail(toGuest))
      /\ guest'.st # "closed"
      /\ guest'.st \in {"syn-sent", "acking"} =>
           /\ guest.st = "syn-sent" /\ received' = received /\ guest'.eof = guest.eof
           /\ guest'.ackDue = guest.ackDue
  <2> DEFINE f == Head(toGuest)
  <2>1. CASE /\ guest.st = "syn-sent" /\ UNCHANGED received
             /\ guest' = IF {"syn", "ack"} \subseteq f.flags
                         THEN [guest EXCEPT !.st = "acking"] ELSE guest
    <3>1. /\ guest'.st \in {"syn-sent", "acking"} /\ guest'.eof = guest.eof
          /\ guest'.ackDue = guest.ackDue
      BY <1>4, <2>1 DEF GuestType
    <3> QED
      BY <1>6, <2>1, <3>1
  <2>2. CASE /\ guest.st = "open" /\ UNCHANGED received /\ guest'.eof = guest.eof
             /\ guest'.st \in {"open", "reset"}
    BY <1>6, <2>2
  <2>3. CASE /\ guest.st = "open"
             /\ guest' = [guest EXCEPT !.una = AckedBy(f), !.eof = guest.eof \/ "fin" \in f.flags,
                             !.ackDue = guest.ackDue \/ f.bytes # <<>> \/ "fin" \in f.flags]
             /\ received' = IF guest.eof THEN received ELSE received \o f.bytes
    <3> DEFINE end == guest'.eof
               new == received'
               eof == guest.eof
               k == conn[c]
               sent == hostSent[c]
    <3>1. guest'.st = "open" /\ (end <=> guest.eof \/ "fin" \in f.flags) /\ end \in BOOLEAN
      BY <1>4, <2>3 DEF GuestType
    <3>2. new = IF eof THEN received ELSE received \o Head(toGuest).bytes
      BY <2>3
    <3>3. /\ k \in GoodConn /\ sent \in Nat /\ eof \in BOOLEAN
          /\ received \in Seq(Conn \X Nat) /\ toGuest \in Seq(Segments) /\ toGuest # <<>>
          /\ Flow(c, k, sent, received, eof, toGuest)
      BY <1>1, <1>2, <1>5
    <3>4. end \in BOOLEAN /\ (end <=> eof \/ "fin" \in Head(toGuest).flags)
      BY <3>1
    <3> HIDE DEF end, new, eof, k, sent, f
    <3>5. Flow(c, k, sent, new, end, Tail(toGuest))
      BY <3>2, <3>3, <3>4, TakeFlow
    <3> QED
      BY <3>1, <3>5 DEF end, new, eof, k, sent
  <2>4. CASE /\ guest.st = "reset" /\ UNCHANGED received
             /\ guest' = IF "rst" \in f.flags THEN guest ELSE [guest EXCEPT !.st = "resetting"]
    <3>1. guest'.st \in {"reset", "resetting"} /\ guest'.eof = guest.eof
      BY <1>4, <2>4 DEF GuestType
    <3> QED
      BY <1>6, <2>4, <3>1
  <2>5. \/ /\ guest.st = "open" /\ UNCHANGED received
           /\ \/ guest' = [guest EXCEPT !.st = "reset", !.ackDue = FALSE]
              \/ guest' = [guest EXCEPT !.ackDue = TRUE]
              \/ guest' = [guest EXCEPT !.ackDue = TRUE, !.una = AckedBy(f)]
        \/ /\ guest.st = "syn-sent" /\ UNCHANGED received
           /\ guest' = IF {"syn", "ack"} \subseteq f.flags
                       THEN [guest EXCEPT !.st = "acking"] ELSE guest
        \/ /\ guest.st = "open"
           /\ guest' = [guest EXCEPT !.una = AckedBy(f), !.eof = guest.eof \/ "fin" \in f.flags,
                           !.ackDue = guest.ackDue \/ f.bytes # <<>> \/ "fin" \in f.flags]
           /\ received' = IF guest.eof THEN received ELSE received \o f.bytes
        \/ /\ guest.st = "reset" /\ UNCHANGED received
           /\ guest' = IF "rst" \in f.flags THEN guest ELSE [guest EXCEPT !.st = "resetting"]
    BY <1>2 DEF Taken
  <2>6. CASE /\ guest.st = "open" /\ UNCHANGED received
             /\ \/ guest' = [guest EXCEPT !.st = "reset", !.ackDue = FALSE]
                \/ guest' = [guest EXCEPT !.ackDue = TRUE]
                \/ guest' = [guest EXCEPT !.ackDue = TRUE, !.una = AckedBy(f)]
    <3>1. guest'.eof = guest.eof /\ guest'.st \in {"open", "reset"}
      BY <1>4, <2>6 DEF GuestType
    <3> QED
      BY <2>2, <2>6, <3>1
  <2> QED
    BY <2>1, <2>3, <2>4, <2>5, <2>6
<1>8. Flows(c)'
  BY <1>2, <1>7 DEF Flows
<1>9. guest.st \in {"syn-sent", "acking"} /\ guest'.st \in {"syn-sent", "acking"} => Untouched'
  BY <1>3, <1>7 DEF Accepted, HostFlow, Untouched
<1>10. HostFlow(c)'
  <2>1. tcp_conn = c /\ guest'.st \notin {"syn-sent", "acking"} =>
          \/ conn[c].lastAck = conn[c].seq /\ conn[c].seq < W
          \/ guest.st = "syn-sent" \/ guest.st = "acking"
    BY DEF Accepted, HostFlow
  <2>2. guest.st \in {"syn-sent", "acking"} => guest'.st \in {"syn-sent", "acking"}
    BY <1>2, <1>4 DEF Taken, GuestType
  <2>3. guest'.st \in {"syn-sent", "acking"} => Untouched'
    BY <1>7, <1>9
  <2> QED
    BY <1>2, <1>8, <2>1, <2>2, <2>3 DEF Accepted, HostFlow
<1>11. GuestFlow(c)'
  BY <1>2, <1>3 DEF Accepted, GuestFlow, NoWrap
<1> QED
  BY <1>2, <1>7, <1>10, <1>11 DEF Accepted

\* A frame is lost.
LEMMA LossAccepted ==
  ASSUME AdapterInv, EnvInv, NEW c \in Conn, Accepted(c), LoseFrame
  PROVE  Accepted(c)'
<1>1. /\ toGuest # <<>> /\ toGuest' = Tail(toGuest) /\ toGuest \in Seq(Segments)
      /\ UNCHANGED <<tcp_conn, conn, sock, written, hostSent, guest, received>>
  BY DEF LoseFrame, adapter, AdapterInv
<1>2. Flow(c, conn[c], hostSent[c], received, guest.eof, Tail(toGuest))
  BY <1>1, FramesTail DEF Accepted, HostFlow, Flows, Flow
<1>3. Flows(c)'
  BY <1>1, <1>2 DEF Flows
<1> QED
  BY <1>1, <1>3 DEF Accepted, HostFlow, GuestFlow, Untouched, NoWrap

\* The guest sends its SYN.
LEMMA IdleNext ==
  ASSUME AdapterInv, EnvInv, OpenInv, OpenInv', Idle, Next
  PROVE  \E c \in Conn : Alone(c)' /\ Waiting(c)'
<1>1. GuestSends
  BY SocketHas DEF Next, Guest, GuestSends, GuestReceive, LoseFrame, Idle
<1>2. /\ UNCHANGED <<hostSent, received>> /\ guest'.isn = guest.isn
      /\ guest'.eof = guest.eof
  BY <1>1, GuestSendsThese
<1>3. PICK s \in GuestSegments : Deliver(s) /\ (Speaks(s) \/ Resets(s) \/ Connects(s))
  BY <1>1, GuestSendsThese
<1>4. /\ "syn" \in s.flags /\ guest' = [guest EXCEPT !.st = "syn-sent"]
  BY <1>3 DEF Speaks, Resets, Connects, Idle, Untouched
<1>5. /\ guest'.st = "syn-sent" /\ Untouched'
  <2>1. guest \in GuestType
    BY DEF EnvInv, GuestType
  <2> QED
    BY <1>2, <1>4, <2>1 DEF GuestType, Idle, Untouched
<1>6. PICK c \in Conn : /\ sock[c] = "none" /\ sock' = [sock EXCEPT ![c] = "connecting"]
                        /\ conn' = [conn EXCEPT ![c] = [NewConn EXCEPT !.state = "syn-received"]]
                        /\ UNCHANGED <<tcp_conn, written, toGuest>>
  BY <1>3, <1>4, DeliverCases
<1>7. /\ sock'[c] = "connecting" /\ \A d \in Conn \ {c} : sock'[d] = "none"
      /\ conn'[c] = [NewConn EXCEPT !.state = "syn-received"]
  BY <1>6, FlowTypes DEF Idle
<1>8. hostSent'[c] = 0 /\ written'[c] = <<>>
  BY <1>7 DEF OpenInv
<1> QED
  BY <1>5, <1>6, <1>7, <1>8 DEF Alone, Waiting, Idle

\* The connection of an accepted SYN has nothing on its way.
LEMMA ConnectedAccepted ==
  ASSUME AdapterInv, EnvInv, EnvInv', NEW c \in Conn, Waiting(c), Connected(c)
  PROVE  Accepted(c)'
<1> DEFINE ack == guest.isn + 1
           m == [NewConn EXCEPT !.state = "syn-received"]
           k == [m EXCEPT !.state = "established", !.seq = Seq0, !.ack = ack]
           f == Segment({"syn", "ack"}, Seq0 - 1, ack, <<>>)
<1>1. /\ conn \in [Conn -> GoodConn] /\ sock \in [Conn -> SockStates] /\ c # NoConn
  BY FlowTypes
<1>2. /\ sock' = [sock EXCEPT ![c] = "open"] /\ tcp_conn' = c
      /\ conn' = [conn EXCEPT ![c] = k] /\ toGuest' = Append(toGuest, f)
      /\ UNCHANGED <<hostSent, written, guest, received>>
  BY DEF Connected, Waiting
<1>3. /\ k.state = "established" /\ k.seq = Seq0 /\ k.lastAck = Undefined /\ k.buf = <<>>
      /\ ~k.pending
  BY DEF NewConn
<1>4. toGuest' \in Seq(Segments) /\ ~Carries(f) /\ f \in Segments
  <2>1. ack \in Int /\ Seq0 - 1 \in Int /\ <<>> \in Seq(Conn \X Nat)
    BY GuestNumbers DEF EnvInv, GuestType, Seq0
  <2>2. f.flags = {"syn", "ack"} /\ f.bytes = <<>>
    BY DEF Segment
  <2> HIDE DEF ack
  <2>3. f \in Segments
    BY <2>1, SegmentType
  <2>4. toGuest \in Seq(Segments)
    BY DEF AdapterInv
  <2> QED
    BY <1>2, <2>2, <2>3, <2>4, AppendProperties DEF Carries
<1> HIDE DEF k, f
<1>5. Flow(c, k, 0, <<>>, FALSE, toGuest')
  <2>1. Base(k, 0) = 0 /\ Len(<<>>) = 0
    <3>1. Len(<<>>) = 0
      OBVIOUS
    <3>2. Len(k.buf) = 0
      BY <1>3, <3>1
    <3> QED
      BY <3>1, <3>2 DEF Base
  <2>2. Stream(c, k, 0, <<>>, FALSE)
    BY <1>3, <2>1 DEF Stream, Seq0
  <2>3. Frames(c, k, 0, <<>>, FALSE, toGuest)
    BY DEF Waiting, Frames
  <2>4. Frames(c, k, 0, <<>>, FALSE, toGuest')
    <3>1. toGuest \in Seq(Segments)
      BY DEF AdapterInv
    <3> QED
      BY <1>2, <1>4, <2>3, <3>1, FramesAppend
  <2> QED
    BY <2>2, <2>4 DEF Flow
<1>6. /\ conn'[c] = k /\ sock'[c] = "open"
      /\ hostSent'[c] = 0 /\ written'[c] = <<>> /\ guest'.st = "syn-sent"
      /\ received' = <<>> /\ guest'.snd = 0 /\ ~guest'.fin /\ Untouched'
  BY <1>1, <1>2 DEF Waiting, Untouched
<1>7. guest'.eof = FALSE
  <2>1. guest'.eof \in BOOLEAN
    BY DEF EnvInv
  <2> QED
    BY <1>6, <2>1 DEF Untouched
<1>8. Flows(c)'
  BY <1>5, <1>6, <1>7 DEF Flows
<1>9. HostFlow(c)'
  BY <1>3, <1>6, <1>8 DEF HostFlow
<1>10. GuestFlow(c)'
  BY <1>2, <1>3, <1>6 DEF GuestFlow
<1> QED
  BY <1>2, <1>6, <1>9, <1>10 DEF Accepted

\* The socket of the SYN connects, or its host refuses it.
LEMMA WaitingNext ==
  ASSUME AdapterInv, EnvInv, EnvInv', NEW c \in Conn, Alone(c), Waiting(c), Next, Single'
  PROVE  Alone(c)' /\ (Waiting(c)' \/ Accepted(c)')
<1>1. sock \in [Conn -> SockStates] /\ conn \in [Conn -> GoodConn]
  BY FlowTypes
<1>2. sock[c] = "connecting" /\ ~crashed
  BY DEF Next, Waiting
<1>3. ~GuestReceive /\ ~LoseFrame
  BY DEF GuestReceive, LoseFrame, Waiting
<1>4. ~GuestSends
  <2>1. ASSUME NEW s \in GuestSegments, Speaks(s) \/ Resets(s) \/ Connects(s)
        PROVE  FALSE
    BY <2>1 DEF Speaks, Resets, Connects, Waiting, Untouched, Single
  <2> QED
    BY <2>1, GuestSendsThese
<1>5. Socket(c)
  BY <1>3, <1>4, SocketHas DEF Next, Guest, GuestSends, Alone
<1>6. CASE Connected(c)
  <2>1. sock' = [sock EXCEPT ![c] = "open"]
    BY <1>6 DEF Connected
  <2>2. Alone(c)'
    BY <1>1, <2>1 DEF Alone
  <2> QED
    BY <1>6, <2>2, ConnectedAccepted
<1>7. CASE Refused(c)
  <2>1. /\ sock' = [sock EXCEPT ![c] = "failed"] /\ crashed' /\ tcp_conn' = NoConn
        /\ conn' = [conn EXCEPT ![c] = conn[c]]
        /\ UNCHANGED <<hostSent, written, toGuest, guest, received>>
    BY <1>7 DEF Refused, Released, Waiting
  <2>2. conn' = conn /\ sock'[c] = "failed" /\ \A d \in Conn \ {c} : sock'[d] = sock[d]
    BY <1>1, <2>1
  <2>3. Waiting(c)'
    BY <2>1, <2>2 DEF Waiting, Untouched
  <2> QED
    BY <2>2, <2>3 DEF Alone
<1> QED
  BY <1>2, <1>5, <1>6, <1>7
     DEF Socket, HostData, HostEnd, SocketClosed, SocketError, Readable

\* Every step of a history with one SYN.
LEMMA SoloNext ==
  ASSUME IInv, IInv', OpenInv, OpenInv', SoloInv, [Next]_vars
  PROVE  SoloInv'
<1>1. AdapterInv /\ EnvInv /\ EnvInv'
  BY DEF IInv
<1>2. CASE UNCHANGED vars
  BY <1>2 DEF vars, adapter, SoloInv, Single, Idle, Waiting, Accepted, Alone, HostFlow, GuestFlow,
              Untouched, Flows, NoWrap
<1>3. ASSUME Next, Single'
      PROVE  \E c \in Conn : Alone(c)' /\ (Waiting(c)' \/ Accepted(c)')
  <2>1. Idle \/ \E c \in Conn : Alone(c) /\ (Waiting(c) \/ Accepted(c))
    BY <1>1, <1>3, SingleBefore DEF SoloInv
  <2>2. CASE Idle
    BY <1>1, <1>3, <2>2, IdleNext
  <2>3. ASSUME NEW c \in Conn, Alone(c), Waiting(c)
        PROVE  Alone(c)' /\ (Waiting(c)' \/ Accepted(c)')
    BY <1>1, <1>3, <2>3, WaitingNext
  <2>4. ASSUME NEW c \in Conn, Alone(c), Accepted(c)
        PROVE  Alone(c)' /\ Accepted(c)'
    <3>1. CASE GuestSends
      BY <1>1, <1>3, <2>4, <3>1, SendAccepted
    <3>2. CASE GuestReceive
      <4>1. Alone(c)'
        BY <2>4, <3>2 DEF GuestReceive, adapter, Alone
      <4> QED
        BY <1>1, <2>4, <3>2, <4>1, TakeAccepted
    <3>3. CASE LoseFrame
      <4>1. Alone(c)'
        BY <2>4, <3>3 DEF LoseFrame, adapter, Alone
      <4> QED
        BY <1>1, <2>4, <3>3, <4>1, LossAccepted
    <3>4. ASSUME NEW d \in Conn, Socket(d)
          PROVE  Alone(c)' /\ Accepted(c)'
      <4>1. d = c
        BY <2>4, <3>4, SocketHas DEF Alone
      <4>2. Socket(c)
        BY <3>4, <4>1
      <4>3. Alone(c)'
        BY <1>1, <2>4, <4>2, SocketEvents DEF Alone
      <4>4. HostData(c) \/ HostEnd(c) \/ SocketClosed(c) \/ SocketError(c)
        BY <2>4, <4>2 DEF Socket, Connected, Refused, Accepted
      <4> QED
        BY <1>1, <2>4, <4>3, <4>4, DataAccepted, EndAccepted
    <3> QED
      BY <1>3, <3>1, <3>2, <3>3, <3>4 DEF Next, Guest, GuestSends
  <2> QED
    BY <2>1, <2>2, <2>3, <2>4
<1> QED
  BY <1>2, <1>3 DEF SoloInv

-----------------------------------------------------------------------------
(* The streams.                                                            *)

\* Nothing is on its way at first.
LEMMA StreamsInit ==
  ASSUME Init
  PROVE  OpenInv /\ OrderInv /\ SoloInv
<1>1. OpenInv /\ OrderInv
  BY DEF Init, OpenInv, OrderInv, NewConn
<1>2. Idle
  BY DEF Init, Idle, Untouched
<1> QED
  BY <1>1, <1>2 DEF SoloInv

\* What the guest receives is what its host sent, and its end comes after all
\* of it: an acknowledgement is counted once and a chunk is sent once it is
\* the next, whatever is lost and however the socket ends.
THEOREM HostStreamKept == Spec => []HostStream
<1>1. Init => IInv /\ OpenInv /\ SoloInv
  BY InitInv, StreamsInit DEF IInv
<1>2. IInv /\ OpenInv /\ SoloInv /\ [Next]_vars => (IInv /\ OpenInv /\ SoloInv)'
  BY NextInv, OpenNext, SoloNext
<1>3. IInv /\ OpenInv /\ SoloInv => HostStream
  <2> SUFFICES ASSUME IInv, OpenInv, SoloInv, Single, NEW c \in Conn, sock[c] # "none"
               PROVE  /\ Len(received) <= hostSent[c]
                      /\ \A i \in 1 .. Len(received) : received[i] = <<c, i>>
                      /\ guest.eof => Len(received) = hostSent[c] /\ sock[c] \notin Readable
    BY DEF HostStream
  <2>1. AdapterInv /\ EnvInv
    BY DEF IInv
  <2>2. Waiting(c) \/ Accepted(c)
    BY DEF SoloInv, Idle, Alone
  <2>3. hostSent[c] \in Nat /\ received \in Seq(Conn \X Nat) /\ conn[c] \in GoodConn
    BY <2>1, FlowTypes
  <2>4. CASE Waiting(c)
    BY <2>3, <2>4 DEF Waiting, Untouched
  <2>5. CASE Accepted(c)
    <3>1. Stream(c, conn[c], hostSent[c], received, guest.eof)
      BY <2>5 DEF Accepted, HostFlow, Flows, Flow
    <3>2. \A i \in 1 .. Len(received) : received[i] = <<c, i>>
      BY <3>1 DEF Stream
    <3>3. Len(received) <= hostSent[c]
      <4> DEFINE l == Len(received)
                 m == Len(conn[c].buf)
                 sent == hostSent[c]
      <4>1. l \in Nat /\ m \in Nat /\ sent \in Nat
        BY <2>3 DEF GoodConn, ConnType
      <4>2. l = sent - m \/ l <= sent
        BY <3>1 DEF Stream, Base
      <4> HIDE DEF l, m, sent
      <4>3. l <= sent
        BY <4>1, <4>2
      <4> QED
        BY <4>3 DEF l, sent
    <3>4. guest.eof => Len(received) = hostSent[c] /\ sock[c] \notin Readable
      BY <2>3, <3>1 DEF Stream, FinSent, Base, OpenInv
    <3> QED
      BY <3>2, <3>3, <3>4
  <2> QED
    BY <2>2, <2>4, <2>5
<1> QED
  BY <1>1, <1>2, <1>3, PTL DEF Spec

\* A socket that is open is one the guest can reach.
THEOREM SocketsAlwaysReachable == Spec => []SocketsReachable
<1>1. Init => IInv /\ OpenInv /\ SoloInv
  BY InitInv, StreamsInit DEF IInv
<1>2. IInv /\ OpenInv /\ SoloInv /\ [Next]_vars => (IInv /\ OpenInv /\ SoloInv)'
  BY NextInv, OpenNext, SoloNext
<1>3. SoloInv => SocketsReachable
  BY DEF SoloInv, Idle, Alone, Waiting, Accepted, GuestFlow, SocketsReachable
<1> QED
  BY <1>1, <1>2, <1>3, PTL DEF Spec

\* What a host receives is what the guest sent, and its end comes after all of
\* it when no bytes came with that end and no number wrapped.
THEOREM GuestStreamKept ==
  ASSUME MaxGuest < W
  PROVE  Spec => []GuestStream
<1>1. Init => IInv /\ OpenInv /\ OrderInv /\ SoloInv
  BY InitInv, StreamsInit DEF IInv
<1>2. IInv /\ OpenInv /\ OrderInv /\ SoloInv /\ [Next]_vars
        => (IInv /\ OpenInv /\ OrderInv /\ SoloInv)'
  BY NextInv, OpenNext, OrderNext, SoloNext
<1>3. OrderInv /\ SoloInv => GuestStream
  <2> SUFFICES ASSUME OrderInv, SoloInv, NEW c \in Conn
               PROVE  /\ \A i \in 1 .. Len(written[c]) : written[c][i] = i
                      /\ conn[c].state = "close-wait" /\ sock[c] = "shut" /\ guest.finAlone
                           /\ Single /\ NoWrap => Len(written[c]) = guest.snd
    BY DEF GuestStream
  <2>1. \A i \in 1 .. Len(written[c]) : written[c][i] = i
    BY DEF OrderInv
  <2>2. ASSUME sock[c] = "shut", Single
        PROVE  Accepted(c)
    BY <2>2 DEF SoloInv, Idle, Alone, Waiting
  <2>3. ASSUME conn[c].state = "close-wait", sock[c] = "shut", guest.finAlone, Single, NoWrap
        PROVE  Len(written[c]) = guest.snd
    BY <2>2, <2>3 DEF Accepted, GuestFlow
  <2> QED
    BY <2>1, <2>3
<1> QED
  BY <1>1, <1>2, <1>3, PTL DEF Spec

-----------------------------------------------------------------------------
(* The streams implement ByteStream.                                       *)

\* The first n numbers begin the first m.
LEMMA Numbered ==
  ASSUME NEW s \in Seq(Nat), NEW t \in Seq(Nat), Len(s) <= Len(t),
         \A i \in 1 .. Len(s) : s[i] = i, \A i \in 1 .. Len(t) : t[i] = i
  PROVE  t = s \o [i \in 1 .. Len(t) - Len(s) |-> Len(s) + i]
<1> DEFINE n == Len(s)
           m == Len(t)
           more == [i \in 1 .. m - n |-> n + i]
           all == s \o more
<1>1. n \in Nat /\ m \in Nat /\ n <= m /\ m - n \in Nat
  OBVIOUS
<1>2. more \in Seq(Nat) /\ Len(more) = m - n /\ \A i \in 1 .. m - n : more[i] = n + i
  <2> HIDE DEF n, m
  <2>1. \A i \in 1 .. m - n : n + i \in Nat
    BY <1>1
  <2>2. DOMAIN more = 1 .. m - n
    OBVIOUS
  <2>3. more \in Seq(Nat)
    BY <1>1, <2>1, SeqDef
  <2> QED
    BY <1>1, <2>2, <2>3, LenProperties
<1> HIDE DEF more
<1>3. /\ all \in Seq(Nat) /\ Len(all) = n + Len(more)
      /\ \A i \in 1 .. n + Len(more) : all[i] = IF i <= n THEN s[i] ELSE more[i - n]
  BY <1>2, ConcatProperties
<1>4. Len(all) = m /\ \A i \in 1 .. n : s[i] = i
  BY <1>1, <1>2, <1>3
<1> HIDE DEF all
<1>5. ASSUME NEW i \in 1 .. m
      PROVE  all[i] = t[i]
  <2>1. CASE i <= n
    <3>1. i \in 1 .. n /\ i \in 1 .. n + Len(more)
      BY <1>1, <1>2, <2>1
    <3>2. all[i] = s[i]
      BY <1>3, <2>1, <3>1
    <3> QED
      BY <1>4, <3>1, <3>2
  <2>2. CASE i > n
    <3>1. i - n \in 1 .. m - n
      BY <1>1, <2>2
    <3>2. all[i] = more[i - n]
      BY <1>1, <1>2, <1>3, <2>2
    <3> QED
      BY <1>1, <1>2, <3>1, <3>2
  <2> HIDE DEF m
  <2>3. i <= n \/ i > n
    BY <1>1
  <2> QED
    BY <2>1, <2>2, <2>3
<1>6. all = t
  BY <1>3, <1>4, <1>5, SeqEqual
<1> QED
  BY <1>6 DEF all, more

\* The guest's stream grows until its FIN.
LEMMA GuestGrows ==
  ASSUME EnvInv, [Next]_vars
  PROVE  /\ guest.snd <= guest'.snd
         /\ guest.fin => guest'.fin /\ guest'.snd = guest.snd
<1>1. guest \in GuestType /\ guest.snd \in Nat
  BY GuestNumbers DEF GuestType
<1>2. CASE guest'.snd = guest.snd /\ guest'.fin = guest.fin
  BY <1>1, <1>2
<1>3. ASSUME NEW n \in 0 .. MaxGuest, NEW fin \in BOOLEAN, GuestSend(n, fin)
      PROVE  guest.snd <= guest'.snd /\ ~guest.fin
  <2>1. guest' = [guest EXCEPT !.snd = guest.snd + n, !.fin = fin, !.finAlone = n = 0,
                               !.ackDue = FALSE]
        /\ ~guest.fin
    BY <1>3 DEF GuestSend
  <2>2. guest'.snd = guest.snd + n
    BY <1>1, <2>1 DEF GuestType
  <2> QED
    BY <1>1, <2>1, <2>2, FakeTcpAssumption
<1>4. ASSUME GuestSends, \A n \in 0 .. MaxGuest, fin \in BOOLEAN : ~GuestSend(n, fin)
      PROVE  guest'.snd = guest.snd /\ guest'.fin = guest.fin
  BY <1>1, <1>4 DEF GuestSends, GuestConnect, GuestRepeatSyn, GuestAck, GuestReset, GuestRepeat,
                    GuestType
<1>5. ASSUME GuestReceive
      PROVE  guest'.snd = guest.snd /\ guest'.fin = guest.fin
  BY <1>1, <1>5 DEF GuestReceive, Taken, GuestType
<1>6. ASSUME NEW c \in Conn, Socket(c)
      PROVE  guest' = guest
  BY <1>6 DEF Socket, Connected, Refused, HostData, HostEnd, SocketClosed, SocketError
<1>7. guest' = guest \/ GuestSends \/ GuestReceive
  BY <1>6 DEF Next, Guest, GuestSends, LoseFrame, vars
<1> QED
  BY <1>2, <1>3, <1>4, <1>5, <1>7

\* No socket is given what was not sent.
SentInv == \A c \in Conn : Len(written[c]) <= guest.snd

LEMMA SentNext ==
  ASSUME MaxGuest < W, IInv, IInv', OpenInv, SentInv, [Next]_vars, NEW c \in Conn
  PROVE  Len(written[c]) <= Len(written'[c]) /\ Len(written'[c]) <= guest'.snd
<1>1. AdapterInv /\ EnvInv /\ EnvInv'
  BY DEF IInv
<1>2. /\ written[c] \in Seq(Nat) /\ Len(written[c]) \in Nat
      /\ guest.snd \in Nat /\ guest'.snd \in Nat /\ guest.snd <= guest'.snd
  <2>1. guest.snd \in 0 .. MaxGuest /\ guest'.snd \in 0 .. MaxGuest
    BY <1>1 DEF EnvInv
  <2>2. guest.snd \in Nat /\ guest'.snd \in Nat
    BY <2>1, FakeTcpAssumption
  <2>3. guest.snd <= guest'.snd
    BY <1>1, GuestGrows
  <2> QED
    BY <1>1, <2>2, <2>3, WrittenType
<1>3. CASE written'[c] = written[c]
  BY <1>2, <1>3 DEF SentInv
<1>4. CASE written'[c] # written[c]
  <2>1. ~\E d \in Conn : Socket(d)
    BY <1>1, <1>4, SocketEvents
  <2>2. GuestSends
    BY <1>4, <2>1 DEF Next, Guest, GuestSends, GuestReceive, LoseFrame, adapter, vars
  <2>3. PICK s \in GuestSegments : Deliver(s) /\ (Speaks(s) \/ Resets(s) \/ Connects(s))
    BY <1>1, <2>2, GuestSendsThese
  <2>4. Settled(c, s) /\ "syn" \notin s.flags
    BY <1>1, <1>4, <2>3, DeliverCases DEF Others
  <2>5. "ack" \in s.flags
    BY <1>4, <2>4 DEF Settled, OpenInv, Readable
  <2>6. Speaks(s)
    BY <2>3, <2>5 DEF Resets, Connects
  <2>7. /\ written'[c] = written[c] \o s.bytes /\ s.bytes \in Seq(Nat)
        /\ Len(written[c]) + Len(s.bytes) <= guest'.snd
    BY <1>1, <1>4, <2>4, <2>6, SpeaksBytes
  <2>8. Len(written'[c]) = Len(written[c]) + Len(s.bytes) /\ Len(s.bytes) \in Nat
    BY <1>2, <2>7, ConcatProperties, LenProperties
  <2> DEFINE a == Len(written[c])
             b == Len(s.bytes)
             d == Len(written'[c])
  <2>9. a \in Nat /\ b \in Nat /\ d = a + b /\ d <= guest'.snd
    BY <1>2, <2>7, <2>8
  <2> HIDE DEF a, b, d
  <2>10. a <= d /\ d <= guest'.snd
    BY <2>9
  <2> QED
    BY <2>10 DEF a, d
<1> QED
  BY <1>3, <1>4

\* A step of either end is one of the guest's stream.
LEMMA GuestStreamStep ==
  ASSUME MaxGuest < W, IInv, IInv', OpenInv, OrderInv, OrderInv', SentInv, [Next]_vars,
         NEW c \in Conn
  PROVE  GuestToHost(c)!Next
<1>1. AdapterInv /\ EnvInv /\ AdapterInv' /\ EnvInv'
  BY DEF IInv
<1>2. written[c] \in Seq(Nat) /\ written'[c] \in Seq(Nat)
  BY <1>1 DEF EnvInv, AdapterInv
<1>3. Len(written[c]) <= Len(written'[c]) /\ Len(written'[c]) <= guest'.snd
  BY SentNext
<1>4. /\ \A i \in 1 .. Len(written[c]) : written[c][i] = i
      /\ \A i \in 1 .. Len(written'[c]) : written'[c][i] = i
  BY DEF OrderInv
<1> DEFINE s == written[c]
           t == written'[c]
<1>5. t = s \o [i \in 1 .. Len(t) - Len(s) |-> Len(s) + i]
  <2> HIDE DEF s, t
  <2>1. /\ s \in Seq(Nat) /\ t \in Seq(Nat) /\ Len(s) <= Len(t)
        /\ \A i \in 1 .. Len(s) : s[i] = i
        /\ \A i \in 1 .. Len(t) : t[i] = i
    BY <1>2, <1>3, <1>4 DEF s, t
  <2> QED
    BY <2>1, Numbered
<1>6. GuestToHost(c)!Receive
  BY <1>3, <1>5 DEF GuestToHost!Receive
<1>7. GuestToHost(c)!Send
  <2>1. guest.snd \in 0 .. MaxGuest /\ guest'.snd \in 0 .. MaxGuest
    BY <1>1 DEF EnvInv
  <2>2. /\ guest.snd <= guest'.snd
        /\ guest.fin => guest'.fin /\ guest'.snd = guest.snd
    BY <1>1, GuestGrows
  <2> QED
    BY <2>1, <2>2, FakeTcpAssumption DEF GuestToHost!Send
<1> QED
  BY <1>6, <1>7 DEF GuestToHost!Next

\* A socket is given a stream that the guest sends, in order and once, on every
\* connection, also on one that a repeated SYN has overtaken.
THEOREM GuestStreamImplemented ==
  ASSUME MaxGuest < W, NEW c \in Conn
  PROVE  Spec => GuestToHost(c)!Spec
<1> DEFINE Inv == IInv /\ OpenInv /\ OrderInv /\ SentInv
<1>1. Init => Inv
  <2>1. Init => SentInv
    BY DEF Init, SentInv
  <2> QED
    BY <2>1, InitInv, StreamsInit DEF IInv
<1>2. Inv /\ [Next]_vars => Inv'
  <2>1. ASSUME Inv, [Next]_vars
        PROVE  IInv' /\ OpenInv'
    BY <2>1, NextInv, OpenNext
  <2>2. ASSUME Inv, [Next]_vars
        PROVE  OrderInv'
    BY <2>1, <2>2, OrderNext
  <2>3. ASSUME Inv, [Next]_vars
        PROVE  SentInv'
    BY <2>1, <2>3, SentNext DEF SentInv
  <2> QED
    BY <2>1, <2>2, <2>3
<1>3. Init => GuestToHost(c)!Init
  BY DEF Init, GuestToHost!Init
<1>4. Inv /\ Inv' /\ [Next]_vars => [GuestToHost(c)!Next]_(GuestToHost(c)!vars)
  BY GuestStreamStep
<1> QED
  BY <1>1, <1>2, <1>3, <1>4, PTL DEF Spec, GuestToHost!Spec

\* The numbers of bytes that are in order.
LEMMA SecondNumbers ==
  ASSUME NEW c, NEW r \in Seq(Conn \X Nat), \A i \in 1 .. Len(r) : r[i] = <<c, i>>
  PROVE  LET s == [i \in 1 .. Len(r) |-> r[i][2]]
         IN  s \in Seq(Nat) /\ Len(s) = Len(r) /\ \A i \in 1 .. Len(s) : s[i] = i
<1> DEFINE n == Len(r)
           s == [i \in 1 .. n |-> r[i][2]]
<1>1. n \in Nat
  OBVIOUS
<1>2. \A i \in 1 .. n : s[i] = i
  OBVIOUS
<1>3. s \in [1 .. n -> Nat]
  <2>1. \A i \in 1 .. n : r[i][2] = i /\ i \in Nat
    BY <1>1
  <2> QED
    BY <2>1
<1>4. s \in Seq(Nat)
  <2> HIDE DEF n, s
  <2> QED
    BY <1>1, <1>3, SeqDef
<1>5. DOMAIN s = 1 .. n
  OBVIOUS
<1>6. Len(s) = n
  <2> HIDE DEF n, s
  <2> QED
    BY <1>1, <1>4, <1>5, LenProperties
<1> QED
  BY <1>2, <1>4, <1>6

\* With one connection the SYN is not repeated: its socket exists.
LEMMA SoleSingle ==
  ASSUME IInv, SoloInv, Single, [Next]_vars, NEW c, Conn = {c}
  PROVE  Single'
<1>1. AdapterInv /\ EnvInv
  BY DEF IInv
<1>2. CASE GuestRepeatSyn
  <2>1. guest.st = "syn-sent"
    BY <1>2 DEF GuestRepeatSyn
  <2>2. sock[c] # "none"
    BY <2>1 DEF SoloInv, Idle, Waiting, Accepted
  <2>3. Deliver(Segment({"syn"}, guest.isn, 0, <<>>))
    BY <1>2 DEF GuestRepeatSyn
  <2> QED
    BY <2>2, <2>3 DEF Deliver, OpenConnection, ResetUnknown, Segment
<1>3. ASSUME ~GuestRepeatSyn, GuestSends
      PROVE  Single'
  <2>1. CASE GuestConnect \/ GuestAck
    BY <2>1 DEF GuestConnect, GuestAck, Single
  <2>2. CASE GuestReset
    BY <2>2 DEF GuestReset, Mishap, Single
  <2>3. ASSUME NEW n \in 0 .. MaxGuest, GuestRepeat(n)
        PROVE  Single'
    BY <2>3 DEF GuestRepeat, Single
  <2>4. ASSUME NEW n \in 0 .. MaxGuest, NEW fin \in BOOLEAN, GuestSend(n, fin)
        PROVE  Single'
    BY <2>4 DEF GuestSend, Single
  <2> QED
    BY <1>3, <2>1, <2>2, <2>3, <2>4 DEF GuestSends
<1>4. ASSUME NEW d \in Conn, Socket(d)
      PROVE  Single'
  BY <1>4 DEF Socket, Connected, Refused, HostData, HostEnd, SocketClosed, SocketError,
              Mishap, Single
<1>5. ASSUME GuestReceive \/ LoseFrame \/ UNCHANGED vars
      PROVE  Single'
  BY <1>5 DEF GuestReceive, LoseFrame, Mishap, Single, vars
<1> QED
  BY <1>2, <1>3, <1>4, <1>5 DEF Next, Guest, GuestSends

\* What the guest has received of the one connection.
Arrived(c) ==
  /\ Len(received) <= hostSent[c]
  /\ \A i \in 1 .. Len(received) : received[i] = <<c, i>>
  /\ guest.eof => Len(received) = hostSent[c] /\ HostClosed(c)

LEMMA SoleStream ==
  ASSUME IInv, OpenInv, SoloInv, Single, HostStream, NEW c, Conn = {c}
  PROVE  Arrived(c)
<1>1. c \in Conn
  OBVIOUS
<1>2. CASE sock[c] = "none"
  <2>1. Idle
    BY <1>1, <1>2 DEF SoloInv, Waiting, Accepted
  <2>2. received = <<>> /\ ~guest.eof /\ hostSent[c] = 0 /\ Len(<<>>) = 0
    BY <1>1, <1>2, <2>1 DEF Idle, Untouched, OpenInv
  <2> QED
    BY <2>2 DEF Arrived
<1>3. CASE sock[c] # "none"
  <2>1. /\ Len(received) <= hostSent[c]
        /\ \A i \in 1 .. Len(received) : received[i] = <<c, i>>
        /\ guest.eof => Len(received) = hostSent[c] /\ sock[c] \notin Readable
    BY <1>1, <1>3 DEF HostStream
  <2>2. guest.eof => sock[c] # "connecting"
    BY <1>1, <1>3 DEF SoloInv, Idle, Waiting, Accepted, Untouched
  <2> QED
    BY <1>3, <2>1, <2>2 DEF HostClosed, Arrived
<1> QED
  BY <1>2, <1>3

\* The host's stream grows until its socket has ended, and stays so.
LEMMA HostGrows ==
  ASSUME IInv, [Next]_vars, NEW c, Conn = {c}
  PROVE  /\ hostSent[c] <= hostSent'[c]
         /\ HostClosed(c) => HostClosed(c)' /\ hostSent'[c] = hostSent[c]
<1>1. /\ AdapterInv /\ EnvInv /\ c \in Conn
      /\ sock \in [Conn -> SockStates] /\ hostSent \in [Conn -> 0 .. MaxHost]
      /\ hostSent[c] \in Nat
  BY FlowTypes DEF IInv
<1>2. CASE HostData(c)
  <2>1. sock[c] \in Readable /\ hostSent' = [hostSent EXCEPT ![c] = hostSent[c] + 1]
    BY <1>2 DEF HostData
  <2>2. hostSent'[c] = hostSent[c] + 1
    BY <1>1, <2>1
  <2> QED
    BY <1>1, <2>1, <2>2 DEF HostClosed
<1>3. ASSUME Socket(c), ~HostData(c)
      PROVE  hostSent'[c] = hostSent[c] /\ (HostClosed(c) => HostClosed(c)')
  BY <1>1, <1>3 DEF Socket, Connected, Refused, HostEnd, SocketClosed, SocketError,
                    HostClosed, Readable
<1>4. ASSUME GuestSends
      PROVE  hostSent' = hostSent /\ (HostClosed(c) => HostClosed(c)')
  <2>1. PICK s \in GuestSegments : Deliver(s)
    BY <1>1, <1>4, GuestSendsThese
  <2>2. HostClosed(c) =>
          \/ sock'[c] = sock[c]
          \/ sock[c] = "open" /\ sock'[c] = "shut"
          \/ sock[c] \in {"shut", "ending"} /\ sock'[c] = "broken"
    BY <1>1, <2>1, DeliverCases DEF Settled, HostClosed
  <2>3. hostSent' = hostSent
    BY <1>1, <1>4, GuestSendsThese
  <2> QED
    BY <2>2, <2>3 DEF HostClosed, Readable
<1>5. ASSUME GuestReceive \/ LoseFrame \/ UNCHANGED vars
      PROVE  hostSent' = hostSent /\ sock' = sock
  BY <1>5 DEF GuestReceive, LoseFrame, vars, adapter
<1>6. \A d \in Conn : d = c
  OBVIOUS
<1>7. Socket(c) \/ GuestSends \/ GuestReceive \/ LoseFrame \/ UNCHANGED vars
  BY <1>6 DEF Next, Guest, GuestSends
<1> QED
  BY <1>1, <1>2, <1>3, <1>4, <1>5, <1>7 DEF HostClosed

\* What was received stays, and nothing is behind its end.
LEMMA ReceivedGrows ==
  ASSUME IInv, [Next]_vars
  PROVE  /\ Len(received) <= Len(received')
         /\ guest.eof => guest'.eof /\ received' = received
<1>1. /\ AdapterInv /\ EnvInv /\ received \in Seq(Conn \X Nat) /\ toGuest \in Seq(Segments)
  BY DEF IInv, AdapterInv, EnvInv
<1>2. guest \in GuestType /\ guest.eof \in BOOLEAN
  BY <1>1, GuestNumbers DEF GuestType
<1>3. CASE received' = received /\ guest'.eof = guest.eof
  <2>1. Len(received) \in Nat
    BY <1>1
  <2> QED
    BY <1>3, <2>1
<1>4. CASE GuestReceive
  <2> DEFINE f == Head(toGuest)
  <2>1. f.bytes \in Seq(Conn \X Nat)
    <3>1. f \in Segments
      BY <1>1, <1>4, HeadTailProperties DEF GuestReceive
    <3> QED
      BY <3>1 DEF Segments
  <2>2. Taken(f)
    BY <1>4 DEF GuestReceive
  <2> HIDE DEF f
  <2>3. \/ received' = received
        \/ received' = received \o f.bytes /\ ~guest.eof
    BY <2>2 DEF Taken
  <2>4. guest.eof => guest'.eof
    BY <1>2, <2>2 DEF Taken, GuestType
  <2>5. Len(received) \in Nat /\ Len(received) <= Len(received \o f.bytes)
    <3>1. /\ Len(received \o f.bytes) = Len(received) + Len(f.bytes)
          /\ Len(received) \in Nat /\ Len(f.bytes) \in Nat
      BY <1>1, <2>1, ConcatProperties, LenProperties
    <3> QED
      BY <3>1
  <2> QED
    BY <2>3, <2>4, <2>5
<1>5. ASSUME GuestSends
      PROVE  received' = received /\ guest'.eof = guest.eof
  BY <1>1, <1>5, GuestSendsThese
<1>6. ASSUME NEW d \in Conn, Socket(d)
      PROVE  received' = received /\ guest' = guest
  BY <1>1, <1>6, SocketEvents
<1>7. ASSUME LoseFrame \/ UNCHANGED vars
      PROVE  received' = received /\ guest' = guest
  BY <1>7 DEF LoseFrame, vars
<1> QED
  BY <1>3, <1>4, <1>5, <1>6, <1>7 DEF Next, Guest, GuestSends

\* A step of either end is one of the host's stream.
LEMMA HostStreamStep ==
  ASSUME IInv, IInv', [Next]_vars, NEW c, Conn = {c}, Arrived(c), Arrived(c)'
  PROVE  HostToGuest(c)!Next
<1> DEFINE s == [i \in 1 .. Len(received) |-> received[i][2]]
           t == [i \in 1 .. Len(received') |-> received'[i][2]]
<1>1. /\ AdapterInv /\ EnvInv /\ AdapterInv' /\ EnvInv' /\ c \in Conn
      /\ received \in Seq(Conn \X Nat) /\ received' \in Seq(Conn \X Nat)
      /\ hostSent[c] \in Nat /\ hostSent'[c] \in Nat
  <2>1. AdapterInv /\ EnvInv /\ AdapterInv' /\ EnvInv' /\ c \in Conn
    BY DEF IInv
  <2>2. /\ hostSent \in [Conn -> 0 .. MaxHost] /\ hostSent' \in [Conn -> 0 .. MaxHost]
        /\ received \in Seq(Conn \X Nat) /\ received' \in Seq(Conn \X Nat)
    BY <2>1 DEF EnvInv
  <2> QED
    BY <2>1, <2>2, FakeTcpAssumption
<1>2. /\ Len(received) <= hostSent[c]
      /\ \A i \in 1 .. Len(received) : received[i] = <<c, i>>
  BY DEF Arrived
<1>3. /\ Len(received') <= hostSent'[c]
      /\ \A i \in 1 .. Len(received') : received'[i] = <<c, i>>
      /\ guest'.eof => Len(received') = hostSent'[c] /\ HostClosed(c)'
  BY DEF Arrived
<1>4. /\ Len(received) <= Len(received')
      /\ guest.eof => guest'.eof /\ received' = received
  BY ReceivedGrows
<1>5. /\ s \in Seq(Nat) /\ Len(s) = Len(received) /\ \A i \in 1 .. Len(s) : s[i] = i
  BY <1>1, <1>2, SecondNumbers
<1>6. /\ t \in Seq(Nat) /\ Len(t) = Len(received') /\ \A i \in 1 .. Len(t) : t[i] = i
  BY <1>1, <1>3, SecondNumbers
<1>7. guest.eof => t = s
  BY <1>4
<1> HIDE DEF s, t
<1>8. t = s \o [i \in 1 .. Len(t) - Len(s) |-> Len(s) + i]
  BY <1>4, <1>5, <1>6, Numbered
<1>9. HostToGuest(c)!Receive
  <2>1. /\ Len(s) <= Len(t) /\ Len(t) <= hostSent'[c]
        /\ guest.eof => guest'.eof /\ t = s
        /\ guest'.eof => HostClosed(c)' /\ Len(t) = hostSent'[c]
    BY <1>3, <1>4, <1>5, <1>6, <1>7
  <2> QED
    BY <1>8, <2>1 DEF HostToGuest!Receive, s, t
<1>10. HostToGuest(c)!Send
  BY HostGrows DEF HostToGuest!Send
<1> QED
  BY <1>9, <1>10 DEF HostToGuest!Next

\* The guest receives a stream that its host sends, in order and once, with its
\* end behind it, for one connection: its SYN is then not repeated.
THEOREM HostStreamImplemented ==
  ASSUME NEW c, Conn = {c}
  PROVE  Spec => HostToGuest(c)!Spec
<1> DEFINE Inv == IInv /\ OpenInv /\ SoloInv /\ Single
<1>1. Init => Inv
  BY InitInv, StreamsInit DEF IInv, Init, Single
<1>2. Inv /\ [Next]_vars => Inv'
  BY NextInv, OpenNext, SoloNext, SoleSingle
<1>3. Init => HostToGuest(c)!Init
  <2> SUFFICES ASSUME Init
               PROVE  HostToGuest(c)!Init
    OBVIOUS
  <2>1. received = <<>> /\ Len(<<>>) = 0 /\ c \in Conn
    BY DEF Init
  <2>2. [i \in 1 .. Len(received) |-> received[i][2]] = <<>>
    BY <2>1
  <2> QED
    BY <2>1, <2>2 DEF Init, HostToGuest!Init, HostClosed
<1>4. Inv /\ HostStream => Arrived(c)
  BY SoleStream
<1>5. Inv /\ Inv' /\ Arrived(c) /\ Arrived(c)' /\ [Next]_vars
        => [HostToGuest(c)!Next]_(HostToGuest(c)!vars)
  BY HostStreamStep
<1> QED
  BY <1>1, <1>2, <1>3, <1>4, <1>5, HostStreamKept, PTL DEF Spec, HostToGuest!Spec
=============================================================================
