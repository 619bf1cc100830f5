---------------------------- MODULE Virtio9pProofs ----------------------------
(***************************************************************************)
(* Proofs about Virtio9p, for rings of any size, indices of any width and  *)
(* any number of tags: the types, which say that the device only takes     *)
(* chains that hold a request, that no request is left in the ring when    *)
(* the driver's notification returns, and that no answer is left untold.   *)
(***************************************************************************)
EXTENDS Virtio9p, TLAPS

\* The notification handler has at most the one request that was announced,
\* and when it has returned the ring is empty and the device has asked to be
\* told of the very next request.
RingInv ==
  /\ ~draining => avail.idx = avail_last_idx /\ used.avail_event = avail.idx
  /\ draining => \/ avail.idx = avail_last_idx
                 \/ avail.idx = Plus(avail_last_idx, 1) /\ request[Head].tag \in Tag

\* A request that was submitted has a tag.
IInv == TypeOK /\ RingInv

-----------------------------------------------------------------------------
(* Indices.                                                                *)

LEMMA Modulus ==
  /\ IdxMod \in Nat /\ IdxMod > 1 /\ Size \in Nat /\ Size > 0
  /\ 0 \in Idx /\ 0 \in Chain
BY Virtio9pAssumption DEF Idx, Chain

LEMMA PlusType ==
  ASSUME NEW i \in Idx, NEW n \in Nat
  PROVE  Plus(i, n) \in Idx
BY Modulus DEF Plus, Idx

LEMMA SlotType ==
  ASSUME NEW i \in Idx
  PROVE  Slot(i) \in Chain
BY Modulus DEF Slot, Idx, Chain

\* An index is at no distance from itself, and its successor at distance one,
\* also where it wraps.
LEMMA MinusSelf ==
  ASSUME NEW i \in Idx
  PROVE  Minus(i, i) = 0
BY Modulus DEF Minus, Idx

LEMMA MinusNext ==
  ASSUME NEW i \in Idx
  PROVE  Minus(Plus(i, 1), i) = 1
<1>1. i \in Nat /\ i < IdxMod
  BY Modulus DEF Idx
<1>2. CASE i + 1 < IdxMod
  <2>1. Plus(i, 1) = i + 1
    BY <1>1, <1>2, Modulus DEF Plus
  <2>2. (i + 1) - i = 1 /\ 1 % IdxMod = 1
    BY <1>1, Modulus
  <2> QED
    BY <2>1, <2>2 DEF Minus
<1>3. CASE i + 1 = IdxMod
  <2>1. Plus(i, 1) = 0
    BY <1>1, <1>3, Modulus DEF Plus
  <2>2. (0 - i) % IdxMod = 1
    BY <1>1, <1>3, Modulus
  <2> QED
    BY <2>1, <2>2 DEF Minus
<1> QED
  BY <1>1, <1>2, <1>3, Modulus

-----------------------------------------------------------------------------
(* Steps.                                                                  *)

LEMMA InitInv == Init => IInv /\ ReplyAnnounced
<1> SUFFICES ASSUME Init PROVE IInv /\ ReplyAnnounced
  OBVIOUS
<1>1. TypeOK
  BY Modulus DEF Init, TypeOK, NoRequest, Request
<1>2. RingInv /\ ReplyAnnounced
  BY DEF Init, RingInv, ReplyAnnounced
<1> QED
  BY <1>1, <1>2 DEF IInv

LEMMA SubmitInv ==
  ASSUME IInv, NEW t \in Tag, NEW flushed \in Tag \cup {None}, Submit(t, flushed)
  PROVE  IInv'
<1>1. TypeOK /\ RingInv /\ ~draining /\ avail.idx = avail_last_idx
      /\ used.avail_event = avail.idx /\ avail.idx \in Idx
  BY DEF IInv, RingInv, Submit, TypeOK
<1>2. PICK c \in free :
        /\ free' = free \ {c}
        /\ request' = [request EXCEPT ![c] = [tag |-> t, flushes |-> flushed]]
        /\ content' = [content EXCEPT ![c] = None]
        /\ avail' = [idx |-> Plus(avail.idx, 1),
                     ring |-> [avail.ring EXCEPT ![Slot(avail.idx)] = c]]
  BY DEF Submit
<1>3. c \in Chain /\ Plus(avail.idx, 1) \in Idx /\ Slot(avail.idx) \in Chain
  BY <1>1, <1>2, PlusType, SlotType DEF TypeOK
<1>4. draining' = TRUE
      /\ UNCHANGED <<used, last_used, avail_last_idx, tag_bufchain, isr_status>>
  BY <1>1 DEF Submit
<1>5. avail' \in [idx : Idx, ring : [Chain -> Chain]]
  BY <1>1, <1>2, <1>3 DEF TypeOK
<1>6. request' \in [Chain -> Request] /\ content' \in [Chain -> Tag \cup {None}]
      /\ free' \subseteq Chain
  BY <1>1, <1>2, <1>3 DEF TypeOK, Request
<1>7. TypeOK'
  BY <1>1, <1>4, <1>5, <1>6 DEF TypeOK
<1>8. Head' = c /\ request'[c].tag = t
  BY <1>1, <1>2, <1>3, <1>4 DEF Head, TypeOK
<1>9. RingInv'
  BY <1>1, <1>2, <1>4, <1>8 DEF RingInv
<1> QED
  BY <1>7, <1>9 DEF IInv

LEMMA InterruptInv ==
  ASSUME IInv, Interrupt
  PROVE  IInv'
<1>1. TypeOK /\ RingInv
  BY DEF IInv
<1>2. \A i \in Idx : Slot(i) \in Chain
  BY SlotType
<1>3. Answered \subseteq Chain
  <2>1. \A k \in 0 .. Minus(used.idx, last_used) - 1 :
          used.ring[Slot(Plus(last_used, k))] \in Chain
    <3> TAKE k \in 0 .. Minus(used.idx, last_used) - 1
    <3>1. last_used \in Idx /\ k \in Nat /\ used.ring \in [Chain -> Chain]
      BY <1>1 DEF TypeOK
    <3>2. Slot(Plus(last_used, k)) \in Chain
      BY <1>2, <3>1, PlusType
    <3> QED
      BY <3>1, <3>2
  <2> QED
    BY <2>1 DEF Answered, Between
<1>4. request' \in [Chain -> Request]
  BY <1>1 DEF Interrupt, TypeOK, NoRequest, Request
<1>5. TypeOK'
  BY <1>1, <1>3, <1>4 DEF Interrupt, TypeOK, memory
<1>6. RingInv'
  BY <1>1 DEF Interrupt, RingInv, memory
<1> QED
  BY <1>5, <1>6 DEF IInv

\* The device takes a request: there is one, and then no other.
LEMMA PopInv ==
  ASSUME IInv, PopRequest, UNCHANGED avail
  PROVE  /\ request[Head].tag \in Tag /\ Head \in Chain
         /\ avail_last_idx' \in Idx /\ avail_last_idx' = avail'.idx
<1>1. TypeOK /\ RingInv
  BY DEF IInv
<1>2. avail.idx \in Idx /\ avail_last_idx \in Idx
  BY <1>1 DEF TypeOK
<1>3. avail.idx # avail_last_idx
  BY <1>2, MinusSelf DEF PopRequest, count_requests
<1>4. avail.idx = Plus(avail_last_idx, 1) /\ request[Head].tag \in Tag
  BY <1>1, <1>3 DEF PopRequest, RingInv
<1>5. Head \in Chain
  BY <1>1, <1>2, SlotType DEF Head, TypeOK
<1> QED
  BY <1>2, <1>4, <1>5 DEF PopRequest

LEMMA HandleInv ==
  ASSUME IInv, Handle
  PROVE  IInv'
<1> DEFINE t == request[Head].tag
           map == [tag_bufchain EXCEPT ![t] = Head]
<1>1. TypeOK /\ RingInv /\ draining
  BY DEF IInv, Handle, PopRequest
<1>2. /\ PopRequest
      /\ content' = [content EXCEPT ![map[t]] = t]
      /\ used' = [used EXCEPT !.ring[Slot(used.idx)] = map[t], !.idx = Plus(used.idx, 1)]
      /\ isr_status' = TRUE
      /\ tag_bufchain' = [map EXCEPT ![t] = None]
      /\ UNCHANGED <<avail, driver, draining>>
  BY DEF Handle, PushReply
<1>3. t \in Tag /\ Head \in Chain /\ avail_last_idx' \in Idx /\ avail_last_idx' = avail'.idx
  BY <1>2, PopInv
<1>4. tag_bufchain \in [Tag -> Chain \cup {None}] /\ content \in [Chain -> Tag \cup {None}]
      /\ used \in [idx : Idx, ring : [Chain -> Chain], avail_event : Idx]
  BY <1>1 DEF TypeOK
<1> HIDE DEF t
<1>5. map \in [Tag -> Chain \cup {None}] /\ map[t] = Head
  BY <1>3, <1>4
<1>6. Plus(used.idx, 1) \in Idx /\ Slot(used.idx) \in Chain
  BY <1>4, PlusType, SlotType
<1>7. used' \in [idx : Idx, ring : [Chain -> Chain], avail_event : Idx]
  BY <1>2, <1>3, <1>4, <1>5, <1>6
<1>8. content' \in [Chain -> Tag \cup {None}]
  BY <1>2, <1>3, <1>4, <1>5
<1>9. tag_bufchain' \in [Tag -> Chain \cup {None}]
  <2> HIDE DEF map
  <2> QED
    BY <1>2, <1>5
<1>10. TypeOK'
  BY <1>1, <1>2, <1>3, <1>7, <1>8, <1>9 DEF TypeOK, driver
<1>11. RingInv'
  BY <1>1, <1>2, <1>3 DEF RingInv
<1> QED
  BY <1>10, <1>11 DEF IInv

LEMMA HandlerFailsInv ==
  ASSUME IInv, HandlerFails
  PROVE  IInv'
<1>1. TypeOK /\ RingInv /\ draining
  BY DEF IInv, HandlerFails, PopRequest
<1>2. /\ request[Head].tag \in Tag /\ Head \in Chain
      /\ avail_last_idx' \in Idx /\ avail_last_idx' = avail'.idx
  BY PopInv DEF HandlerFails, memory
<1>3. tag_bufchain' \in [Tag -> Chain \cup {None}]
  BY <1>1, <1>2 DEF HandlerFails, TypeOK
<1>4. TypeOK'
  BY <1>1, <1>2, <1>3 DEF HandlerFails, TypeOK, memory, driver
<1>5. RingInv'
  BY <1>1, <1>2 DEF HandlerFails, RingInv
<1> QED
  BY <1>4, <1>5 DEF IInv

LEMMA DrainedInv ==
  ASSUME IInv, Drained
  PROVE  IInv'
<1>1. TypeOK /\ RingInv /\ draining
  BY DEF IInv, Drained
<1>2. avail.idx \in Idx /\ avail_last_idx \in Idx
  BY <1>1 DEF TypeOK
<1>3. avail.idx = avail_last_idx
  BY <1>1, <1>2, MinusNext DEF Drained, count_requests, RingInv
<1>4. TypeOK'
  BY <1>1, <1>2 DEF Drained, TypeOK, driver
<1>5. RingInv'
  BY <1>1, <1>3 DEF Drained, RingInv, TypeOK
<1> QED
  BY <1>4, <1>5 DEF IInv

LEMMA ResetInv ==
  ASSUME IInv, Reset
  PROVE  IInv'
<1>1. TypeOK
  BY DEF IInv
<1>2. TypeOK'
  BY <1>1, Modulus DEF Reset, NewRings, TypeOK, NoRequest, Request
<1>3. RingInv'
  BY DEF Reset, NewRings, RingInv
<1> QED
  BY <1>2, <1>3 DEF IInv

LEMMA NextInv == IInv /\ [Next]_vars => IInv'
<1> SUFFICES ASSUME IInv, [Next]_vars PROVE IInv'
  OBVIOUS
<1>1. CASE UNCHANGED vars
  BY <1>1 DEF vars, memory, driver, device, IInv, TypeOK, RingInv, Head
<1> QED
  BY <1>1, SubmitInv, InterruptInv, HandleInv, HandlerFailsInv, DrainedInv, ResetInv DEF Next

\* The indices stay within their width, the entries of the rings name chains
\* and the handler only sees chains with a request, whatever the ring's size.
THEOREM VirtioTypeCorrect == Spec => []TypeOK
<1>1. Init => IInv
  BY InitInv
<1>2. IInv => TypeOK
  BY DEF IInv
<1> QED
  BY <1>1, <1>2, NextInv, PTL DEF Spec

\* When a notification has returned no request is left in the ring, and the
\* device has asked to be notified of the next one: avail_event never skips one.
NoRequestMissed ==
  ~draining => count_requests = 0 /\ used.avail_event = avail.idx

THEOREM RequestsNotMissed == Spec => []NoRequestMissed
<1>1. Init => IInv
  BY InitInv
<1>2. IInv => NoRequestMissed
  BY MinusSelf DEF IInv, RingInv, TypeOK, NoRequestMissed, count_requests
<1> QED
  BY <1>1, <1>2, NextInv, PTL DEF Spec

\* An answer that the driver has not taken is announced by the interrupt.
THEOREM RepliesAnnounced == Spec => []ReplyAnnounced
<1>1. Init => ReplyAnnounced
  BY InitInv
<1>2. ReplyAnnounced /\ [Next]_vars => ReplyAnnounced'
  <2> SUFFICES ASSUME ReplyAnnounced, [Next]_vars PROVE ReplyAnnounced'
    OBVIOUS
  <2>1. ASSUME NEW t \in Tag, NEW flushed \in Tag \cup {None}, Submit(t, flushed)
        PROVE  ReplyAnnounced'
    BY <2>1 DEF Submit, ReplyAnnounced
  <2>2. CASE Interrupt
    BY <2>2 DEF Interrupt, memory, ReplyAnnounced
  <2>3. CASE Handle
    BY <2>3 DEF Handle, PushReply, ReplyAnnounced
  <2>4. CASE HandlerFails
    BY <2>4 DEF HandlerFails, memory, driver, ReplyAnnounced
  <2>5. CASE Drained
    BY <2>5 DEF Drained, driver, ReplyAnnounced
  <2>6. CASE Reset
    BY <2>6 DEF Reset, NewRings, ReplyAnnounced
  <2>7. CASE UNCHANGED vars
    BY <2>7 DEF vars, memory, driver, device, ReplyAnnounced
  <2> QED
    BY <2>1, <2>2, <2>3, <2>4, <2>5, <2>6, <2>7 DEF Next
<1> QED
  BY <1>1, <1>2, PTL DEF Spec
=============================================================================
