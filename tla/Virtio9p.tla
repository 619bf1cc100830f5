------------------------------ MODULE Virtio9p ------------------------------
(***************************************************************************)
(* How the 9P requests of a guest reach their handler and the answers come *)
(* back: the queue of src/virtio.js with the rings that it shares with the *)
(* driver, and the map from tags to buffer chains of Virtio9pHandler in    *)
(* src/lib/9p.js.                                                          *)
(*                                                                         *)
(* The driver's write to the notification port does not return before the  *)
(* device has emptied the queue, so the guest does nothing between Submit  *)
(* and Drained.  The handler answers a request at once, or not at all when *)
(* an error reaches its outer catch.                                       *)
(*                                                                         *)
(* The driver is the guest's: it puts one chain at a time into the ring,   *)
(* notifies the device when the device has asked for it, takes all answers *)
(* when it is interrupted, and flushes a request that is not answered.     *)
(***************************************************************************)
EXTENDS Integers, FiniteSets

CONSTANTS
  Size,     \* entries of a ring, 32 in the code; a chain is named by its head
  IdxMod,   \* indices are modulo IdxMod, 2^16 in the code
  Tag,      \* tags of 9P requests
  None      \* no tag, no chain

Chain == 0 .. Size - 1
Idx == 0 .. IdxMod - 1

ASSUME Virtio9pAssumption ==
  /\ Size \in Nat \ {0} /\ IdxMod \in Nat /\ IdxMod > Size /\ IdxMod % Size = 0
  /\ None \notin Tag /\ None \notin Chain

VARIABLES
  \* in the memory of the guest
  avail,           \* the ring of available chains and its index
  used,            \* the ring of used chains, its index and avail_event
  content,         \* the tag of the answer in the buffers of each chain
  \* in the driver
  free,            \* chains that hold no request
  request,         \* the request in each other chain
  last_used,       \* how far the driver has taken answers
  \* in the device
  avail_last_idx,  \* how far the device has taken requests
  tag_bufchain,    \* the chain of each tag the device has seen
  isr_status,      \* the interrupt is raised
  draining         \* the device is in its notification handler

memory == <<avail, used, content>>
driver == <<free, request, last_used>>
device == <<avail_last_idx, tag_bufchain, isr_status, draining>>
vars == <<memory, driver, device>>

Plus(i, n) == (i + n) % IdxMod
Minus(i, j) == (i - j) % IdxMod
Slot(i) == i % Size

\* Chains between two positions of a ring.
Between(ring, first, last) == {ring[Slot(Plus(first, k))] : k \in 0 .. Minus(last, first) - 1}

-----------------------------------------------------------------------------
(* The driver.                                                             *)

NoRequest == [tag |-> None, flushes |-> None]

Waiting == {c \in Chain : request[c] # NoRequest}
TagsInUse == {request[c].tag : c \in Waiting}

\* A request with tag t, which flushes the request of another tag or none.
\* The driver notifies the device if avail_event is the entry it has filled.
Submit(t, flushed) ==
  /\ ~draining
  /\ t \notin TagsInUse
  /\ flushed # None => /\ flushed \in TagsInUse
                       /\ \A c \in Waiting : request[c].flushes # flushed
  /\ \E c \in free :
       /\ free' = free \ {c}
       /\ request' = [request EXCEPT ![c] = [tag |-> t, flushes |-> flushed]]
       /\ content' = [content EXCEPT ![c] = None]
       /\ avail' = [idx |-> Plus(avail.idx, 1),
                    ring |-> [avail.ring EXCEPT ![Slot(avail.idx)] = c]]
  /\ draining' = (used.avail_event = avail.idx)
  /\ UNCHANGED <<used, last_used, avail_last_idx, tag_bufchain, isr_status>>

\* The answers the driver has not taken.
Answered == Between(used.ring, last_used, used.idx)

\* The interrupt: reading isr_status clears it, and the driver takes every
\* answer.  With the answer to a flush the request it flushed is given up; the
\* tag is free and the chain stays with the device.
Interrupt ==
  /\ ~draining /\ isr_status
  /\ isr_status' = FALSE
  /\ last_used' = used.idx
  /\ free' = free \cup Answered
  /\ LET flushed == {request[c].flushes : c \in Answered}
     IN request' = [c \in Chain |-> IF c \in Answered \/ request[c].tag \in flushed
                                    THEN NoRequest ELSE request[c]]
  /\ UNCHANGED <<memory, avail_last_idx, tag_bufchain, draining>>

-----------------------------------------------------------------------------
(* The device.                                                             *)

count_requests == Minus(avail.idx, avail_last_idx)

Head == avail.ring[Slot(avail_last_idx)]

\* (Mutant: the index of the device is not reduced to its 16 bits.)
PopRequestUnreduced ==
  /\ draining /\ count_requests # 0
  /\ avail_last_idx' = avail_last_idx + 1

\* pop_request, and the entry of the map for its tag, whether or not there
\* is one of a request that was never answered.
PopRequest ==
  /\ draining /\ count_requests # 0
  /\ avail_last_idx' = Plus(avail_last_idx, 1)

\* (Mutant: the condition that flush_replies computes and does not use, without
\* its case for an index that has wrapped; the driver's used_event is the
\* position up to which it has taken answers.)
PushReplyIfPassed(c) ==
  LET new_idx == Plus(used.idx, 1)
  IN /\ used' = [used EXCEPT !.ring[Slot(used.idx)] = c, !.idx = new_idx]
     /\ isr_status' = (isr_status \/ (used.idx <= last_used /\ last_used < new_idx))

\* push_reply and flush_replies of one answer in the chain c.
PushReply(c) ==
  /\ used' = [used EXCEPT !.ring[Slot(used.idx)] = c, !.idx = Plus(@, 1)]
  /\ isr_status' = TRUE

\* (Mutant: an entry that is there is kept.)
HandleKeepingEntry ==
  LET t == request[Head].tag
      map == IF tag_bufchain[t] = None THEN [tag_bufchain EXCEPT ![t] = Head] ELSE tag_bufchain
  IN /\ PopRequest
     /\ content' = [content EXCEPT ![map[t]] = t]
     /\ PushReply(map[t])
     /\ tag_bufchain' = [map EXCEPT ![t] = None]
     /\ UNCHANGED <<avail, driver, draining>>

\* The request of a driver that names it with the tag t is answered: the
\* answer carries the tag, finds its chain by it, and the entry is deleted.
Handle ==
  LET t == request[Head].tag
      map == [tag_bufchain EXCEPT ![t] = Head]
  IN /\ PopRequest
     /\ content' = [content EXCEPT ![map[t]] = t]
     /\ PushReply(map[t])
     /\ tag_bufchain' = [map EXCEPT ![t] = None]
     /\ UNCHANGED <<avail, driver, draining>>

\* The handler throws, logs the error and answers nothing.
HandlerFails ==
  /\ PopRequest
  /\ request[Head].flushes = None
  /\ tag_bufchain' = [tag_bufchain EXCEPT ![request[Head].tag] = Head]
  /\ UNCHANGED <<memory, driver, isr_status, draining>>

\* (Mutant: notify_me_after(1).)
DrainedSkippingOne ==
  /\ draining /\ count_requests = 0
  /\ used' = [used EXCEPT !.avail_event = Plus(avail.idx, 1)]
  /\ draining' = FALSE
  /\ UNCHANGED <<avail, content, driver, avail_last_idx, tag_bufchain, isr_status>>

\* notify_me_after(0), and the driver's write returns.
Drained ==
  /\ draining /\ count_requests = 0
  /\ used' = [used EXCEPT !.avail_event = avail.idx]
  /\ draining' = FALSE
  /\ UNCHANGED <<avail, content, driver, avail_last_idx, tag_bufchain, isr_status>>

-----------------------------------------------------------------------------
\* Rings that a driver has just set up.
NewRings ==
  /\ avail' = [idx |-> 0, ring |-> [i \in Chain |-> 0]]
  /\ used' = [idx |-> 0, ring |-> [i \in Chain |-> 0], avail_event |-> 0]
  /\ content' = [c \in Chain |-> None]
  /\ free' = Chain
  /\ request' = [c \in Chain |-> NoRequest]
  /\ last_used' = 0

\* The guest reboots: VirtIO.reset, and a driver that starts anew.  The map of
\* Virtio9pHandler stays.
Reset ==
  /\ ~draining
  /\ NewRings
  /\ avail_last_idx' = 0
  /\ isr_status' = FALSE
  /\ UNCHANGED <<tag_bufchain, draining>>

Init ==
  /\ avail = [idx |-> 0, ring |-> [i \in Chain |-> 0]]
  /\ used = [idx |-> 0, ring |-> [i \in Chain |-> 0], avail_event |-> 0]
  /\ content = [c \in Chain |-> None]
  /\ free = Chain
  /\ request = [c \in Chain |-> NoRequest]
  /\ last_used = 0
  /\ avail_last_idx = 0
  /\ tag_bufchain = [t \in Tag |-> None]
  /\ isr_status = FALSE
  /\ draining = FALSE

Next ==
  \/ \E t \in Tag, flushed \in Tag \cup {None} : Submit(t, flushed)
  \/ Interrupt
  \/ Handle \/ HandlerFails \/ Drained
  \/ Reset

Spec == Init /\ [][Next]_vars

\* The notification handler runs to its end, and a raised interrupt reaches
\* the driver.  The guest need not submit anything.
Fairness ==
  /\ WF_vars(Handle \/ HandlerFails)
  /\ WF_vars(Drained)
  /\ WF_vars(Interrupt)

FairSpec == Spec /\ Fairness

-----------------------------------------------------------------------------
(* Properties.                                                             *)

Request == [tag : Tag \cup {None}, flushes : Tag \cup {None}]

\* Every index stays within its 16 bits and every entry of a ring names a chain.
TypeOK ==
  /\ avail \in [idx : Idx, ring : [Chain -> Chain]]
  /\ used \in [idx : Idx, ring : [Chain -> Chain], avail_event : Idx]
  /\ content \in [Chain -> Tag \cup {None}]
  /\ free \subseteq Chain
  /\ request \in [Chain -> Request]
  /\ last_used \in Idx
  /\ avail_last_idx \in Idx
  /\ tag_bufchain \in [Tag -> Chain \cup {None}]
  /\ isr_status \in BOOLEAN
  /\ draining \in BOOLEAN

\* An answer in the ring that the driver has not taken is announced: the
\* interrupt is raised, whatever flush_replies finds in used_event and wherever
\* the index wraps.  A guest that missed one would wait for its file for ever.
ReplyAnnounced == used.idx # last_used => isr_status

\* A request is answered once, in its own buffers, under its own tag, also when
\* the tag was used by a request that failed or was given up and whose entry
\* in tag_bufchain is still there, also after a reboot, and across wraps.
R == INSTANCE RequestReply WITH
       asked <- {request[c].tag : c \in Waiting \ Answered},
       answered <- {content[c] : c \in Answered}

Implements == R!Spec

\* The device has taken the request with tag t and its handler threw.
Failed(t) ==
  \E c \in Waiting \ Between(avail.ring, avail_last_idx, avail.idx) :
    request[c].tag = t /\ tag_bufchain[t] = c

\* Every request comes to an end: the guest has its answer, gave it up or
\* rebooted, or the handler threw.  No request stays in the ring because the
\* device asked to be notified of a later one, and no answer untold.
RequestsEnd == \A t \in Tag : t \in TagsInUse ~> (t \notin TagsInUse \/ Failed(t))
=============================================================================
