-------------------------- MODULE Virtio9pRefinement --------------------------
(***************************************************************************)
(* The rings of Virtio9p and the map of Virtio9pHandler implement          *)
(* RequestReply, for rings of any size, indices of any width that is a     *)
(* multiple of it, and any number of tags.                                 *)
(*                                                                         *)
(* The core is that an answer can be added to the used ring without        *)
(* touching the ones the driver has not taken: their chains are distinct,  *)
(* so there are fewer of them than chains, so that the next position of    *)
(* the ring is free, also where the index has wrapped.                     *)
(***************************************************************************)
EXTENDS Virtio9pProofs, FiniteSetTheorems

Untaken == Minus(used.idx, last_used)
Position(k) == used.ring[Slot(Plus(last_used, k))]

\* No chain is answered twice before the driver takes it.
UsedInv == \A j, k \in 0 .. Untaken - 1 : Position(j) = Position(k) => j = k

\* A chain that is free holds no request and one that is answered does, with the
\* answer to it; a tag names one request; and the device has not answered
\* the request that it is about to take.
ChainInv ==
  /\ Waiting \cap free = {}
  /\ Answered \subseteq Waiting
  /\ \A c \in Answered : content[c] = request[c].tag
  /\ \A c \in Waiting : request[c].tag \in Tag
  /\ \A c, d \in Waiting : request[c].tag = request[d].tag => c = d
  /\ draining /\ avail.idx # avail_last_idx => Head \in Waiting \ Answered

RInv == IInv /\ UsedInv /\ ChainInv

-----------------------------------------------------------------------------
(* Arithmetic of the ring.                                                 *)

LEMMA NoMultiple ==
  ASSUME NEW S \in Nat, NEW m \in Int, NEW d \in Int, d = S * m, 0 < d, d < S
  PROVE  FALSE
<1>1. CASE m <= 0
  BY <1>1
<1>2. CASE m >= 1
  BY <1>2
<1> QED
  BY <1>1, <1>2

LEMMA DivMod ==
  ASSUME NEW a \in Int, NEW S \in Nat, S > 0
  PROVE  a \div S \in Int /\ a = S * (a \div S) + (a % S) /\ a % S \in Int
OBVIOUS

\* An index wraps at most once.
LEMMA PlusSplit ==
  ASSUME NEW i \in Idx, NEW n \in Idx
  PROVE  /\ i \in Int /\ n \in Int /\ Plus(i, n) \in Int
         /\ \/ Plus(i, n) = i + n /\ i + n < IdxMod
            \/ Plus(i, n) = i + n - IdxMod /\ i + n >= IdxMod
<1>1. i \in 0 .. IdxMod - 1 /\ n \in 0 .. IdxMod - 1 /\ IdxMod \in Nat /\ IdxMod > 1
  BY Modulus DEF Idx
<1>2. CASE i + n < IdxMod
  BY <1>1, <1>2 DEF Plus
<1>3. CASE i + n >= IdxMod
  <2>1. i + n - IdxMod \in 0 .. IdxMod - 1
    BY <1>1, <1>3
  <2>2. (i + n) % IdxMod = (i + n - IdxMod) % IdxMod
    BY <1>1, <1>3
  <2> QED
    BY <1>1, <1>3, <2>1, <2>2 DEF Plus
<1> QED
  BY <1>1, <1>2, <1>3

LEMMA MinusSplit ==
  ASSUME NEW i \in Idx, NEW j \in Idx
  PROVE  /\ i \in Int /\ j \in Int /\ Minus(i, j) \in Idx
         /\ \/ Minus(i, j) = i - j /\ i >= j
            \/ Minus(i, j) = i - j + IdxMod /\ i < j
<1>1. i \in 0 .. IdxMod - 1 /\ j \in 0 .. IdxMod - 1 /\ IdxMod \in Nat /\ IdxMod > 1
  BY Modulus DEF Idx
<1>2. CASE i >= j
  BY <1>1, <1>2 DEF Minus, Idx
<1>3. CASE i < j
  <2>1. i - j + IdxMod \in 0 .. IdxMod - 1
    BY <1>1, <1>3
  <2>2. (i - j) % IdxMod = (i - j + IdxMod) % IdxMod
    BY <1>1, <1>3
  <2> QED
    BY <1>1, <1>3, <2>1, <2>2 DEF Minus, Idx
<1> QED
  BY <1>1, <1>2, <1>3

LEMMA PlusMinus ==
  ASSUME NEW i \in Idx, NEW j \in Idx
  PROVE  Plus(j, Minus(i, j)) = i
<1>1. IdxMod \in Nat /\ i \in 0 .. IdxMod - 1 /\ j \in 0 .. IdxMod - 1
  BY Modulus DEF Idx
<1>2. /\ Minus(i, j) \in Idx
      /\ Minus(i, j) = i - j \/ Minus(i, j) = i - j + IdxMod
  BY MinusSplit
<1>3. \/ Plus(j, Minus(i, j)) = j + Minus(i, j) /\ j + Minus(i, j) < IdxMod
      \/ Plus(j, Minus(i, j)) = j + Minus(i, j) - IdxMod /\ j + Minus(i, j) >= IdxMod
  BY <1>2, PlusSplit
<1> QED
  BY <1>1, <1>2, <1>3

LEMMA MinusGrows ==
  ASSUME NEW i \in Idx, NEW j \in Idx, Minus(i, j) + 1 < IdxMod
  PROVE  Minus(Plus(i, 1), j) = Minus(i, j) + 1
<1>1. IdxMod \in Nat /\ i \in 0 .. IdxMod - 1 /\ j \in 0 .. IdxMod - 1 /\ 1 \in Idx
  BY Modulus DEF Idx
<1>2. Plus(i, 1) \in Idx
  BY PlusType
<1>3. /\ \/ Minus(i, j) = i - j /\ i >= j
         \/ Minus(i, j) = i - j + IdxMod /\ i < j
      /\ \/ Plus(i, 1) = i + 1 /\ i + 1 < IdxMod
         \/ Plus(i, 1) = i + 1 - IdxMod /\ i + 1 >= IdxMod
      /\ \/ Minus(Plus(i, 1), j) = Plus(i, 1) - j /\ Plus(i, 1) >= j
         \/ Minus(Plus(i, 1), j) = Plus(i, 1) - j + IdxMod /\ Plus(i, 1) < j
  BY <1>1, <1>2, MinusSplit, PlusSplit
<1> QED
  BY <1>1, <1>3

\* Two indices that are less than the ring's size apart have different slots.
LEMMA SlotsDiffer ==
  ASSUME NEW i \in Idx, NEW n \in Nat, NEW k \in Nat, k < n, n - k < Size, n < IdxMod
  PROVE  Slot(Plus(i, k)) # Slot(Plus(i, n))
<1>1. IdxMod \in Nat /\ Size \in Nat /\ Size > 0 /\ k \in Idx /\ n \in Idx
  BY Modulus DEF Idx
<1> DEFINE p == Plus(i, k)
           q == Plus(i, n)
           w == IdxMod \div Size
<1>2. IdxMod = Size * w /\ w \in Int
  <2>1. IdxMod % Size = 0
    BY Virtio9pAssumption
  <2>2. IdxMod = Size * w + (IdxMod % Size) /\ w \in Int
    BY <1>1, DivMod
  <2> QED
    BY <1>1, <2>1, <2>2
<1>3. /\ i \in Int /\ p \in Int /\ q \in Int
      /\ p = i + k \/ p = i + k - IdxMod
      /\ q = i + n \/ q = i + n - IdxMod
  BY <1>1, PlusSplit
<1> HIDE DEF p, q, w
<1>4. PICK e \in {-1, 0, 1} : n - k = q - p + e * IdxMod
  <2>1. n - k = q - p \/ n - k = q - p + IdxMod \/ n - k = q - p - IdxMod
    BY <1>1, <1>3
  <2>2. n - k = q - p + 0 * IdxMod \/ n - k = q - p + 1 * IdxMod \/ n - k = q - p + (-1) * IdxMod
    BY <1>1, <1>3, <2>1
  <2> QED
    BY <2>2
<1>5. ASSUME Slot(p) = Slot(q) PROVE FALSE
  <2> DEFINE a == p \div Size
             b == q \div Size
  <2>1. p = Size * a + Slot(p) /\ q = Size * b + Slot(q) /\ a \in Int /\ b \in Int
        /\ Slot(p) \in Int
    BY <1>1, <1>3, DivMod DEF Slot
  <2> HIDE DEF a, b
  <2>2. q - p = Size * (b - a)
    BY <1>1, <1>5, <2>1
  <2>3. e \in Int /\ n - k = Size * (b - a) + e * (Size * w)
    BY <1>2, <1>4, <2>2
  <2> DEFINE m == (b - a) + e * w
  <2>4. m \in Int /\ n - k = Size * m
    BY <1>1, <1>2, <2>1, <2>3
  <2> HIDE DEF m
  <2>5. n - k \in Int /\ 0 < n - k
    BY <1>1
  <2> QED
    BY <1>1, <2>4, <2>5, NoMultiple
<1> QED
  BY <1>5 DEF p, q

-----------------------------------------------------------------------------
(* The used ring.                                                          *)

LEMMA AnsweredIs ==
  ASSUME TypeOK
  PROVE  /\ used.idx \in Idx /\ last_used \in Idx /\ Untaken \in Idx /\ Untaken \in Nat
         /\ Untaken < IdxMod
         /\ Answered = {Position(k) : k \in 0 .. Untaken - 1}
         /\ \A k \in 0 .. Untaken - 1 : Position(k) \in Answered
         /\ Answered \subseteq Chain
<1>1. used.idx \in Idx /\ last_used \in Idx /\ used.ring \in [Chain -> Chain]
  BY DEF TypeOK
<1>2. Untaken \in Idx
  BY <1>1, MinusSplit DEF Untaken
<1>3. Untaken \in Nat /\ Untaken < IdxMod
  BY <1>2, Modulus DEF Idx
<1>4. Answered = {Position(k) : k \in 0 .. Untaken - 1}
  BY DEF Answered, Between, Position, Untaken
<1>5. \A k \in Nat : Position(k) \in Chain
  BY <1>1, PlusType, SlotType DEF Position
<1> QED
  BY <1>1, <1>2, <1>3, <1>4, <1>5

\* There is room for the answer in a chain that has none.
LEMMA Room ==
  ASSUME TypeOK, UsedInv, NEW c \in Chain \ Answered
  PROVE  Untaken < Size
<1> DEFINE n == Untaken
           f == [k \in 0 .. n |-> IF k = n THEN c ELSE Position(k)]
<1>1. n \in Nat /\ Size \in Nat /\ Size > 0
  BY AnsweredIs, Modulus
<1>2. \A k \in 0 .. n - 1 : Position(k) \in Answered /\ Position(k) \in Chain
  BY AnsweredIs
<1>3. f \in [0 .. n -> Chain]
  BY <1>1, <1>2
<1>4. \A j, k \in 0 .. n : f[j] = f[k] => j = k
  <2> SUFFICES ASSUME NEW j \in 0 .. n, NEW k \in 0 .. n, f[j] = f[k]
               PROVE  j = k
    OBVIOUS
  <2>1. CASE j # n /\ k # n
    <3>1. j \in 0 .. n - 1 /\ k \in 0 .. n - 1 /\ Position(j) = Position(k)
      BY <1>1, <2>1
    <3> QED
      BY <3>1 DEF UsedInv
  <2>2. CASE j = n /\ k # n
    <3>1. k \in 0 .. n - 1 /\ Position(k) = c
      BY <1>1, <2>2
    <3> QED
      BY <1>2, <3>1
  <2>3. CASE j # n /\ k = n
    <3>1. j \in 0 .. n - 1 /\ Position(j) = c
      BY <1>1, <2>3
    <3> QED
      BY <1>2, <3>1
  <2> QED
    BY <2>1, <2>2, <2>3
<1>5. IsFiniteSet(0 .. n) /\ Cardinality(0 .. n) = n + 1
  BY <1>1, FS_Interval
<1>6. IsFiniteSet(Chain) /\ Cardinality(Chain) = Size
  BY <1>1, FS_Interval DEF Chain
<1> HIDE DEF f
<1>7. ASSUME Cardinality(Chain) < Cardinality(0 .. n) PROVE FALSE
  <2>1. \E j, k \in 0 .. n : j # k /\ f[j] = f[k]
    BY <1>3, <1>5, <1>6, <1>7, FS_PigeonHole
  <2> QED
    BY <1>4, <2>1
<1> QED
  BY <1>1, <1>5, <1>6, <1>7

\* An answer is added: the ones before it stay as they are.
LEMMA PushedRing ==
  ASSUME TypeOK, UsedInv, NEW c \in Chain \ Answered, last_used' = last_used,
         used'.idx = Plus(used.idx, 1),
         used'.ring = [used.ring EXCEPT ![Slot(used.idx)] = c]
  PROVE  UsedInv' /\ Answered' = Answered \cup {c}
<1> PICK n \in Nat : n = Untaken
  BY AnsweredIs
<1>1. /\ n = Untaken /\ n \in Idx /\ IdxMod \in Nat /\ n < Size /\ n + 1 < IdxMod /\ used.idx \in Idx
      /\ last_used \in Idx /\ used.ring \in [Chain -> Chain] /\ Size \in Nat
  BY AnsweredIs, Room, Modulus, Virtio9pAssumption DEF TypeOK
<1>2. Untaken' = n + 1
  <2>1. Minus(used.idx, last_used) = n
    BY <1>1 DEF Untaken
  <2>2. Minus(used.idx, last_used) + 1 < IdxMod
    BY <1>1, <2>1
  <2>3. Minus(Plus(used.idx, 1), last_used) = Minus(used.idx, last_used) + 1
    BY <1>1, <2>2, MinusGrows
  <2> QED
    BY <2>1, <2>3 DEF Untaken
<1>3. Plus(last_used, n) = used.idx
  BY <1>1, PlusMinus DEF Untaken
<1>4. Position(n)' = c
  <2>1. Slot(used.idx) \in Chain
    BY <1>1, SlotType
  <2>2. Position(n)' = used'.ring[Slot(Plus(last_used, n))]
    BY DEF Position
  <2> QED
    BY <1>1, <1>3, <2>1, <2>2
<1>5. \A k \in 0 .. n - 1 : Position(k)' = Position(k)
  <2> TAKE k \in 0 .. n - 1
  <2>1. k \in Nat /\ k < n /\ n - k < Size /\ n < IdxMod
    BY <1>1
  <2>2. Slot(Plus(last_used, k)) # Slot(used.idx)
    BY <1>1, <1>3, <2>1, SlotsDiffer
  <2>3. Slot(Plus(last_used, k)) \in Chain
    BY <1>1, <2>1, PlusType, SlotType
  <2> QED
    BY <1>1, <2>2, <2>3 DEF Position
<1>6. \A k \in 0 .. n - 1 : Position(k) \in Answered
  BY <1>1, AnsweredIs
<1>7. UsedInv'
  <2> SUFFICES ASSUME NEW j \in 0 .. n, NEW k \in 0 .. n, Position(j)' = Position(k)'
               PROVE  j = k
    BY <1>1, <1>2 DEF UsedInv
  <2>1. j \in 0 .. n - 1 \/ j = n
    BY <1>1
  <2>2. k \in 0 .. n - 1 \/ k = n
    BY <1>1
  <2> QED
    BY <1>4, <1>5, <1>6, <2>1, <2>2 DEF UsedInv
<1>8. Answered' = {Position(k)' : k \in 0 .. n}
  BY <1>1, <1>2 DEF Answered, Between, Position, Untaken
<1>9. Answered = {Position(k) : k \in 0 .. n - 1}
  BY <1>1, AnsweredIs
<1>10. 0 .. n = (0 .. n - 1) \cup {n}
  BY <1>1
<1> QED
  BY <1>4, <1>5, <1>7, <1>8, <1>9, <1>10

\* When the driver has taken every answer there is none.
LEMMA NothingUntaken ==
  ASSUME used.idx \in Idx, last_used = used.idx
  PROVE  Answered = {} /\ UsedInv
<1>1. Minus(used.idx, last_used) = 0
  BY MinusSelf
<1>2. 0 .. Minus(used.idx, last_used) - 1 = {}
  BY <1>1
<1> QED
  BY <1>2 DEF Answered, Between, UsedInv, Untaken

-----------------------------------------------------------------------------
(* Each step keeps the invariant and is a step of RequestReply.            *)

asked == {request[c].tag : c \in Waiting \ Answered}
answered == {content[c] : c \in Answered}

LEMMA RInit == Init => RInv /\ R!Init
<1> SUFFICES ASSUME Init PROVE RInv /\ R!Init
  OBVIOUS
<1>1. IInv /\ Waiting = {}
  BY InitInv DEF Init, Waiting
<1>2. used.idx \in Idx /\ last_used = used.idx
  BY Modulus DEF Init
<1>3. Answered = {} /\ UsedInv
  BY <1>2, NothingUntaken
<1>4. ChainInv
  BY <1>1, <1>3 DEF Init, ChainInv
<1> QED
  BY <1>1, <1>3, <1>4 DEF RInv, R!Init

\* A step that leaves the used ring alone leaves the answers alone.
LEMMA SameAnswers ==
  ASSUME used'.idx = used.idx, used'.ring = used.ring, last_used' = last_used
  PROVE  Answered' = Answered /\ (UsedInv => UsedInv')
BY DEF Answered, Between, UsedInv, Untaken, Position

LEMMA SubmitRefines ==
  ASSUME RInv, NEW t \in Tag, NEW flushed \in Tag \cup {None}, Submit(t, flushed)
  PROVE  RInv' /\ R!Ask(t)
<1>1. IInv /\ IInv' /\ TypeOK /\ UsedInv /\ ChainInv
  BY SubmitInv DEF RInv, IInv
<1>2. PICK c \in free :
        /\ free' = free \ {c}
        /\ request' = [request EXCEPT ![c] = [tag |-> t, flushes |-> flushed]]
        /\ content' = [content EXCEPT ![c] = None]
        /\ avail' = [idx |-> Plus(avail.idx, 1),
                     ring |-> [avail.ring EXCEPT ![Slot(avail.idx)] = c]]
  BY DEF Submit
<1>3. /\ Answered' = Answered /\ UsedInv'
      /\ t \notin TagsInUse
  BY <1>1, SameAnswers DEF Submit
<1>4. c \in Chain /\ c \notin Waiting /\ c \notin Answered
  BY <1>1, <1>2 DEF ChainInv, TypeOK
<1>5. /\ request \in [Chain -> Request] /\ content \in [Chain -> Tag \cup {None}]
      /\ Answered \subseteq Chain
  BY <1>1, AnsweredIs DEF TypeOK
<1>6. request'[c].tag = t /\ \A d \in Chain \ {c} : request'[d] = request[d]
  BY <1>2, <1>4, <1>5
<1>7. Waiting' = Waiting \cup {c}
  <2>1. request'[c] # NoRequest
    BY <1>6, Virtio9pAssumption DEF NoRequest
  <2> QED
    BY <1>4, <1>6, <2>1 DEF Waiting
<1>8. \A d \in Waiting : request[d].tag # t
  BY <1>3 DEF TagsInUse
<1>9. \A d \in Waiting : d \in Chain /\ d # c
  BY <1>4 DEF Waiting
<1>10. \A d \in Answered : content'[d] = content[d]
  BY <1>2, <1>4, <1>5
<1>11. Head' = c
  BY <1>1, <1>2, SlotType DEF Head, Submit, IInv, RingInv, TypeOK
<1>12. ChainInv'
  <2>1. Waiting' \cap free' = {} /\ Answered' \subseteq Waiting'
    BY <1>1, <1>2, <1>3, <1>7 DEF ChainInv
  <2>2. \A d \in Answered' : content'[d] = request'[d].tag
    BY <1>1, <1>3, <1>4, <1>5, <1>6, <1>10 DEF ChainInv
  <2>3. \A d \in Waiting' : request'[d].tag \in Tag
    BY <1>1, <1>6, <1>7, <1>9 DEF ChainInv
  <2>4. \A d, e \in Waiting' : request'[d].tag = request'[e].tag => d = e
    BY <1>1, <1>6, <1>7, <1>8, <1>9 DEF ChainInv
  <2>5. Head' \in Waiting' \ Answered'
    BY <1>3, <1>4, <1>7, <1>11
  <2> QED
    BY <2>1, <2>2, <2>3, <2>4, <2>5 DEF ChainInv
<1>13. asked' = asked \cup {t} /\ answered' = answered /\ t \notin asked \cup answered
  <2>1. answered' = answered
    BY <1>3, <1>10 DEF answered
  <2>2. Waiting' \ Answered' = (Waiting \ Answered) \cup {c}
    BY <1>3, <1>4, <1>7
  <2>3. asked' = asked \cup {t}
    BY <1>6, <1>9, <2>2 DEF asked
  <2>4. t \notin asked
    BY <1>8 DEF asked
  <2>5. t \notin answered
    BY <1>1, <1>8 DEF answered, ChainInv
  <2> QED
    BY <2>1, <2>3, <2>4, <2>5
<1> QED
  BY <1>1, <1>3, <1>12, <1>13 DEF RInv, R!Ask, asked, answered

LEMMA InterruptRefines ==
  ASSUME RInv, Interrupt
  PROVE  RInv' /\ [R!Next]_(R!vars)
<1> DEFINE flushed == {request[c].flushes : c \in Answered}
<1>1. IInv /\ IInv' /\ TypeOK /\ ChainInv /\ Answered \subseteq Chain
  BY InterruptInv, AnsweredIs DEF RInv, IInv
<1>2. /\ last_used' = used.idx /\ used' = used /\ content' = content
      /\ avail' = avail /\ draining' = draining /\ ~draining
      /\ free' = free \cup Answered
      /\ request' = [c \in Chain |-> IF c \in Answered \/ request[c].tag \in flushed
                                     THEN NoRequest ELSE request[c]]
  BY DEF Interrupt, memory
<1>3. Answered' = {} /\ UsedInv'
  <2>1. used'.idx \in Idx /\ last_used' = used'.idx
    BY <1>1, <1>2 DEF TypeOK
  <2>2. Minus(used'.idx, last_used') = 0
    BY <2>1, MinusSelf
  <2>3. 0 .. Minus(used'.idx, last_used') - 1 = {}
    BY <2>2
  <2> QED
    BY <2>3 DEF Answered, Between, UsedInv, Untaken
<1> HIDE DEF flushed
<1>4. Waiting' = {c \in Waiting \ Answered : request[c].tag \notin flushed}
  BY <1>2 DEF Waiting
<1>5. \A c \in Waiting' : request'[c] = request[c] /\ c \in Waiting \ Answered
  BY <1>2, <1>4 DEF Waiting
<1>6. ChainInv'
  <2>1. Waiting' \cap free' = {}
    BY <1>1, <1>2, <1>5 DEF ChainInv
  <2>2. /\ \A c \in Waiting' : request'[c].tag \in Tag
        /\ \A c, d \in Waiting' : request'[c].tag = request'[d].tag => c = d
    BY <1>1, <1>5 DEF ChainInv
  <2> QED
    BY <1>2, <1>3, <2>1, <2>2 DEF ChainInv
<1>7. answered' = {}
  BY <1>3 DEF answered
<1>8. asked' = asked \ flushed
  BY <1>3, <1>4, <1>5 DEF asked
<1>9. CASE answered = {}
  <2>1. Answered = {}
    BY <1>9 DEF answered
  <2>2. flushed = {}
    BY <2>1 DEF flushed
  <2> QED
    BY <1>1, <1>3, <1>6, <1>7, <1>8, <1>9, <2>2 DEF RInv, R!vars, asked, answered
<1>10. CASE answered # {}
  <2>1. PICK given_up \in SUBSET asked : asked' = asked \ given_up
    <3>1. asked \cap flushed \in SUBSET asked /\ asked' = asked \ (asked \cap flushed)
      BY <1>8
    <3> QED
      BY <3>1
  <2>2. R!Take(given_up)
    BY <1>7, <1>10, <2>1 DEF R!Take, asked, answered
  <2>3. R!Next
    BY <2>1, <2>2 DEF R!Next, asked
  <2> QED
    BY <1>1, <1>3, <1>6, <2>3 DEF RInv
<1> QED
  BY <1>9, <1>10

LEMMA HandleRefines ==
  ASSUME RInv, Handle
  PROVE  RInv' /\ \E t \in Tag : R!Answer(t)
<1>1. IInv /\ IInv' /\ TypeOK /\ UsedInv /\ ChainInv /\ Answered \subseteq Chain
  BY HandleInv, AnsweredIs DEF RInv, IInv
<1> DEFINE t == request[Head].tag
           map == [tag_bufchain EXCEPT ![t] = Head]
<1>2. /\ PopRequest
      /\ content' = [content EXCEPT ![map[t]] = t]
      /\ used' = [used EXCEPT !.ring[Slot(used.idx)] = map[t], !.idx = Plus(used.idx, 1)]
      /\ UNCHANGED <<avail, free, request, last_used, draining>>
  BY DEF Handle, PushReply, driver
<1>3. t \in Tag /\ Head \in Chain /\ avail_last_idx' = avail'.idx
  BY <1>1, <1>2, PopInv
<1>4. map[t] = Head
  BY <1>1, <1>3 DEF TypeOK
<1>5. avail.idx # avail_last_idx
  BY <1>1, <1>2, MinusSelf DEF PopRequest, count_requests, TypeOK
<1>6. Head \in Waiting \ Answered
  BY <1>1, <1>2, <1>5 DEF ChainInv, PopRequest
<1> HIDE DEF map
<1>7. UsedInv' /\ Answered' = Answered \cup {Head}
  <2>1. used \in [idx : Idx, ring : [Chain -> Chain], avail_event : Idx]
    BY <1>1 DEF TypeOK
  <2>2. used'.idx = Plus(used.idx, 1) /\ used'.ring = [used.ring EXCEPT ![Slot(used.idx)] = Head]
    BY <1>2, <1>4, <2>1
  <2>3. PICK c \in Chain \ Answered : c = Head
    BY <1>3, <1>6
  <2> QED
    BY <1>1, <1>2, <2>2, <2>3, PushedRing
<1> DEFINE h == Head
<1>8. h \in Waiting \ Answered /\ request[h].tag = t /\ Answered' = Answered \cup {h}
  BY <1>6, <1>7
<1>9. content' = [content EXCEPT ![h] = t] /\ request' = request
  BY <1>2, <1>4
<1>10. content \in [Chain -> Tag \cup {None}] /\ h \in Chain
  BY <1>1, <1>3 DEF TypeOK
<1> HIDE DEF h, t
<1>11. Waiting' = Waiting
  BY <1>9 DEF Waiting
<1>12. content'[h] = t /\ \A d \in Answered : content'[d] = content[d]
  BY <1>1, <1>8, <1>9, <1>10
<1>13. ChainInv'
  <2>1. \A d \in Answered' : content'[d] = request'[d].tag
    BY <1>1, <1>8, <1>9, <1>12 DEF ChainInv
  <2>2. Answered' \subseteq Waiting'
    BY <1>1, <1>8, <1>11 DEF ChainInv
  <2>3. avail'.idx = avail_last_idx'
    BY <1>3
  <2> QED
    BY <1>1, <1>2, <1>9, <1>11, <2>1, <2>2, <2>3 DEF ChainInv
<1>14. answered' = answered \cup {t}
  BY <1>8, <1>12 DEF answered
<1>15. asked' = asked \ {t} /\ t \in asked
  <2>1. Waiting' \ Answered' = (Waiting \ Answered) \ {h}
    BY <1>8, <1>11
  <2>2. \A d \in Waiting : request[d].tag = t => d = h
    BY <1>1, <1>8 DEF ChainInv
  <2> QED
    BY <1>8, <1>9, <2>1, <2>2 DEF asked
<1>16. \E u \in Tag : R!Answer(u)
  <2>1. PICK u \in Tag : u = t
    BY <1>3
  <2>2. R!Answer(u)
    BY <1>14, <1>15, <2>1 DEF R!Answer, asked, answered
  <2> QED
    BY <2>2
<1> QED
  BY <1>1, <1>7, <1>13, <1>16 DEF RInv

\* The handler that throws, and the end of a notification, are no steps of the
\* abstract specification.
LEMMA SilentRefines ==
  ASSUME RInv, HandlerFails \/ Drained \/ UNCHANGED vars
  PROVE  RInv' /\ UNCHANGED R!vars
<1>1. IInv /\ TypeOK /\ UsedInv /\ ChainInv
  BY DEF RInv, IInv
<1>2. IInv'
  BY <1>1, HandlerFailsInv, DrainedInv, NextInv
<1>3. /\ UNCHANGED <<avail, content, free, request, last_used>>
      /\ used'.idx = used.idx /\ used'.ring = used.ring
  BY <1>1 DEF HandlerFails, Drained, vars, memory, driver, TypeOK
<1>4. Answered' = Answered /\ UsedInv' /\ Waiting' = Waiting
  BY <1>1, <1>3, SameAnswers DEF Waiting
<1>5. draining' /\ avail'.idx # avail_last_idx' => Head' \in Waiting' \ Answered'
  <2>1. CASE HandlerFails
    BY <1>1, <2>1, PopInv DEF HandlerFails, memory
  <2>2. CASE Drained
    BY <2>2 DEF Drained
  <2>3. CASE UNCHANGED vars
    BY <1>1, <1>4, <2>3 DEF vars, memory, device, Head, ChainInv
  <2> QED
    BY <2>1, <2>2, <2>3
<1>6. ChainInv'
  BY <1>1, <1>3, <1>4, <1>5 DEF ChainInv
<1>7. UNCHANGED <<asked, answered>>
  BY <1>3, <1>4 DEF asked, answered
<1> QED
  BY <1>2, <1>4, <1>6, <1>7 DEF RInv, R!vars, asked, answered

LEMMA ResetRefines ==
  ASSUME RInv, Reset
  PROVE  RInv' /\ R!Reboot
<1>1. IInv'
  BY ResetInv DEF RInv
<1>2. Waiting' = {}
  BY DEF Reset, NewRings, Waiting
<1>3. Minus(used'.idx, last_used') = 0
  BY Modulus, MinusSelf DEF Reset, NewRings
<1>4. 0 .. Minus(used'.idx, last_used') - 1 = {}
  BY <1>3
<1>5. Answered' = {} /\ UsedInv'
  BY <1>4 DEF Answered, Between, UsedInv, Untaken
<1>6. ChainInv'
  BY <1>2, <1>5 DEF ChainInv, Reset
<1> QED
  BY <1>1, <1>2, <1>5, <1>6 DEF RInv, R!Reboot

\* Every behaviour of the rings, the device and the driver is one of
\* RequestReply: a request is answered at most once, in its own buffers, under
\* its own tag, however the indices wrap and whatever the map still holds of
\* requests that were never answered.
THEOREM VirtioImplementsRequestReply == Spec => Implements
<1>1. Init => RInv /\ R!Init
  BY RInit
<1>2. RInv /\ [Next]_vars => RInv' /\ [R!Next]_(R!vars)
  <2> SUFFICES ASSUME RInv, [Next]_vars
               PROVE  RInv' /\ [R!Next]_(R!vars)
    OBVIOUS
  <2>1. ASSUME NEW t \in Tag, NEW flushed \in Tag \cup {None}, Submit(t, flushed)
        PROVE  RInv' /\ R!Next
    BY <2>1, SubmitRefines DEF R!Next
  <2>2. CASE Interrupt
    BY <2>2, InterruptRefines
  <2>3. CASE Handle
    BY <2>3, HandleRefines DEF R!Next
  <2>4. CASE HandlerFails \/ Drained \/ UNCHANGED vars
    BY <2>4, SilentRefines
  <2>5. CASE Reset
    BY <2>5, ResetRefines DEF R!Next
  <2> QED
    BY <2>1, <2>2, <2>3, <2>4, <2>5 DEF Next
<1> QED
  BY <1>1, <1>2, PTL DEF Spec, Implements, R!Spec
=============================================================================
