----------------------------- MODULE NinePProofs -----------------------------
(***************************************************************************)
(* Proofs about NinePHandler: what a restart reads is what the caches hold,*)
(* every descriptor that a fid uses is its own, and metadata follow and    *)
(* stay with their files.                                                  *)
(***************************************************************************)
EXTENDS NinePHandler, SequenceTheorems, TLAPS

-----------------------------------------------------------------------------
(* The caches and their files *)

\* Saves that succeed leave every field they touch equal to its file.
LEMMA SavedKeepsCache ==
  ASSUME NEW order, NEW new, CacheSaved, Saved(order, new)
  PROVE  CacheSaved'
<1> DEFINE done == ToSet(order)
<1>1. store' = [meta  |-> [f \in Fields |-> IF f \in done THEN new[f] ELSE meta[f]],
                saved |-> [f \in Fields |-> IF f \in done THEN new[f] ELSE store.saved[f]],
                dirty |-> [f \in Fields |-> store.dirty[f] /\ f \notin done]]
  BY DEF Saved
<1> HIDE DEF done
<1> SUFFICES ASSUME NEW f \in Fields, ~store'.dirty[f]
             PROVE  store'.saved[f] = store'.meta[f]
  BY DEF CacheSaved, meta
<1>2. f \in done \/ ~store.dirty[f]
  BY <1>1
<1> QED
  BY <1>1, <1>2 DEF CacheSaved, meta

\* A save that fails leaves every field whose cache changed marked, unless it
\* was saved before.
LEMMA SaveFailsKeepsCache ==
  ASSUME NEW order, NEW new, NEW ahead, NEW places, CacheSaved,
         SaveFails(order, new, ahead, places)
  PROVE  CacheSaved'
<1>1. PICK k, content : store' = Interrupted(order, new, ahead, k, content)
  BY DEF SaveFails
<1> DEFINE done == {order[i] : i \in 1 .. k - 1}
           cached == done \cup ahead \cup {order[k]}
<1>2. done \subseteq cached /\ order[k] \in cached
  OBVIOUS
<1>3. store' = [meta  |-> [f \in Fields |-> IF f \in cached THEN new[f] ELSE meta[f]],
                saved |-> [f \in Fields |-> IF f \in done THEN new[f]
                                            ELSE IF f = order[k] THEN content
                                            ELSE store.saved[f]],
                dirty |-> [f \in Fields |-> StaysDirty(f, cached, done)]]
  BY <1>1 DEF Interrupted
<1> HIDE DEF done, cached
<1> SUFFICES ASSUME NEW f \in Fields, ~store'.dirty[f]
             PROVE  store'.saved[f] = store'.meta[f]
  BY DEF CacheSaved, meta
<1>4. f \in done \/ (f \notin cached /\ ~store.dirty[f])
  BY <1>3 DEF StaysDirty
<1>5. CASE f \in done
  BY <1>2, <1>3, <1>5
<1>6. CASE f \notin cached /\ ~store.dirty[f]
  BY <1>2, <1>3, <1>6 DEF CacheSaved, meta
<1> QED
  BY <1>4, <1>5, <1>6

\* A step that leaves the store alone leaves the caches as they were saved.
LEMMA SameStoreKeepsCache ==
  ASSUME CacheSaved, UNCHANGED store
  PROVE  CacheSaved'
BY DEF CacheSaved, meta

LEMMA InitCache == Init => CacheSaved
BY DEF Init, CacheSaved, meta, InitialMeta

\* Every request, every change with the file manager and every restart.
LEMMA NextCache == CacheSaved /\ [Next]_vars => CacheSaved'
<1> SUFFICES ASSUME CacheSaved, [Next]_vars
             PROVE  CacheSaved'
  OBVIOUS
<1>1. ASSUME NEW f \in Fids, FidRequest(f)
      PROVE  CacheSaved'
  <2>1. CASE Attach(f) \/ Walk(f) \/ Open(f) \/ Clunk(f) \/ ClunkFails(f)
    BY <2>1, SameStoreKeepsCache DEF Attach, Walk, Open, Clunk, ClunkFails
  <2>2. ASSUME NEW p \in Paths, NEW target \in Targets(p), RemoveFid(f, p, target)
        PROVE  CacheSaved'
    BY <2>2, SavedKeepsCache, SaveFailsKeepsCache DEF RemoveFid, Unlink
  <2>3. ASSUME NEW p \in Paths, NEW target \in Targets(p), Create(f, p, target)
        PROVE  CacheSaved'
    BY <2>3, SavedKeepsCache, SaveFailsKeepsCache DEF Create
  <2> QED
    BY <1>1, <2>1, <2>2, <2>3 DEF FidRequest
<1>2. CASE PlaceRequest
  <2> PICK p \in Paths :
        \/ Mkdir(p)
        \/ \E q \in Paths : Renameat(p, q)
        \/ \E target \in Targets(p) :
             Setattr(p, target) \/ Symlink(p, target) \/ Unlinkat(p, target)
    BY <1>2 DEF PlaceRequest
  <2>1. CASE Mkdir(p)
    BY <2>1, SavedKeepsCache, SaveFailsKeepsCache DEF Mkdir
  <2>2. ASSUME NEW q \in Paths, Renameat(p, q)
        PROVE  CacheSaved'
    BY <2>2, SavedKeepsCache, SaveFailsKeepsCache DEF Renameat
  <2>3. ASSUME NEW target \in Targets(p), Setattr(p, target)
        PROVE  CacheSaved'
    BY <2>3, SavedKeepsCache, SaveFailsKeepsCache DEF Setattr
  <2>4. ASSUME NEW target \in Targets(p), Symlink(p, target)
        PROVE  CacheSaved'
    BY <2>4, SavedKeepsCache, SaveFailsKeepsCache DEF Symlink
  <2>5. ASSUME NEW target \in Targets(p), Unlinkat(p, target)
        PROVE  CacheSaved'
    BY <2>5, SavedKeepsCache, SaveFailsKeepsCache DEF Unlinkat, Unlink
  <2> QED
    BY <2>1, <2>2, <2>3, <2>4, <2>5
<1>3. CASE Host
  BY <1>3, SameStoreKeepsCache
     DEF Host, HostWrite, HostMkdir, HostUpload, HostRemove, HostRename, HostChange
<1>4. ASSUME NEW sameProcess \in BOOLEAN, Reload(sameProcess)
      PROVE  CacheSaved'
  BY <1>4 DEF Reload, CacheSaved, meta
<1>5. CASE UNCHANGED vars
  BY <1>5, SameStoreKeepsCache DEF vars
<1> QED
  BY <1>1, <1>2, <1>3, <1>4, <1>5 DEF Next

\* What is not marked as still to be saved is what a restart will read, after
\* any number of saves that failed.
THEOREM CacheAlwaysSaved == Spec => []CacheSaved
BY InitCache, NextCache, PTL DEF Spec

-----------------------------------------------------------------------------
(* The descriptors *)

\* DescriptorsHeld is inductive once fids is known to be a function.
DescInv == fids \in [Fids -> Descriptors \cup {NotOpen}] /\ DescriptorsHeld

\* A fid that comes by a free descriptor has it alone, unless its number is one
\* that a failed close has left with another fid.
LEMMA OpenKeepsDesc ==
  ASSUME DescInv, NEW f \in Fids, NEW d \in Free,
         open' = open \cup {d}, fids' = [fids EXCEPT ![f] = d], UNCHANGED unsure
  PROVE  DescInv'
<1>1. d \in Descriptors /\ d # NotOpen /\ d \notin open
  BY NinePAssumption DEF Free
<1>2. fids' \in [Fids -> Descriptors \cup {NotOpen}]
  BY <1>1 DEF DescInv
<1>3. ASSUME NEW g \in Fids, fids'[g] \notin unsure \cup {NotOpen}
      PROVE  fids'[g] \in open' /\ \A h \in Fids \ {g} : fids'[h] # fids'[g]
  BY <1>1, <1>3 DEF DescInv, DescriptorsHeld
<1> QED
  BY <1>2, <1>3 DEF DescInv, DescriptorsHeld

\* A fid that gives its descriptor up takes no other's, closed or left open: one
\* that closes another's file has a number that is marked.
LEMMA LetGoKeepsDesc ==
  ASSUME DescInv, NEW f \in Fids,
         open' = open \/ open' = open \ {fids[f]},
         fids' = [fids EXCEPT ![f] = NotOpen], UNCHANGED unsure
  PROVE  DescInv'
<1>1. fids' \in [Fids -> Descriptors \cup {NotOpen}]
  BY DEF DescInv
<1>2. ASSUME NEW g \in Fids, fids'[g] \notin unsure \cup {NotOpen}
      PROVE  fids'[g] \in open' /\ \A h \in Fids \ {g} : fids'[h] # fids'[g]
  <2>1. g # f /\ fids'[g] = fids[g]
    BY <1>2 DEF DescInv
  <2>2. fids[g] \in open /\ \A h \in Fids \ {g} : fids[h] # fids[g]
    BY <1>2, <2>1 DEF DescInv, DescriptorsHeld
  <2>3. \A h \in Fids \ {g} : fids'[h] \in {fids[h], NotOpen}
    BY DEF DescInv
  <2> QED
    BY <1>2, <2>1, <2>2, <2>3
<1> QED
  BY <1>1, <1>2 DEF DescInv, DescriptorsHeld

\* A close that fails marks the one number that it takes from its fid.
LEMMA FailedCloseKeepsDesc ==
  ASSUME DescInv, NEW f \in Fids, UNCHANGED fids,
         open' = open \ {fids[f]}, unsure' = unsure \cup {fids[f]}
  PROVE  DescInv'
BY DEF DescInv, DescriptorsHeld

\* Opening more descriptors than the fids hold disturbs none of them.
LEMMA SameFidsKeepDesc ==
  ASSUME DescInv, UNCHANGED <<fids, unsure>>, open \subseteq open'
  PROVE  DescInv'
BY DEF DescInv, DescriptorsHeld

LEMMA InitDesc == Init => DescInv
BY DEF Init, DescInv, DescriptorsHeld

LEMMA NextDesc == DescInv /\ [Next]_vars => DescInv'
<1> SUFFICES ASSUME DescInv, [Next]_vars
             PROVE  DescInv'
  OBVIOUS
<1>1. ASSUME NEW f \in Fids, FidRequest(f)
      PROVE  DescInv'
  <2>1. CASE Attach(f) \/ Walk(f) \/ Clunk(f)
    BY <2>1, LetGoKeepsDesc DEF Attach, Walk, Clunk
  <2>5. CASE ClunkFails(f)
    BY <2>5, FailedCloseKeepsDesc DEF ClunkFails
  <2>2. CASE Open(f)
    BY <2>2, OpenKeepsDesc DEF Open
  <2>3. ASSUME NEW p \in Paths, NEW target \in Targets(p), RemoveFid(f, p, target)
        PROVE  DescInv'
    <3>1. /\ UNCHANGED <<open, unsure>>
          /\ fids' = [fids EXCEPT ![f] = NotOpen] \/ UNCHANGED fids
      BY <2>3 DEF RemoveFid, Unlink
    <3> QED
      BY <3>1, LetGoKeepsDesc, SameFidsKeepDesc
  <2>4. ASSUME NEW p \in Paths, NEW target \in Targets(p), Create(f, p, target)
        PROVE  DescInv'
    <3>1. PICK d \in Free :
            /\ open' = open \cup {d}
            /\ fids' = [fids EXCEPT ![f] = d] \/ UNCHANGED fids
            /\ UNCHANGED unsure
      BY <2>4 DEF Create
    <3> QED
      BY <3>1, OpenKeepsDesc, SameFidsKeepDesc
  <2> QED
    BY <1>1, <2>1, <2>2, <2>3, <2>4, <2>5 DEF FidRequest
<1>2. CASE PlaceRequest
  <2>1. UNCHANGED <<fids, open, unsure>>
    BY <1>2 DEF PlaceRequest, Mkdir, Renameat, Setattr, Symlink, Unlinkat, Unlink
  <2> QED
    BY <2>1, SameFidsKeepDesc
<1>3. CASE Host
  BY <1>3, SameFidsKeepDesc
     DEF Host, HostWrite, HostMkdir, HostUpload, HostRemove, HostRename, HostChange
<1>4. ASSUME NEW sameProcess \in BOOLEAN, Reload(sameProcess)
      PROVE  DescInv'
  BY <1>4 DEF Reload, DescInv, DescriptorsHeld
<1>5. CASE UNCHANGED vars
  BY <1>5, SameFidsKeepDesc DEF vars
<1> QED
  BY <1>1, <1>2, <1>3, <1>4, <1>5 DEF Next

\* A fid that has a file open has a descriptor that is open, and that no other
\* fid has, however fids are reused and requests fail; a close that fails takes
\* this from the fids of its number only.
THEOREM DescriptorsAlwaysHeld == Spec => []DescriptorsHeld
<1>1. DescInv => DescriptorsHeld
  BY DEF DescInv
<1> QED
  BY <1>1, InitDesc, NextDesc, PTL DEF Spec

-----------------------------------------------------------------------------
(* Places *)

\* A place is a sequence of names.
LEMMA PathSeq == ASSUME NEW p \in Paths PROVE p \in Seq(STRING) /\ Len(p) \in Nat
<1>1. p \in Seq(STRING)
  BY NinePAssumption
<1> QED
  BY <1>1, LenProperties

\* A strict prefix, element by element.
LEMMA StrictPrefixElems ==
  ASSUME NEW a \in Seq(STRING), NEW r \in Seq(STRING)
  PROVE  IsStrictPrefix(a, r) <=> Len(a) < Len(r) /\ \A i \in 1 .. Len(a) : a[i] = r[i]
<1>1. SubSeq(a, 1, Len(a)) = a
  BY SubSeqFull
<1>2. ASSUME Len(a) <= Len(r)
      PROVE  (SubSeq(r, 1, Len(a)) = a) <=> \A i \in 1 .. Len(a) : a[i] = r[i]
  <2>1. /\ SubSeq(r, 1, Len(a)) \in Seq(STRING)
        /\ Len(SubSeq(r, 1, Len(a))) = Len(a)
        /\ \A i \in 1 .. Len(a) : SubSeq(r, 1, Len(a))[i] = r[i]
    BY <1>2
  <2> QED
    BY <2>1, SeqEqual
<1>3. ASSUME Len(a) = Len(r), \A i \in 1 .. Len(a) : a[i] = r[i]
      PROVE  a = r
  BY <1>3, SeqEqual
<1> QED
  BY <1>1, <1>2, <1>3 DEF IsStrictPrefix, IsPrefix

\* The prefixes of a place are the directory it is in and that one's prefixes.
LEMMA FrontPrefix ==
  ASSUME NEW p \in Paths, p # Root
  PROVE  /\ Front(p) \in Paths /\ IsStrictPrefix(Front(p), p)
         /\ \A a \in Paths : IsStrictPrefix(a, p) => a = Front(p) \/ IsStrictPrefix(a, Front(p))
<1>1. p \in Seq(STRING) /\ Len(p) \in Nat /\ Len(p) # 0
  BY PathSeq, EmptySeq DEF Root
<1>2. Front(p) \in Paths /\ Front(p) \in Seq(STRING)
  BY <1>1, NinePAssumption DEF Front
<1>3. Len(Front(p)) = Len(p) - 1 /\ \A i \in 1 .. Len(p) - 1 : Front(p)[i] = p[i]
  <2> DEFINE n == Len(p) - 1
  <2>1. 1 \in Int /\ n \in Int /\ n \in Nat /\ n <= Len(p)
    BY <1>1
  <2>2. \A i \in 1 .. n : p[i] \in STRING
    BY <1>1, <2>1, ElementOfSeq
  <2> HIDE DEF n
  <2>3. Len(SubSeq(p, 1, n)) = n /\ \A i \in 1 .. n : SubSeq(p, 1, n)[i] = p[i]
    <3>1. /\ Len(SubSeq(p, 1, n)) = IF 1 <= n THEN n - 1 + 1 ELSE 0
          /\ \A i \in 1 .. n - 1 + 1 : SubSeq(p, 1, n)[i] = p[1 + i - 1]
      BY <2>1, <2>2, SubSeqProperties
    <3> QED
      BY <2>1, <3>1
  <2> QED
    BY <2>3 DEF Front, n
<1>4. IsStrictPrefix(Front(p), p)
  BY <1>1, <1>2, <1>3, StrictPrefixElems
<1>5. ASSUME NEW a \in Paths, IsStrictPrefix(a, p)
      PROVE  a = Front(p) \/ IsStrictPrefix(a, Front(p))
  <2>1. a \in Seq(STRING) /\ Len(a) \in Nat
    BY PathSeq
  <2>2. Len(a) < Len(p) /\ \A i \in 1 .. Len(a) : a[i] = p[i]
    BY <1>1, <1>5, <2>1, StrictPrefixElems
  <2>3. CASE Len(a) = Len(p) - 1
    BY <1>2, <1>3, <2>1, <2>2, <2>3, SeqEqual
  <2>4. CASE Len(a) # Len(p) - 1
    BY <1>1, <1>2, <1>3, <2>1, <2>2, <2>4, StrictPrefixElems
  <2> QED
    BY <2>3, <2>4
<1> QED
  BY <1>2, <1>4, <1>5

\* To lie below is transitive.
LEMMA PrefixTrans ==
  ASSUME NEW a \in Paths, NEW b \in Paths, NEW c \in Paths,
         IsStrictPrefix(a, b), IsStrictPrefix(b, c)
  PROVE  IsStrictPrefix(a, c)
BY PathSeq, StrictPrefixElems

\* What MovedTo makes of a place, element by element.
LEMMA MovedElems ==
  ASSUME NEW r \in Seq(STRING), NEW p \in Seq(STRING), NEW q \in Seq(STRING), Len(p) <= Len(r)
  PROVE  LET m == MovedTo(r, p, q) IN
         /\ m \in Seq(STRING) /\ Len(m) = Len(q) + (Len(r) - Len(p))
         /\ \A i \in 1 .. Len(q) : m[i] = q[i]
         /\ \A i \in 1 .. Len(r) - Len(p) : m[Len(q) + i] = r[Len(p) + i]
<1> DEFINE rest == SubSeq(r, Len(p) + 1, Len(r))
<1>1. Len(p) \in Nat /\ Len(q) \in Nat /\ Len(r) \in Nat
  BY LenProperties
<1>2. /\ rest \in Seq(STRING) /\ Len(rest) = Len(r) - Len(p)
      /\ \A i \in 1 .. Len(r) - Len(p) : rest[i] = r[Len(p) + i]
  BY <1>1
<1> HIDE DEF rest
<1>3. MovedTo(r, p, q) = q \o rest
  BY DEF MovedTo, rest
<1>4. /\ q \o rest \in Seq(STRING) /\ Len(q \o rest) = Len(q) + Len(rest)
      /\ \A i \in 1 .. Len(q) : (q \o rest)[i] = q[i]
      /\ \A i \in 1 .. Len(rest) : (q \o rest)[Len(q) + i] = rest[i]
  <2>1. /\ q \o rest \in Seq(STRING) /\ Len(q \o rest) = Len(q) + Len(rest)
        /\ \A i \in 1 .. Len(q) + Len(rest) :
             (q \o rest)[i] = IF i <= Len(q) THEN q[i] ELSE rest[i - Len(q)]
    BY <1>2, ConcatProperties
  <2>2. ASSUME NEW i \in 1 .. Len(rest) PROVE (q \o rest)[Len(q) + i] = rest[i]
    <3>1. /\ Len(q) + i \in 1 .. Len(q) + Len(rest) /\ ~(Len(q) + i <= Len(q))
          /\ (Len(q) + i) - Len(q) = i
      BY <1>1, <1>2
    <3> HIDE DEF rest
    <3> QED
      BY <2>1, <3>1
  <2>3. ASSUME NEW i \in 1 .. Len(q) PROVE (q \o rest)[i] = q[i]
    <3>1. i \in 1 .. Len(q) + Len(rest) /\ i <= Len(q)
      BY <1>1, <1>2
    <3> QED
      BY <2>1, <3>1
  <2> QED
    BY <2>1, <2>2, <2>3
<1> QED
  BY <1>2, <1>3, <1>4

-----------------------------------------------------------------------------
(* The tree of the host *)

\* What the host holds is a tree: what has something below it is a directory.
IsTree(T) == \A p \in Paths : \A r \in Below[p] : T[r] # None => T[p] = "dir"

LEMMA BelowDef ==
  ASSUME NEW p \in Paths
  PROVE  Below[p] = {r \in Paths : IsStrictPrefix(p, r)} /\ p \notin Below[p]
BY DEF Below, IsStrictPrefix

LEMMA BelowTrans ==
  ASSUME NEW p \in Paths, NEW a \in Below[p], NEW r \in Below[a]
  PROVE  r \in Below[p]
BY BelowDef, PrefixTrans

\* What is no directory has nothing below it.
LEMMA EmptyBelow ==
  ASSUME IsTree(tree), NEW p \in Paths, tree[p] # "dir"
  PROVE  IsEmpty(p)
BY DEF IsTree, IsEmpty

\* All that is above a place in a directory are directories.
LEMMA DirsAbove ==
  ASSUME IsTree(tree), NEW p \in Paths, p # Root, InDir(p)
  PROVE  \A a \in Paths : p \in Below[a] => tree[a] = "dir"
<1>1. Dir[p] = Front(p) /\ Front(p) \in Paths /\ tree[Front(p)] = "dir"
  BY FrontPrefix DEF Dir, InDir
<1>2. ASSUME NEW a \in Paths, p \in Below[a], a # Front(p)
      PROVE  tree[a] = "dir"
  <2>1. Front(p) \in Below[a]
    BY <1>1, <1>2, FrontPrefix, BelowDef
  <2>2. tree[Front(p)] # None
    BY <1>1 DEF None
  <2> QED
    BY <2>1, <2>2 DEF IsTree
<1> QED
  BY <1>1, <1>2

\* Something is put into a directory, in place of what is no directory.
LEMMA PutTree ==
  ASSUME tree \in [Paths -> Kinds], IsTree(tree),
         NEW p \in Paths, p # Root, InDir(p), tree[p] # "dir", NEW kind
  PROVE  IsTree([tree EXCEPT ![p] = kind])
<1>1. \A a \in Paths : p \in Below[a] => tree[a] = "dir"
  BY DirsAbove
<1>2. \A r \in Below[p] : tree[r] = None
  BY EmptyBelow DEF IsEmpty
<1>3. \A a \in Paths : Below[a] \subseteq Paths /\ a \notin Below[a]
  BY BelowDef
<1> QED
  BY <1>1, <1>2, <1>3 DEF IsTree

\* A place goes, with all that is below it.
LEMMA CutTree ==
  ASSUME tree \in [Paths -> Kinds], IsTree(tree), NEW p \in Paths, NEW T,
         \A r \in Paths : T[r] = tree[r] \/ T[r] = None,
         T[p] = None, \A r \in Below[p] : T[r] = None,
         \A r \in Paths \ ({p} \cup Below[p]) : T[r] = tree[r]
  PROVE  IsTree(T)
<1> SUFFICES ASSUME NEW a \in Paths, NEW r \in Below[a], T[r] # None
             PROVE  T[a] = "dir"
  BY DEF IsTree
<1>1. r \in Paths /\ r \notin {p} \cup Below[p]
  BY BelowDef
<1>2. a \notin {p} \cup Below[p]
  BY <1>1, BelowTrans
<1> QED
  BY <1>1, <1>2 DEF IsTree

-----------------------------------------------------------------------------
(* A rename *)

\* What a rename may assume.
CanMove(p, q) ==
  /\ p \in Paths /\ q \in Paths /\ p # Root /\ q # Root /\ p # q
  /\ Movable(p, q) /\ Fitting(p, q)

\* What is renamed is not above its new name, nor below it; the new name has
\* nothing below it and lies in directories.
LEMMA MoveBase ==
  ASSUME IsTree(tree), NEW p, NEW q, CanMove(p, q)
  PROVE  /\ q \notin Below[p] /\ p \notin Below[q]
         /\ \A r \in Below[q] : tree[r] = None
         /\ \A a \in Paths : q \in Below[a] => tree[a] = "dir"
<1>1. \A r \in Below[q] : tree[r] = None
  BY EmptyBelow DEF CanMove, Movable, IsEmpty, None
<1>2. \A a \in Paths : q \in Below[a] => tree[a] = "dir"
  BY DirsAbove DEF CanMove, Movable
<1> QED
  BY <1>1, <1>2 DEF CanMove, Movable

\* Where the places that go come to lie: behind q, each at a place of its own.
LEMMA MoveTargets ==
  ASSUME NEW p \in Paths, NEW q \in Paths, NEW g \in {p} \cup Below[p]
  PROVE  /\ MovedTo(g, p, q) = q <=> g = p
         /\ MovedTo(g, p, q) \in Paths => MovedTo(g, p, q) \in {q} \cup Below[q]
         /\ \A h \in {p} \cup Below[p] : MovedTo(h, p, q) = MovedTo(g, p, q) => h = g
<1>1. \A r \in Paths : r \in Seq(STRING) /\ Len(r) \in Nat
  BY PathSeq
<1>2. ASSUME NEW h \in {p} \cup Below[p]
      PROVE  h \in Seq(STRING) /\ Len(p) <= Len(h) /\ \A i \in 1 .. Len(p) : h[i] = p[i]
  <2>1. CASE h = p
    BY <1>1, <2>1
  <2>2. CASE h \in Below[p]
    BY <1>1, <2>2, BelowDef, StrictPrefixElems
  <2> QED
    BY <2>1, <2>2
<1>3. ASSUME NEW h \in {p} \cup Below[p]
      PROVE  LET m == MovedTo(h, p, q) IN
             /\ m \in Seq(STRING) /\ Len(m) = Len(q) + (Len(h) - Len(p))
             /\ \A i \in 1 .. Len(q) : m[i] = q[i]
             /\ \A i \in 1 .. Len(h) - Len(p) : m[Len(q) + i] = h[Len(p) + i]
  BY <1>1, <1>2, MovedElems
<1>4. ASSUME NEW h \in {p} \cup Below[p], MovedTo(h, p, q) = MovedTo(g, p, q)
      PROVE  h = g
  <2>1. Len(h) \in Nat /\ Len(g) \in Nat /\ Len(h) = Len(g)
    BY <1>1, <1>2, <1>3, <1>4, LenProperties
  <2>2. ASSUME NEW i \in 1 .. Len(g) PROVE h[i] = g[i]
    <3>1. CASE i <= Len(p)
      BY <1>1, <1>2, <2>1, <3>1
    <3>2. CASE ~(i <= Len(p))
      <4> DEFINE j == i - Len(p)
      <4>1. j \in 1 .. Len(g) - Len(p) /\ Len(p) + j = i
        BY <1>1, <1>2, <2>1, <3>2
      <4> HIDE DEF j
      <4> QED
        BY <1>3, <1>4, <2>1, <4>1
    <3> QED
      BY <3>1, <3>2
  <2> QED
    BY <1>2, <2>1, <2>2, SeqEqual
<1>5. MovedTo(p, p, q) = q
  BY <1>1, <1>3, SeqEqual
<1>6. ASSUME MovedTo(g, p, q) \in Paths, g # p
      PROVE  MovedTo(g, p, q) \in Below[q]
  <2>1. Len(p) < Len(g)
    BY <1>1, <1>6, BelowDef, StrictPrefixElems
  <2>2. IsStrictPrefix(q, MovedTo(g, p, q))
    <3> DEFINE m == MovedTo(g, p, q)
    <3>1. m \in Seq(STRING) /\ Len(m) = Len(q) + (Len(g) - Len(p))
          /\ \A i \in 1 .. Len(q) : m[i] = q[i]
      BY <1>3
    <3>2. Len(q) < Len(m)
      BY <1>1, <2>1, <3>1, BelowDef
    <3> HIDE DEF m
    <3>3. IsStrictPrefix(q, m)
      BY <1>1, <3>1, <3>2, StrictPrefixElems
    <3> QED
      BY <3>3 DEF m
  <2> QED
    BY <1>6, <2>2, BelowDef
<1> QED
  BY <1>4, <1>5, <1>6

\* What a place holds behind the rename: what came there, nothing, or what it held.
LEMMA MovedAt ==
  ASSUME NEW p \in Paths, NEW q \in Paths, NEW r \in Paths
  PROVE  /\ \A g \in {p} \cup Below[p] : MovedTo(g, p, q) = r => Moved(p, q)[r] = tree[g]
         /\ (\A g \in {p} \cup Below[p] : MovedTo(g, p, q) # r) =>
              Moved(p, q)[r] = IF r \in {p} \cup Below[p] THEN None ELSE tree[r]
<1> DEFINE gone == {p} \cup Below[p]
           here == {g \in gone : MovedTo(g, p, q) = r}
           chosen == CHOOSE g \in here : TRUE
<1>1. Moved(p, q)[r] = IF here # {} THEN tree[chosen]
                       ELSE IF r \in gone THEN None ELSE tree[r]
  BY DEF Moved
<1>2. ASSUME NEW g \in gone, MovedTo(g, p, q) = r
      PROVE  here # {} /\ chosen = g
  <2>1. here = {g}
    BY <1>2, MoveTargets
  <2> HIDE DEF here
  <2> QED
    BY <2>1
<1>3. ASSUME \A g \in gone : MovedTo(g, p, q) # r
      PROVE  here = {}
  BY <1>3
<1> HIDE DEF here, chosen
<1>4. ASSUME NEW g \in gone, MovedTo(g, p, q) = r
      PROVE  Moved(p, q)[r] = tree[g]
  <2>1. here # {} /\ chosen = g
    BY <1>2, <1>4
  <2> QED
    BY <1>1, <2>1
<1>5. ASSUME \A g \in gone : MovedTo(g, p, q) # r
      PROVE  Moved(p, q)[r] = IF r \in gone THEN None ELSE tree[r]
  BY <1>1, <1>3, <1>5
<1> QED
  BY <1>4, <1>5 DEF gone

\* The content goes to its new name, and nothing changes outside of what moves.
LEMMA MovedPlaces ==
  ASSUME IsTree(tree), NEW p, NEW q, CanMove(p, q)
  PROVE  /\ Moved(p, q)[p] = None /\ Moved(p, q)[q] = tree[p]
         /\ LeftBehind(p, q) \subseteq Paths
         /\ \A r \in Paths \ ({p, q} \cup LeftBehind(p, q)) : Moved(p, q)[r] = tree[r]
<1>1. /\ p \in Paths /\ q \in Paths /\ p # q
      /\ \A r \in Below[p] : tree[r] # None => MovedTo(r, p, q) \in Paths
  BY DEF CanMove, Fitting
<1>2. /\ q \notin Below[p] /\ p \notin Below[q]
      /\ \A r \in Below[q] : tree[r] = None
  BY MoveBase
<1>3. Moved(p, q)[q] = tree[p]
  BY <1>1, MoveTargets, MovedAt
<1>4. Moved(p, q)[p] = None
  <2>1. \A g \in {p} \cup Below[p] : MovedTo(g, p, q) # p
    BY <1>1, <1>2, MoveTargets
  <2> QED
    BY <1>1, <2>1, MovedAt
<1>5. LeftBehind(p, q) \subseteq Paths
  BY <1>1, BelowDef DEF LeftBehind
<1>6. ASSUME NEW r \in Paths \ ({p, q} \cup LeftBehind(p, q))
      PROVE  Moved(p, q)[r] = tree[r]
  <2>1. CASE \E g \in {p} \cup Below[p] : MovedTo(g, p, q) = r
    <3>1. PICK g \in {p} \cup Below[p] : MovedTo(g, p, q) = r
      BY <2>1
    <3>2. g \in Below[p] /\ r \in Below[q]
      BY <1>1, <1>6, <3>1, MoveTargets
    <3>3. tree[g] = None
      BY <1>6, <3>1, <3>2 DEF LeftBehind
    <3>4. Moved(p, q)[r] = tree[g]
      BY <1>1, <1>6, <3>1, MovedAt
    <3> QED
      BY <1>2, <3>2, <3>3, <3>4
  <2>2. CASE \A g \in {p} \cup Below[p] : MovedTo(g, p, q) # r
    <3>1. Moved(p, q)[r] = IF r \in {p} \cup Below[p] THEN None ELSE tree[r]
      BY <1>1, <1>6, <2>2, MovedAt
    <3>2. r \in Below[p] => tree[r] = None
      BY <1>6 DEF LeftBehind
    <3> QED
      BY <1>6, <3>1, <3>2
  <2> QED
    BY <2>1, <2>2
<1> QED
  BY <1>3, <1>4, <1>5, <1>6

\* What lies above the new place of g is one of the directories above q, or the
\* new place of a directory above g that moved with it.
LEMMA AboveMoved ==
  ASSUME NEW p \in Paths, NEW q \in Paths, NEW g \in {p} \cup Below[p],
         NEW a \in Paths, NEW r \in Below[a], r = MovedTo(g, p, q)
  PROVE  \/ q \in Below[a]
         \/ \E b \in {p} \cup Below[p] : g \in Below[b] /\ MovedTo(b, p, q) = a
<1>1. /\ \A s \in Paths : s \in Seq(STRING) /\ Len(s) \in Nat
      /\ a \in Paths /\ g \in Paths /\ r \in Paths
  BY PathSeq, BelowDef
<1>2. Len(a) < Len(r) /\ \A i \in 1 .. Len(a) : a[i] = r[i]
  BY <1>1, BelowDef, StrictPrefixElems
<1>3. Len(p) <= Len(g) /\ \A i \in 1 .. Len(p) : g[i] = p[i]
  <2>1. CASE g = p
    BY <1>1, <2>1
  <2>2. CASE g \in Below[p]
    BY <1>1, <2>2, BelowDef, StrictPrefixElems
  <2> QED
    BY <2>1, <2>2
<1>4. /\ Len(r) = Len(q) + (Len(g) - Len(p))
      /\ \A i \in 1 .. Len(q) : r[i] = q[i]
      /\ \A i \in 1 .. Len(g) - Len(p) : r[Len(q) + i] = g[Len(p) + i]
  <2>1. LET m == MovedTo(g, p, q) IN
        /\ m \in Seq(STRING) /\ Len(m) = Len(q) + (Len(g) - Len(p))
        /\ \A i \in 1 .. Len(q) : m[i] = q[i]
        /\ \A i \in 1 .. Len(g) - Len(p) : m[Len(q) + i] = g[Len(p) + i]
    <3>1. g \in Seq(STRING) /\ p \in Seq(STRING) /\ q \in Seq(STRING)
      BY <1>1
    <3> QED
      BY <1>3, <3>1, MovedElems
  <2> QED
    BY <2>1
<1>5. CASE Len(a) < Len(q)
  <2>1. \A i \in 1 .. Len(a) : a[i] = q[i]
    BY <1>1, <1>2, <1>4, <1>5
  <2>2. IsStrictPrefix(a, q)
    BY <1>1, <1>5, <2>1, StrictPrefixElems
  <2> QED
    BY <2>2, BelowDef
<1>6. CASE Len(q) <= Len(a)
  <2> DEFINE n == Len(p) + (Len(a) - Len(q))
             b == SubSeq(g, 1, n)
  <2>1. n \in Nat /\ Len(p) <= n /\ n < Len(g) /\ n \in 0 .. Len(g)
    BY <1>1, <1>2, <1>4, <1>6
  <2>2. b \in Paths
    BY <1>1, <2>1, NinePAssumption
  <2> HIDE DEF n
  <2>3. Len(b) = n /\ \A i \in 1 .. n : b[i] = g[i]
    BY <1>1, <2>1
  <2>4. b \in Seq(STRING)
    BY <1>1, <2>2
  <2> HIDE DEF b
  <2>5. g \in Below[b]
    <3>1. IsStrictPrefix(b, g)
      BY <1>1, <2>1, <2>3, <2>4, StrictPrefixElems
    <3> QED
      BY <1>1, <2>2, <3>1, BelowDef
  <2>6. b \in {p} \cup Below[p]
    <3>1. \A i \in 1 .. Len(p) : p[i] = b[i]
      BY <1>1, <1>3, <2>1, <2>3
    <3>2. CASE Len(p) = n
      BY <1>1, <2>3, <2>4, <3>1, <3>2, SeqEqual
    <3>3. CASE Len(p) < n
      BY <1>1, <2>2, <2>3, <2>4, <3>1, <3>3, StrictPrefixElems, BelowDef
    <3> QED
      BY <1>1, <2>1, <3>2, <3>3
  <2>7. MovedTo(b, p, q) = a
    <3> DEFINE m == MovedTo(b, p, q)
    <3>1. /\ m \in Seq(STRING) /\ Len(m) = Len(q) + (n - Len(p))
          /\ \A i \in 1 .. Len(q) : m[i] = q[i]
          /\ \A i \in 1 .. n - Len(p) : m[Len(q) + i] = b[Len(p) + i]
      <4>1. p \in Seq(STRING) /\ q \in Seq(STRING) /\ Len(p) <= Len(b)
        BY <1>1, <2>1, <2>3
      <4>2. LET k == MovedTo(b, p, q) IN
            /\ k \in Seq(STRING) /\ Len(k) = Len(q) + (Len(b) - Len(p))
            /\ \A i \in 1 .. Len(q) : k[i] = q[i]
            /\ \A i \in 1 .. Len(b) - Len(p) : k[Len(q) + i] = b[Len(p) + i]
        BY <2>4, <4>1, MovedElems
      <4> QED
        BY <2>3, <4>2
    <3> HIDE DEF m
    <3>2. Len(m) = Len(a)
      BY <1>1, <3>1 DEF n
    <3>3. ASSUME NEW i \in 1 .. Len(a) PROVE m[i] = a[i]
      <4>1. CASE i <= Len(q)
        BY <1>1, <1>2, <1>4, <1>6, <3>1, <4>1
      <4>2. CASE ~(i <= Len(q))
        <5> DEFINE j == i - Len(q)
        <5>1. /\ j \in 1 .. n - Len(p) /\ Len(q) + j = i
              /\ j \in 1 .. Len(g) - Len(p) /\ Len(p) + j \in 1 .. n
          BY <1>1, <1>2, <1>4, <2>1, <4>2 DEF n
        <5> HIDE DEF j
        <5>2. m[i] = b[Len(p) + j] /\ r[i] = g[Len(p) + j]
          BY <1>4, <3>1, <5>1
        <5>3. b[Len(p) + j] = g[Len(p) + j] /\ a[i] = r[i]
          BY <1>2, <2>3, <5>1
        <5> QED
          BY <5>2, <5>3
      <4> QED
        BY <4>1, <4>2
    <3> QED
      BY <1>1, <3>1, <3>2, <3>3, SeqEqual DEF m
  <2> QED
    BY <2>5, <2>6, <2>7
<1> QED
  BY <1>1, <1>5, <1>6

\* A rename leaves a tree.
LEMMA MovedTree ==
  ASSUME IsTree(tree), NEW p, NEW q, CanMove(p, q)
  PROVE  IsTree(Moved(p, q))
<1>1. p \in Paths /\ q \in Paths /\ p # q
  BY DEF CanMove
<1>2. /\ q \notin Below[p] /\ p \notin Below[q]
      /\ \A r \in Below[q] : tree[r] = None
      /\ \A a \in Paths : q \in Below[a] => tree[a] = "dir"
  BY MoveBase
<1> SUFFICES ASSUME NEW a \in Paths, NEW r \in Below[a], Moved(p, q)[r] # None
             PROVE  Moved(p, q)[a] = "dir"
  BY DEF IsTree
<1>3. r \in Paths
  BY BelowDef
\* A directory that stays where it is.
<1>4. ASSUME tree[a] = "dir", a \notin {p} \cup Below[p], a \notin {q} \cup Below[q]
      PROVE  Moved(p, q)[a] = "dir"
  BY <1>1, <1>4, MovedAt, MoveTargets
<1>5. CASE \E g \in {p} \cup Below[p] : MovedTo(g, p, q) = r
  <2>1. PICK g \in {p} \cup Below[p] : MovedTo(g, p, q) = r
    BY <1>5
  <2>2. tree[g] # None
    BY <1>1, <1>3, <2>1, MovedAt
  <2>3. CASE q \in Below[a]
    <3>1. a \notin {p} \cup Below[p]
      BY <1>1, <1>2, <2>3, BelowTrans
    <3>2. a \notin {q} \cup Below[q]
      BY <1>1, <2>3, BelowDef, BelowTrans
    <3> QED
      BY <1>2, <1>4, <2>3, <3>1, <3>2
  <2>4. ASSUME NEW b \in {p} \cup Below[p], g \in Below[b], MovedTo(b, p, q) = a
        PROVE  Moved(p, q)[a] = "dir"
    <3>1. b \in Paths
      BY <1>1, BelowDef
    <3>2. tree[b] = "dir"
      BY <2>2, <2>4, <3>1 DEF IsTree
    <3> QED
      BY <1>1, <2>4, <3>2, MovedAt
  <2> QED
    BY <1>1, <2>1, <2>3, <2>4, AboveMoved
<1>6. CASE \A g \in {p} \cup Below[p] : MovedTo(g, p, q) # r
  <2>1. r \notin {p} \cup Below[p] /\ tree[r] # None
    BY <1>1, <1>3, <1>6, MovedAt
  <2>2. tree[a] = "dir"
    BY <2>1 DEF IsTree
  <2>3. a \notin {p} \cup Below[p]
    BY <1>1, <2>1, BelowTrans
  <2>4. a \notin {q} \cup Below[q]
    BY <1>1, <1>2, <2>1, BelowTrans
  <2> QED
    BY <1>4, <2>2, <2>3, <2>4
<1> QED
  BY <1>5, <1>6

-----------------------------------------------------------------------------
(* Types *)

LEMMA MetaTyped ==
  ASSUME TypeOK
  PROVE  meta \in Metadata /\ store.saved \in Metadata
BY DEF TypeOK, meta

\* What a request enters, deletes or moves is metadata again.
LEMMA NewTyped ==
  ASSUME TypeOK, NEW p \in Paths, NEW q \in Paths
  PROVE  /\ \A entry : (\A f \in DOMAIN entry : entry[f] \in Entries)
                         => Entered(p, entry) \in Metadata
         /\ Deleted(p) \in Metadata
         /\ Renamed(p, q) \in Metadata
<1>1. \A f \in Fields : meta[f] \in [Paths -> Entries]
  BY MetaTyped DEF Metadata
<1>2. None \in Entries /\ \A f \in Fields, r \in Paths : meta[f][r] \in Entries
  BY <1>1 DEF Entries
<1> HIDE DEF meta
<1> QED
  BY <1>1, <1>2 DEF Metadata, Entered, Deleted, Renamed

\* Saves leave a store, and change no more of it than what they are given.
LEMMA SavedStore ==
  ASSUME TypeOK, NEW order, NEW new \in Metadata, Saved(order, new)
  PROVE  /\ store' \in [meta : Metadata, saved : Metadata, dirty : [Fields -> BOOLEAN]]
         /\ \A f \in Fields : store'.meta[f] = IF f \in ToSet(order) THEN new[f] ELSE meta[f]
         /\ store.saved = meta => store'.saved = store'.meta
<1> DEFINE done == ToSet(order)
<1>1. store' = [meta  |-> [f \in Fields |-> IF f \in done THEN new[f] ELSE meta[f]],
                saved |-> [f \in Fields |-> IF f \in done THEN new[f] ELSE store.saved[f]],
                dirty |-> [f \in Fields |-> store.dirty[f] /\ f \notin done]]
  BY DEF Saved
<1> HIDE DEF done
<1>2. meta \in Metadata /\ store.saved \in Metadata
  BY MetaTyped
<1>3. [f \in Fields |-> store.dirty[f] /\ f \notin done] \in [Fields -> BOOLEAN]
  BY Zenon
<1>4. /\ [f \in Fields |-> IF f \in done THEN new[f] ELSE meta[f]] \in Metadata
      /\ [f \in Fields |-> IF f \in done THEN new[f] ELSE store.saved[f]] \in Metadata
  BY <1>2 DEF Metadata
<1>5. store' \in [meta : Metadata, saved : Metadata, dirty : [Fields -> BOOLEAN]]
  BY <1>1, <1>3, <1>4
<1>6. /\ store'.meta = [f \in Fields |-> IF f \in done THEN new[f] ELSE meta[f]]
      /\ store'.saved = [f \in Fields |-> IF f \in done THEN new[f] ELSE store.saved[f]]
  BY <1>1
<1> QED
  BY <1>5, <1>6 DEF done

\* A mishap is counted, within its bound.
LEMMA MishapTyped ==
  ASSUME TypeOK, NEW kind \in Mishaps, Mishap(kind)
  PROVE  /\ mishaps' \in [Mishaps -> 0 .. MaxMishaps]
         /\ mishaps'[kind] > 0
BY NinePAssumption DEF TypeOK, Mishap, Mishaps

\* A save that fails leaves a store, and changes each cache as meant or not at
\* all.
LEMMA SaveFailsStore ==
  ASSUME TypeOK, NEW order, NEW new \in Metadata, NEW ahead, NEW places \in SUBSET Paths,
         SaveFails(order, new, ahead, places)
  PROVE  /\ store' \in [meta : Metadata, saved : Metadata, dirty : [Fields -> BOOLEAN]]
         /\ \A f \in Fields : store'.meta[f] \in {meta[f], new[f]}
         /\ stray' = stray \cup places /\ stray' \subseteq Paths
         /\ mishaps' \in [Mishaps -> 0 .. MaxMishaps] /\ mishaps'["save"] # 0
<1>1. PICK k \in DOMAIN order :
        \E content \in {store.saved[order[k]], [p \in Paths |-> None]} :
          store' = Interrupted(order, new, ahead, k, content)
  BY DEF SaveFails
<1>2. PICK content \in {store.saved[order[k]], [p \in Paths |-> None]} :
        store' = Interrupted(order, new, ahead, k, content)
  BY <1>1
<1> DEFINE done == {order[i] : i \in 1 .. k - 1}
           cached == done \cup ahead \cup {order[k]}
<1>3. store' = [meta  |-> [f \in Fields |-> IF f \in cached THEN new[f] ELSE meta[f]],
                saved |-> [f \in Fields |-> IF f \in done THEN new[f]
                                            ELSE IF f = order[k] THEN content
                                            ELSE store.saved[f]],
                dirty |-> [f \in Fields |-> StaysDirty(f, cached, done)]]
  BY <1>2 DEF Interrupted
<1> HIDE DEF done, cached
<1>4. meta \in Metadata /\ store.saved \in Metadata
  BY MetaTyped
<1>5. [f \in Fields |-> StaysDirty(f, cached, done)] \in [Fields -> BOOLEAN]
  BY Zenon DEF StaysDirty
<1>6. [f \in Fields |-> IF f \in cached THEN new[f] ELSE meta[f]] \in Metadata
  BY <1>4 DEF Metadata
<1>7. ASSUME order[k] \in Fields
      PROVE  content \in [Paths -> Entries]
  BY <1>2, <1>4, <1>7 DEF Metadata, Entries
<1>8. [f \in Fields |-> IF f \in done THEN new[f]
                        ELSE IF f = order[k] THEN content
                        ELSE store.saved[f]] \in Metadata
  BY <1>4, <1>7 DEF Metadata
<1>9. store' \in [meta : Metadata, saved : Metadata, dirty : [Fields -> BOOLEAN]]
  BY <1>3, <1>5, <1>6, <1>8
<1>10. store'.meta = [f \in Fields |-> IF f \in cached THEN new[f] ELSE meta[f]]
  BY <1>3
<1>11. "save" \in Mishaps
  BY DEF Mishaps
<1>12. stray' = stray \cup places /\ Mishap("save")
  BY DEF SaveFails
<1>13. mishaps' \in [Mishaps -> 0 .. MaxMishaps] /\ mishaps'["save"] # 0
  BY <1>11, <1>12, MishapTyped
<1> QED
  BY <1>9, <1>10, <1>12, <1>13 DEF TypeOK

LEMMA ToSetConcat ==
  ASSUME NEW S, NEW s \in Seq(S), NEW t \in Seq(S)
  PROVE  s \o t \in Seq(S) /\ ToSet(s \o t) = ToSet(s) \cup ToSet(t)
<1>1. Len(s) \in Nat /\ Len(t) \in Nat /\ DOMAIN s = 1 .. Len(s) /\ DOMAIN t = 1 .. Len(t)
  BY LenProperties
<1>2. /\ s \o t \in Seq(S) /\ Len(s \o t) = Len(s) + Len(t)
      /\ \A i \in 1 .. Len(s) + Len(t) :
           (s \o t)[i] = IF i <= Len(s) THEN s[i] ELSE t[i - Len(s)]
  BY ConcatProperties
<1>3. DOMAIN (s \o t) = 1 .. Len(s) + Len(t)
  BY <1>2, LenProperties
<1> DEFINE st == s \o t
<1> HIDE DEF st
<1>4. ASSUME NEW i \in DOMAIN st PROVE st[i] \in ToSet(s) \cup ToSet(t)
  <2>1. CASE i <= Len(s)
    BY <1>1, <1>2, <1>3, <1>4, <2>1 DEF st, ToSet
  <2>2. CASE ~(i <= Len(s))
    <3>1. i - Len(s) \in DOMAIN t /\ st[i] = t[i - Len(s)]
      BY <1>1, <1>2, <1>3, <1>4, <2>2 DEF st
    <3> QED
      BY <3>1 DEF ToSet
  <2> QED
    BY <2>1, <2>2
<1>5. ASSUME NEW i \in DOMAIN s PROVE s[i] \in ToSet(st)
  <2>1. i \in DOMAIN st /\ st[i] = s[i]
    BY <1>1, <1>2, <1>3 DEF st
  <2> QED
    BY <2>1 DEF ToSet
<1>6. ASSUME NEW i \in DOMAIN t PROVE t[i] \in ToSet(st)
  <2>1. /\ Len(s) + i \in 1 .. Len(s) + Len(t) /\ ~(Len(s) + i <= Len(s))
        /\ (Len(s) + i) - Len(s) = i
    BY <1>1
  <2>2. Len(s) + i \in DOMAIN st /\ st[Len(s) + i] = t[i]
    BY <1>2, <1>3, <2>1 DEF st
  <2> QED
    BY <2>2 DEF ToSet
<1> QED
  BY <1>2, <1>4, <1>5, <1>6 DEF ToSet, st

LEMMA ToSetOne ==
  ASSUME NEW S, NEW f \in S
  PROVE  /\ <<f>> \in Seq(S) /\ ToSet(<<f>>) = {f}
         /\ <<>> \in Seq(S) /\ ToSet(<<>>) = {}
<1>1. /\ <<f>> \in Seq(S) /\ DOMAIN <<f>> = 1 .. 1 /\ <<f>>[1] = f
      /\ <<>> \in Seq(S) /\ DOMAIN <<>> = 1 .. 0
  OBVIOUS
<1>2. 1 .. 1 = {1} /\ 1 .. 0 = {}
  OBVIOUS
<1>3. ToSet(<<f>>) = {<<f>>[i] : i \in {1}} /\ ToSet(<<>>) = {<<>>[i] : i \in {}}
  <2>1. DOMAIN <<f>> = {1} /\ DOMAIN <<>> = {}
    BY <1>1, <1>2
  <2> QED
    BY <2>1, Zenon DEF ToSet
<1> QED
  BY <1>1, <1>3

\* deleteMeta and renameMeta save every field in which the place has an entry.
LEMMA SavedForElems ==
  ASSUME NEW p \in Paths
  PROVE  ToSet(SavedFor(p)) = {f \in Fields : meta[f][p] # None}
<1> DEFINE known(f) == IF meta[f][p] # None THEN <<f>> ELSE <<>>
<1>1. ASSUME NEW f \in Fields
      PROVE  known(f) \in Seq(Fields) /\ ToSet(known(f)) = {g \in {f} : meta[g][p] # None}
  <2> HIDE DEF meta
  <2>1. CASE meta[f][p] # None
    <3>1. known(f) = <<f>> /\ {g \in {f} : meta[g][p] # None} = {f}
      BY <2>1
    <3> QED
      BY <3>1, ToSetOne, Zenon
  <2>2. CASE meta[f][p] = None
    <3>1. known(f) = <<>> /\ {g \in {f} : meta[g][p] # None} = {}
      BY <2>2
    <3>2. <<>> \in Seq(Fields) /\ ToSet(<<>>) = {}
      BY ToSetOne
    <3> QED
      BY <3>1, <3>2, Zenon
  <2> QED
    BY <2>1, <2>2
<1> DEFINE perms == known("perms")
           links == known("links")
           types == known("types")
<1>2. SavedFor(p) = perms \o links \o types
  BY DEF SavedFor
<1>3. perms \in Seq(Fields) /\ ToSet(perms) = {f \in {"perms"} : meta[f][p] # None}
  <2>1. "perms" \in Fields
    BY DEF Fields
  <2> QED
    BY <1>1, <2>1, Zenon
<1>4. links \in Seq(Fields) /\ ToSet(links) = {f \in {"links"} : meta[f][p] # None}
  <2>1. "links" \in Fields
    BY DEF Fields
  <2> QED
    BY <1>1, <2>1, Zenon
<1>5. types \in Seq(Fields) /\ ToSet(types) = {f \in {"types"} : meta[f][p] # None}
  <2>1. "types" \in Fields
    BY DEF Fields
  <2> QED
    BY <1>1, <2>1, Zenon
<1> HIDE DEF perms, links, types
<1> DEFINE both == perms \o links
<1>6. both \in Seq(Fields) /\ ToSet(both) = ToSet(perms) \cup ToSet(links)
  BY <1>3, <1>4, ToSetConcat
<1>7. SavedFor(p) = both \o types
  BY <1>2
<1> HIDE DEF both
<1>8. ToSet(both \o types) = ToSet(both) \cup ToSet(types)
  BY <1>5, <1>6, ToSetConcat
<1> QED
  BY <1>3, <1>4, <1>5, <1>6, <1>7, <1>8 DEF Fields

-----------------------------------------------------------------------------
(* What is kept of a file *)

\* What the metadata say of a place, given what it holds: more than Fits, so
\* that a rename takes it along.
KnownAt(T, M, p) ==
  /\ T[p] = None   => \A f \in Fields : M[f][p] = None
  /\ T[p] = "file" => M["types"][p] # "symlink" /\ M["types"][p] # None
  /\ T[p] = "link" => M["types"][p] = "symlink" /\ M["links"][p] # None

Followed == \A p \in Paths \ stray : KnownAt(tree, meta, p)

\* Until a save fails the files hold what the caches hold.
SavedAlike == mishaps["save"] = 0 => store.saved = meta

NineInv == TypeOK /\ IsTree(tree) /\ Followed /\ SavedAlike

LEMMA InvImplies == NineInv => TypeOK /\ MetadataFollows
<1> SUFFICES ASSUME NineInv, NEW p \in Paths \ stray
             PROVE  Fits(p)
  BY DEF NineInv, MetadataFollows
<1>1. KnownAt(tree, meta, p)
  BY DEF NineInv, Followed
<1>2. CASE tree[p] = None
  BY <1>1, <1>2 DEF KnownAt, Fits, None
<1>3. CASE tree[p] = "file"
  BY <1>1, <1>3 DEF KnownAt, Fits, IsSymlink, None
<1>4. CASE tree[p] = "link"
  BY <1>1, <1>4 DEF KnownAt, Fits, IsSymlink, None
<1>5. CASE tree[p] \notin {None, "file", "link"}
  BY <1>5 DEF Fits
<1> QED
  BY <1>2, <1>3, <1>4, <1>5

LEMMA InitNine == Init => NineInv
<1> SUFFICES ASSUME Init PROVE NineInv
  OBVIOUS
<1>1. InitialMeta \in Metadata
  BY NinePAssumption DEF InitialMeta, Metadata, Fields, Entries, TypeName, Kinds, None
<1>2. TypeOK
  BY <1>1, NinePAssumption DEF Init, TypeOK, Kinds, Mishaps
<1>3. IsTree(tree)
  BY NinePAssumption, BelowDef DEF Init, IsTree
<1>4. Followed
  <2> SUFFICES ASSUME NEW p \in Paths
               PROVE  KnownAt(tree, meta, p)
    BY DEF Followed
  <2>1. tree = Unpacked /\ meta = InitialMeta
    BY DEF Init, meta
  <2>2. Unpacked[p] # "link" /\ (p = Root => Unpacked[p] = "dir")
    BY NinePAssumption
  <2>3. /\ InitialMeta["perms"][p] = IF p # Root /\ Unpacked[p] # None THEN "set" ELSE None
        /\ InitialMeta["links"][p] = IF Unpacked[p] = "hostlink" THEN "set" ELSE None
        /\ InitialMeta["types"][p] = IF p # Root /\ Unpacked[p] # None
                                     THEN TypeName(Unpacked[p]) ELSE None
    BY DEF InitialMeta
  <2> QED
    BY <2>1, <2>2, <2>3 DEF KnownAt, TypeName, Fields, None
<1>5. SavedAlike
  BY DEF Init, SavedAlike, meta
<1> QED
  BY <1>2, <1>3, <1>4, <1>5 DEF NineInv

\* What holds of the fids, the descriptors and the tree whatever becomes of the
\* metadata.
Behind ==
  /\ tree' \in [Paths -> Kinds] /\ IsTree(tree')
  /\ fids' \in [Fids -> Descriptors \cup {NotOpen}] /\ open' \cup unsure' \subseteq Descriptors

\* A request changes what a place holds, or its metadata, only at some places.
Only(places, new) ==
  \A r \in Paths \ places : tree'[r] = tree[r] /\ \A f \in Fields : new[f][r] = meta[f][r]

\* A request that saves what it changed keeps the invariant if the places that
\* it changed hold what their metadata say.
LEMMA SavedKeepsInv ==
  ASSUME NineInv, Behind, NEW order, NEW new \in Metadata, NEW places,
         Saved(order, new), Only(places, new),
         \A f \in Fields \ ToSet(order), r \in Paths : new[f][r] = meta[f][r],
         mishaps' \in [Mishaps -> 0 .. MaxMishaps], mishaps'["save"] = mishaps["save"],
         stray' \subseteq Paths,
         \A r \in Paths \ places : r \in stray => r \in stray',
         \A r \in places \ stray' : r \in Paths => KnownAt(tree', new, r)
  PROVE  NineInv' /\ \A f \in Fields, r \in Paths : store'.meta[f][r] = new[f][r]
<1>1. /\ store' \in [meta : Metadata, saved : Metadata, dirty : [Fields -> BOOLEAN]]
      /\ \A f \in Fields : store'.meta[f] = IF f \in ToSet(order) THEN new[f] ELSE meta[f]
      /\ store.saved = meta => store'.saved = store'.meta
  BY SavedStore DEF NineInv
<1>2. TypeOK'
  BY <1>1 DEF TypeOK, Behind
<1>3. SavedAlike'
  BY <1>1 DEF NineInv, SavedAlike, meta
<1>4. \A f \in Fields, r \in Paths : store'.meta[f][r] = new[f][r]
  BY <1>1
<1>5. Followed'
  <2> SUFFICES ASSUME NEW r \in Paths \ stray'
               PROVE  KnownAt(tree', meta', r)
    BY DEF Followed
  <2>1. CASE r \in places
    <3>1. KnownAt(tree', new, r)
      BY <2>1
    <3> QED
      BY <1>4, <3>1 DEF KnownAt, meta, Fields
  <2>2. CASE r \notin places
    <3>1. KnownAt(tree, meta, r)
      BY <2>2 DEF NineInv, Followed
    <3>2. tree'[r] = tree[r] /\ \A f \in Fields : store'.meta[f][r] = meta[f][r]
      BY <1>4, <2>2 DEF Only
    <3> QED
      BY <3>1, <3>2 DEF KnownAt, meta, Fields
  <2> QED
    BY <2>1, <2>2
<1> QED
  BY <1>2, <1>3, <1>4, <1>5 DEF NineInv, Behind

\* One whose save fails marks the places that it changed.
LEMMA FailedKeepsInv ==
  ASSUME NineInv, Behind, NEW order, NEW new \in Metadata, NEW ahead, NEW places \in SUBSET Paths,
         SaveFails(order, new, ahead, places), Only(places, new)
  PROVE  NineInv' /\ \A f \in Fields : store'.meta[f] \in {meta[f], new[f]}
<1>1. /\ store' \in [meta : Metadata, saved : Metadata, dirty : [Fields -> BOOLEAN]]
      /\ \A f \in Fields : store'.meta[f] \in {meta[f], new[f]}
      /\ stray' = stray \cup places /\ stray' \subseteq Paths
      /\ mishaps' \in [Mishaps -> 0 .. MaxMishaps] /\ mishaps'["save"] # 0
  BY SaveFailsStore DEF NineInv
<1>2. TypeOK'
  BY <1>1 DEF TypeOK, Behind
<1>3. SavedAlike'
  BY <1>1 DEF SavedAlike
<1>4. Followed'
  <2> SUFFICES ASSUME NEW r \in Paths \ stray'
               PROVE  KnownAt(tree', meta', r)
    BY DEF Followed
  <2>1. KnownAt(tree, meta, r)
    BY <1>1 DEF NineInv, Followed
  <2>2. tree'[r] = tree[r] /\ \A f \in Fields : store'.meta[f][r] = meta[f][r]
    BY <1>1 DEF Only
  <2> QED
    BY <2>1, <2>2 DEF KnownAt, meta, Fields
<1> QED
  BY <1>1, <1>2, <1>3, <1>4 DEF NineInv, Behind

\* A change that the metadata have no part in marks the places that it changed,
\* unless they are directories then.
LEMMA HostKeepsInv ==
  ASSUME NineInv, Behind, UNCHANGED store,
         mishaps' \in [Mishaps -> 0 .. MaxMishaps], mishaps'["save"] = mishaps["save"],
         stray \subseteq stray', stray' \subseteq Paths,
         \A r \in Paths \ stray' : tree'[r] = tree[r] \/ tree'[r] = "dir"
  PROVE  NineInv'
<1>1. TypeOK' /\ SavedAlike'
  BY DEF NineInv, TypeOK, SavedAlike, Behind, meta
<1>2. Followed'
  BY DEF NineInv, Followed, KnownAt, meta, None
<1> QED
  BY <1>1, <1>2 DEF NineInv, Behind

\* A step that keeps what is known of every place that keeps its content.
Stays ==
  \A p \in Paths, f \in Fields :
    (tree[p] # None /\ tree'[p] # None /\ meta[f][p] # None) => store'.meta[f][p] # None

-----------------------------------------------------------------------------
(* The requests *)

\* An entry is of one place.
LEMMA EnteredAt ==
  ASSUME TypeOK, NEW p \in Paths, NEW entry, NEW f \in Fields, NEW r \in Paths
  PROVE  Entered(p, entry)[f][r] = IF f \in DOMAIN entry /\ r = p THEN entry[f] ELSE meta[f][r]
<1>1. meta[f] \in [Paths -> Entries]
  BY MetaTyped DEF Metadata
<1> HIDE DEF meta
<1> QED
  BY <1>1 DEF Entered

\* The requests about fids change neither the tree nor the metadata.
LEMMA FidsKeepInv ==
  ASSUME NineInv, NEW f \in Fids,
                   Attach(f) \/ Walk(f) \/ Open(f) \/ Clunk(f) \/ ClunkFails(f)
  PROVE  NineInv' /\ Stays
<1>1. /\ UNCHANGED <<store, stray>>
      /\ mishaps' \in [Mishaps -> 0 .. MaxMishaps] /\ mishaps'["save"] = mishaps["save"]
  <2>1. CASE UNCHANGED <<store, stray, mishaps>>
    BY <2>1 DEF NineInv, TypeOK
  <2>2. CASE ClunkFails(f)
    <3>1. UNCHANGED <<store, stray>> /\ Mishap("close") /\ "close" \in Mishaps
      BY <2>2 DEF ClunkFails, Mishaps
    <3>2. mishaps' \in [Mishaps -> 0 .. MaxMishaps]
      BY <3>1, MishapTyped DEF NineInv
    <3>3. mishaps'["save"] = mishaps["save"]
      BY <3>1 DEF NineInv, TypeOK, Mishap, Mishaps
    <3> QED
      BY <3>1, <3>2, <3>3
  <2> QED
    BY <2>1, <2>2 DEF Attach, Walk, Open, Clunk
<1>2. /\ fids' \in [Fids -> Descriptors \cup {NotOpen}]
      /\ open' \cup unsure' \subseteq Descriptors
  <2>1. CASE Attach(f) \/ Walk(f) \/ Clunk(f)
    <3>1. /\ fids' = [fids EXCEPT ![f] = NotOpen] /\ open' \subseteq open
          /\ UNCHANGED unsure
      BY <2>1 DEF Attach, Walk, Clunk
    <3>2. NotOpen \in Descriptors \cup {NotOpen}
      BY NinePAssumption
    <3> QED
      BY <3>1, <3>2 DEF NineInv, TypeOK
  <2>2. CASE Open(f)
    <3>1. PICK d \in Free : /\ open' = open \cup {d} /\ fids' = [fids EXCEPT ![f] = d]
                            /\ UNCHANGED unsure
      BY <2>2 DEF Open
    <3> QED
      BY <3>1, NinePAssumption DEF NineInv, TypeOK, Free
  <2>3. CASE ClunkFails(f)
    BY <2>3 DEF ClunkFails, NineInv, TypeOK
  <2> QED
    BY <2>1, <2>2, <2>3
<1>3. UNCHANGED tree \/ tree' = [tree EXCEPT ![Root] = "dir"]
  BY DEF Attach, Walk, Open, Clunk, ClunkFails
<1>4. tree' \in [Paths -> Kinds] /\ \A r \in Paths : tree'[r] \in {tree[r], "dir"}
  BY <1>3 DEF NineInv, TypeOK, Kinds
<1>5. IsTree(tree')
  <2>1. ASSUME NEW a \in Paths PROVE Root \notin Below[a]
    <3>1. CASE Root \in Below[a]
      <4>1. IsStrictPrefix(a, Root) /\ Root \in Paths
        BY <3>1, BelowDef
      <4>2. a \in Seq(STRING) /\ Root \in Seq(STRING) /\ Len(a) \in Nat
        BY PathSeq, <4>1
      <4>3. Len(a) < Len(Root)
        BY <4>1, <4>2, StrictPrefixElems
      <4> QED
        BY <4>2, <4>3 DEF Root
    <3> QED
      BY <3>1
  <2>2. Root \in Paths /\ tree \in [Paths -> Kinds]
    BY NinePAssumption DEF NineInv, TypeOK
  <2> QED
    BY <1>3, <2>1, <2>2, BelowDef DEF NineInv, IsTree
<1>6. stray' \subseteq Paths
  BY <1>1 DEF NineInv, TypeOK
<1>7. NineInv'
  BY <1>1, <1>2, <1>4, <1>5, <1>6, HostKeepsInv DEF Behind
<1> QED
  BY <1>1, <1>7 DEF Stays, meta

LEMMA SetattrKeepsInv ==
  ASSUME NineInv, NEW p \in Paths, NEW target, Setattr(p, target)
  PROVE  NineInv' /\ Stays
<1> DEFINE entry == [perms |-> "set"]
           new == Entered(p, entry)
<1>1. DOMAIN entry = {"perms"} /\ \A f \in DOMAIN entry : entry[f] = "set"
  OBVIOUS
<1> HIDE DEF entry
<1>2. new \in Metadata
  BY <1>1, NewTyped DEF NineInv, Entries
<1>3. \A f \in Fields, r \in Paths :
        new[f][r] = IF f = "perms" /\ r = p THEN "set" ELSE meta[f][r]
  BY <1>1, EnteredAt DEF NineInv
<1>4. /\ tree[p] # None /\ UNCHANGED <<tree, fids, open, unsure>>
      /\ \/ Saved(<<"perms">>, new) /\ UNCHANGED <<stray, mishaps>>
         \/ SaveFails(<<"perms">>, new, {}, {p})
  BY DEF Setattr, Exists, entry
<1> HIDE DEF new
<1>5. Behind /\ Only({p}, new)
  BY <1>3, <1>4 DEF NineInv, TypeOK, Behind, Only
<1>6. CASE Saved(<<"perms">>, new) /\ UNCHANGED <<stray, mishaps>>
  <2>1. \A f \in Fields \ ToSet(<<"perms">>), r \in Paths : new[f][r] = meta[f][r]
    BY <1>3 DEF ToSet
  <2>2. \A r \in {p} \ stray' : KnownAt(tree', new, r)
    BY <1>3, <1>4, <1>6 DEF NineInv, Followed, KnownAt, Fields
  <2>3. mishaps' \in [Mishaps -> 0 .. MaxMishaps] /\ stray' \subseteq Paths
    BY <1>6 DEF NineInv, TypeOK
  <2>4. NineInv' /\ \A f \in Fields, r \in Paths : store'.meta[f][r] = new[f][r]
    BY <1>2, <1>5, <1>6, <2>1, <2>2, <2>3, SavedKeepsInv
  <2> QED
    BY <1>3, <2>4 DEF Stays, None
<1>7. CASE SaveFails(<<"perms">>, new, {}, {p})
  <2>1. NineInv' /\ \A f \in Fields : store'.meta[f] \in {meta[f], new[f]}
    BY <1>2, <1>5, <1>7, FailedKeepsInv
  <2> QED
    BY <1>3, <2>1 DEF Stays, None
<1> QED
  BY <1>4, <1>6, <1>7

\* Create, Symlink and Mkdir: something comes to be in a directory, and what is
\* entered for it is what it is.
LEMMA MadeKeepsInv ==
  ASSUME NineInv, NEW p \in Paths, NEW kind \in {"file", "link", "dir"},
         NEW entry, NEW order, NEW ahead,
         p # Root, InDir(p), tree[p] # "dir", tree' = Made(p, kind),
         fids' \in [Fids -> Descriptors \cup {NotOpen}], open' \cup unsure' \subseteq Descriptors,
         \A f \in DOMAIN entry : entry[f] \in Entries \ {None},
         DOMAIN entry \subseteq Fields, ToSet(order) = DOMAIN entry,
         "types" \in DOMAIN entry, entry["types"] = TypeName(kind),
         kind = "link" => "links" \in DOMAIN entry,
         \/ Saved(order, Entered(p, entry)) /\ stray' = stray \ {p} /\ UNCHANGED mishaps
         \/ SaveFails(order, Entered(p, entry), ahead, {p})
  PROVE  NineInv' /\ Stays
<1> DEFINE new == Entered(p, entry)
<1>1. new \in Metadata
  BY NewTyped DEF NineInv
<1>2. \A f \in Fields, r \in Paths :
        new[f][r] = IF f \in DOMAIN entry /\ r = p THEN entry[f] ELSE meta[f][r]
  BY EnteredAt DEF NineInv
<1>3. \/ Saved(order, new) /\ stray' = stray \ {p} /\ UNCHANGED mishaps
      \/ SaveFails(order, new, ahead, {p})
  OBVIOUS
<1> HIDE DEF new
<1>4. /\ tree' \in [Paths -> Kinds] /\ tree'[p] \in {kind, "hostlink"}
      /\ \A r \in Paths \ {p} : tree'[r] = tree[r]
  BY DEF NineInv, TypeOK, Made, Kinds
<1>5. IsTree(tree')
  BY PutTree DEF Made, NineInv, TypeOK
<1>6. Behind /\ Only({p}, new)
  BY <1>2, <1>4, <1>5 DEF Behind, Only
<1>7. CASE Saved(order, new) /\ stray' = stray \ {p} /\ UNCHANGED mishaps
  <2>1. \A f \in Fields \ ToSet(order), r \in Paths : new[f][r] = meta[f][r]
    BY <1>2
  <2>2. KnownAt(tree', new, p)
    BY <1>2, <1>4 DEF KnownAt, TypeName, Fields, None
  <2>3. /\ mishaps' \in [Mishaps -> 0 .. MaxMishaps] /\ mishaps'["save"] = mishaps["save"]
        /\ stray' \subseteq Paths
        /\ \A r \in Paths \ {p} : r \in stray => r \in stray'
    BY <1>7 DEF NineInv, TypeOK
  <2>4. NineInv' /\ \A f \in Fields, r \in Paths : store'.meta[f][r] = new[f][r]
    BY <1>1, <1>6, <1>7, <2>1, <2>2, <2>3, SavedKeepsInv
  <2> QED
    BY <1>2, <2>4 DEF Stays
<1>8. CASE SaveFails(order, new, ahead, {p})
  <2>1. NineInv' /\ \A f \in Fields : store'.meta[f] \in {meta[f], new[f]}
    BY <1>1, <1>6, <1>8, FailedKeepsInv
  <2> QED
    BY <1>2, <2>1 DEF Stays
<1> QED
  BY <1>3, <1>7, <1>8

LEMMA CreateKeepsInv ==
  ASSUME NineInv, NEW f \in Fids, NEW p \in Paths, NEW target, Create(f, p, target)
  PROVE  NineInv' /\ Stays
<1> DEFINE entry == [perms |-> "set", types |-> "file"]
           order == <<"perms", "types">>
<1>1. PICK d \in Free :
        /\ open' = open \cup {d} /\ UNCHANGED unsure
        /\ \/ /\ Saved(order, Entered(p, entry))
              /\ fids' = [fids EXCEPT ![f] = d]
              /\ stray' = stray \ {p}
              /\ UNCHANGED mishaps
           \/ SaveFails(order, Entered(p, entry), {}, {p}) /\ UNCHANGED fids
  BY DEF Create
<1>2. /\ DOMAIN entry = {"perms", "types"} /\ ToSet(order) = {"perms", "types"}
      /\ entry["perms"] = "set" /\ entry["types"] = "file"
  BY DEF ToSet
<1> HIDE DEF entry, order
<1>3. /\ fids' \in [Fids -> Descriptors \cup {NotOpen}]
      /\ open' \cup unsure' \subseteq Descriptors
  BY <1>1, NinePAssumption DEF NineInv, TypeOK, Free
<1>4. p # Root /\ InDir(p) /\ tree[p] # "dir" /\ tree' = Made(p, "file")
  BY DEF Create, Writable
<1>5. /\ \A g \in DOMAIN entry : entry[g] \in Entries \ {None}
      /\ DOMAIN entry \subseteq Fields /\ ToSet(order) = DOMAIN entry
      /\ "types" \in DOMAIN entry /\ entry["types"] = TypeName("file")
  BY <1>2 DEF Entries, None, Fields, TypeName
<1> QED
  BY <1>1, <1>3, <1>4, <1>5, MadeKeepsInv

LEMMA SymlinkKeepsInv ==
  ASSUME NineInv, NEW p \in Paths, NEW target, Symlink(p, target)
  PROVE  NineInv' /\ Stays
<1> DEFINE entry == [perms |-> "set", links |-> "set", types |-> "symlink"]
           order == <<"links", "types", "perms">>
<1>1. /\ p # Root /\ InDir(p) /\ tree[p] # "dir" /\ tree' = Made(p, "link")
      /\ \/ Saved(order, Entered(p, entry)) /\ stray' = stray \ {p} /\ UNCHANGED mishaps
         \/ SaveFails(order, Entered(p, entry), {"links", "types"}, {p})
  BY DEF Symlink, Writable
<1>2. /\ DOMAIN entry = {"perms", "links", "types"} /\ ToSet(order) = {"perms", "links", "types"}
      /\ entry["perms"] = "set" /\ entry["links"] = "set" /\ entry["types"] = "symlink"
  BY DEF ToSet
<1> HIDE DEF entry, order
<1>3. /\ fids' \in [Fids -> Descriptors \cup {NotOpen}]
      /\ open' \cup unsure' \subseteq Descriptors
  BY DEF NineInv, TypeOK, Symlink
<1>4. /\ \A g \in DOMAIN entry : entry[g] \in Entries \ {None}
      /\ DOMAIN entry \subseteq Fields /\ ToSet(order) = DOMAIN entry
      /\ "types" \in DOMAIN entry /\ entry["types"] = TypeName("link")
      /\ "links" \in DOMAIN entry
  BY <1>2 DEF Entries, None, Fields, TypeName
<1> QED
  BY <1>1, <1>3, <1>4, MadeKeepsInv

LEMMA MkdirKeepsInv ==
  ASSUME NineInv, NEW p \in Paths, Mkdir(p)
  PROVE  NineInv' /\ Stays
<1> DEFINE entry == [perms |-> "set", types |-> "dir"]
           order == <<"perms", "types">>
<1>1. /\ p # Root /\ InDir(p) /\ tree[p] = None /\ tree' = [tree EXCEPT ![p] = "dir"]
      /\ \/ Saved(order, Entered(p, entry)) /\ stray' = stray \ {p} /\ UNCHANGED mishaps
         \/ SaveFails(order, Entered(p, entry), {}, {p})
  BY DEF Mkdir
<1>2. /\ DOMAIN entry = {"perms", "types"} /\ ToSet(order) = {"perms", "types"}
      /\ entry["perms"] = "set" /\ entry["types"] = "dir"
  BY DEF ToSet
<1> HIDE DEF entry, order
<1>3. /\ fids' \in [Fids -> Descriptors \cup {NotOpen}]
      /\ open' \cup unsure' \subseteq Descriptors
  BY DEF NineInv, TypeOK, Mkdir
<1>4. tree[p] # "dir" /\ tree' = Made(p, "dir")
  BY <1>1 DEF Made, NineInv, TypeOK, None
<1>5. /\ \A g \in DOMAIN entry : entry[g] \in Entries \ {None}
      /\ DOMAIN entry \subseteq Fields /\ ToSet(order) = DOMAIN entry
      /\ "types" \in DOMAIN entry /\ entry["types"] = TypeName("dir")
  BY <1>2 DEF Entries, None, Fields, TypeName
<1> QED
  BY <1>1, <1>3, <1>4, <1>5, MadeKeepsInv

LEMMA UnlinkKeepsInv ==
  ASSUME NineInv, NEW p \in Paths, NEW target, NEW kept \in [Fids -> Descriptors \cup {NotOpen}],
         Unlink(p, target, kept)
  PROVE  NineInv' /\ Stays
<1> DEFINE new == Deleted(p)
           order == SavedFor(p)
<1>1. /\ tree' = [tree EXCEPT ![p] = None] /\ UNCHANGED <<open, unsure>>
      /\ tree[p] = "dir" => IsEmpty(p)
      /\ \/ Saved(order, new) /\ fids' = kept /\ stray' = stray \ {p} /\ UNCHANGED mishaps
         \/ SaveFails(order, new, {}, {p}) /\ UNCHANGED fids
  BY DEF Unlink, Removable
<1>2. new \in Metadata
  BY NewTyped DEF NineInv
<1>3. \A f \in Fields, r \in Paths : new[f][r] = IF r = p THEN None ELSE meta[f][r]
  <2>1. \A f \in Fields : meta[f] \in [Paths -> Entries]
    BY MetaTyped DEF NineInv, Metadata
  <2> HIDE DEF meta
  <2> QED
    BY <2>1 DEF Deleted
<1>4. ToSet(order) = {f \in Fields : meta[f][p] # None}
  BY SavedForElems
<1> HIDE DEF new, order
<1>5. /\ tree' \in [Paths -> Kinds] /\ tree'[p] = None
      /\ \A r \in Paths \ {p} : tree'[r] = tree[r]
  BY <1>1 DEF NineInv, TypeOK, Kinds
<1>6. IsTree(tree')
  <2>1. \A r \in Below[p] : tree[r] = None
    BY <1>1, EmptyBelow DEF NineInv, IsEmpty
  <2>2. \A a \in Paths : Below[a] \subseteq Paths
    BY BelowDef
  <2> QED
    BY <1>5, <2>1, <2>2 DEF NineInv, IsTree
<1>7. Behind /\ Only({p}, new)
  BY <1>1, <1>3, <1>5, <1>6 DEF NineInv, TypeOK, Behind, Only
<1>8. CASE Saved(order, new) /\ stray' = stray \ {p} /\ UNCHANGED mishaps
  <2>1. \A f \in Fields \ ToSet(order), r \in Paths : new[f][r] = meta[f][r]
    BY <1>3, <1>4
  <2>2. KnownAt(tree', new, p)
    BY <1>3, <1>5 DEF KnownAt, None
  <2>3. /\ mishaps' \in [Mishaps -> 0 .. MaxMishaps] /\ mishaps'["save"] = mishaps["save"]
        /\ stray' \subseteq Paths
        /\ \A r \in Paths \ {p} : r \in stray => r \in stray'
    BY <1>8 DEF NineInv, TypeOK
  <2>4. NineInv' /\ \A f \in Fields, r \in Paths : store'.meta[f][r] = new[f][r]
    BY <1>2, <1>7, <1>8, <2>1, <2>2, <2>3, SavedKeepsInv
  <2> QED
    BY <1>3, <1>5, <2>4 DEF Stays
<1>9. CASE SaveFails(order, new, {}, {p})
  <2>1. NineInv' /\ \A f \in Fields : store'.meta[f] \in {meta[f], new[f]}
    BY <1>2, <1>7, <1>9, FailedKeepsInv
  <2> QED
    BY <1>3, <1>5, <2>1 DEF Stays
<1> QED
  BY <1>1, <1>8, <1>9

\* A rename moves kinds of content.
LEMMA MovedTyped ==
  ASSUME tree \in [Paths -> Kinds], NEW p \in Paths, NEW q \in Paths
  PROVE  Moved(p, q) \in [Paths -> Kinds]
<1>1. \A r \in Paths : Moved(p, q)[r] \in Kinds
  <2> SUFFICES ASSUME NEW r \in Paths PROVE Moved(p, q)[r] \in Kinds
    OBVIOUS
  <2>1. CASE \E g \in {p} \cup Below[p] : MovedTo(g, p, q) = r
    BY <2>1, MovedAt, BelowDef
  <2>2. CASE \A g \in {p} \cup Below[p] : MovedTo(g, p, q) # r
    <3>1. Moved(p, q)[r] = IF r \in {p} \cup Below[p] THEN None ELSE tree[r]
      BY <2>2, MovedAt
    <3> QED
      BY <3>1 DEF Kinds
  <2> QED
    BY <2>1, <2>2
<1>2. Moved(p, q) = [r \in Paths |-> Moved(p, q)[r]]
  BY DEF Moved
<1> QED
  BY <1>1, <1>2

LEMMA RenameatKeepsInv ==
  ASSUME NineInv, NEW p \in Paths, NEW q \in Paths, Renameat(p, q)
  PROVE  NineInv' /\ Stays
<1> DEFINE new == Renamed(p, q)
           order == SavedFor(p)
           behind == LeftBehind(p, q)
           places == {p, q} \cup behind
<1>1. /\ CanMove(p, q) /\ p # q /\ tree[p] # None
      /\ tree' = Moved(p, q) /\ UNCHANGED <<fids, open, unsure>>
      /\ \/ /\ Saved(order, new)
            /\ stray' = (stray \ {p, q}) \cup behind \cup {r \in {q} : p \in stray}
            /\ IF behind = {} THEN UNCHANGED mishaps ELSE Mishap("move")
         \/ SaveFails(order, new, {}, places)
  BY DEF Renameat, CanMove, Movable
<1>2. IsTree(tree) /\ tree \in [Paths -> Kinds]
  BY DEF NineInv, TypeOK
<1>3. /\ Moved(p, q)[p] = None /\ Moved(p, q)[q] = tree[p]
      /\ behind \subseteq Paths
      /\ \A r \in Paths \ places : Moved(p, q)[r] = tree[r]
  BY <1>1, <1>2, MovedPlaces
<1>4. IsTree(tree') /\ tree' \in [Paths -> Kinds]
  BY <1>1, <1>2, MovedTree, MovedTyped
<1>5. new \in Metadata
  BY NewTyped DEF NineInv
<1>6. \A f \in Fields, r \in Paths :
        new[f][r] = IF meta[f][p] = None THEN meta[f][r]
                    ELSE IF r = p THEN None ELSE IF r = q THEN meta[f][p] ELSE meta[f][r]
  <2>1. \A f \in Fields : meta[f] \in [Paths -> Entries]
    BY MetaTyped DEF NineInv, Metadata
  <2> HIDE DEF meta
  <2> QED
    BY <1>1, <2>1 DEF Renamed
<1>7. ToSet(order) = {f \in Fields : meta[f][p] # None}
  BY SavedForElems
<1> HIDE DEF new, order, behind
<1>8. places \subseteq Paths /\ p \in places /\ q \in places
  BY <1>3
<1>9. Behind /\ Only(places, new)
  <2>1. fids' \in [Fids -> Descriptors \cup {NotOpen}] /\ open' \cup unsure' \subseteq Descriptors
    BY <1>1 DEF NineInv, TypeOK
  <2>2. Only(places, new)
    BY <1>1, <1>3, <1>6 DEF Only
  <2> QED
    BY <1>4, <2>1, <2>2 DEF Behind
<1>10. CASE /\ Saved(order, new)
            /\ stray' = (stray \ {p, q}) \cup behind \cup {r \in {q} : p \in stray}
            /\ IF behind = {} THEN UNCHANGED mishaps ELSE Mishap("move")
  <2>1. \A f \in Fields \ ToSet(order), r \in Paths : new[f][r] = meta[f][r]
    BY <1>6, <1>7
  <2>2. KnownAt(tree', new, p)
    BY <1>1, <1>3, <1>6 DEF KnownAt, None
  <2>3. ASSUME q \notin stray' PROVE KnownAt(tree', new, q)
    <3>1. p \notin stray
      BY <1>10, <2>3
    <3>2. KnownAt(tree, meta, p)
      BY <3>1 DEF NineInv, Followed
    <3>3. tree'[q] = tree[p]
      BY <1>1, <1>3
    <3> QED
      BY <1>1, <1>6, <3>2, <3>3 DEF KnownAt, Fields, None
  <2>4. \A r \in places \ stray' : KnownAt(tree', new, r)
    BY <1>10, <2>2, <2>3
  <2>5. mishaps' \in [Mishaps -> 0 .. MaxMishaps] /\ mishaps'["save"] = mishaps["save"]
    <3>1. CASE UNCHANGED mishaps
      BY <3>1 DEF NineInv, TypeOK
    <3>2. CASE Mishap("move")
      <4>1. "move" \in Mishaps
        BY DEF Mishaps
      <4>2. mishaps' \in [Mishaps -> 0 .. MaxMishaps]
        BY <3>2, <4>1, MishapTyped DEF NineInv
      <4>3. mishaps'["save"] = mishaps["save"]
        BY <3>2 DEF NineInv, TypeOK, Mishap, Mishaps
      <4> QED
        BY <4>2, <4>3
    <3> QED
      BY <1>10, <3>1, <3>2
  <2>6. stray' \subseteq Paths /\ \A r \in Paths \ places : r \in stray => r \in stray'
    BY <1>3, <1>10 DEF NineInv, TypeOK
  <2> HIDE DEF places
  <2>7. NineInv' /\ \A f \in Fields, r \in Paths : store'.meta[f][r] = new[f][r]
    BY <1>5, <1>9, <1>10, <2>1, <2>4, <2>5, <2>6, SavedKeepsInv
  <2> QED
    BY <1>1, <1>3, <1>6, <2>7 DEF Stays
<1>11. CASE SaveFails(order, new, {}, places)
  <2> HIDE DEF places
  <2>1. NineInv' /\ \A f \in Fields : store'.meta[f] \in {meta[f], new[f]}
    BY <1>5, <1>8, <1>9, <1>11, FailedKeepsInv
  <2> QED
    BY <1>1, <1>3, <1>6, <2>1 DEF Stays
<1> QED
  BY <1>1, <1>10, <1>11

-----------------------------------------------------------------------------
(* The file manager, and restarts *)

LEMMA HostChangeKeepsInv ==
  ASSUME NineInv, NEW T \in [Paths -> Kinds], IsTree(T), NEW places \in SUBSET Paths,
         \A r \in Paths \ places : T[r] = tree[r], HostChange(T, places)
  PROVE  NineInv' /\ Stays
<1>1. /\ Mishap("host") /\ tree' = T /\ stray' = stray \cup places
      /\ UNCHANGED <<store, fids, open, unsure>>
  BY DEF HostChange
<1>2. "host" \in Mishaps
  BY DEF Mishaps
<1>3. mishaps' \in [Mishaps -> 0 .. MaxMishaps] /\ mishaps'["save"] = mishaps["save"]
  <2>1. mishaps' \in [Mishaps -> 0 .. MaxMishaps]
    BY <1>1, <1>2, MishapTyped DEF NineInv
  <2>2. mishaps'["save"] = mishaps["save"]
    BY <1>1 DEF NineInv, TypeOK, Mishap, Mishaps
  <2> QED
    BY <2>1, <2>2
<1>4. Behind
  BY <1>1 DEF NineInv, TypeOK, Behind
<1>5. NineInv'
  BY <1>1, <1>3, <1>4, HostKeepsInv DEF NineInv, TypeOK
<1> QED
  BY <1>1, <1>5 DEF Stays, meta

LEMMA HostKeepsAll ==
  ASSUME NineInv, Host
  PROVE  NineInv' /\ Stays
<1>1. IsTree(tree) /\ tree \in [Paths -> Kinds]
  BY DEF NineInv, TypeOK
<1>2. ASSUME NEW p \in Paths, NEW kind \in {"file", "dir"},
             p # Root, InDir(p), tree[p] # "dir", HostChange([tree EXCEPT ![p] = kind], {p})
      PROVE  NineInv' /\ Stays
  <2> DEFINE T == [tree EXCEPT ![p] = kind]
  <2>1. T \in [Paths -> Kinds] /\ \A r \in Paths \ {p} : T[r] = tree[r]
    BY <1>1 DEF Kinds
  <2>2. IsTree(T)
    BY <1>1, <1>2, PutTree
  <2>3. HostChange(T, {p})
    BY <1>2
  <2> HIDE DEF T
  <2> QED
    BY <2>1, <2>2, <2>3, HostChangeKeepsInv
<1>3. ASSUME NEW p \in Paths, HostUpload(p)
      PROVE  NineInv' /\ Stays
  <2> DEFINE T == [q \in Paths |-> CASE q = p -> "file"
                                    [] q \in Below[p] -> None
                                    [] OTHER -> tree[q]]
  <2>1. p # Root /\ InDir(p) /\ HostChange(T, {p} \cup Below[p])
    BY <1>3 DEF HostUpload
  <2>2. p \notin Below[p] /\ Below[p] \subseteq Paths
    BY BelowDef
  <2>3. \A q \in Paths : /\ q = p => T[q] = "file"
                         /\ q \in Below[p] => T[q] = None
                         /\ q \notin {p} \cup Below[p] => T[q] = tree[q]
    BY <2>2
  <2>4. T \in [Paths -> Kinds]
    <3>1. T = [q \in Paths |-> T[q]]
      OBVIOUS
    <3> HIDE DEF T
    <3> QED
      BY <1>1, <2>3, <3>1 DEF Kinds
  <2> HIDE DEF T
  <2>5. IsTree(T)
    <3> SUFFICES ASSUME NEW a \in Paths, NEW r \in Below[a], T[r] # None
                 PROVE  T[a] = "dir"
      BY DEF IsTree
    <3>1. r \in Paths /\ r \notin Below[p]
      BY <2>3, BelowDef
    <3>2. a # p /\ a \notin Below[p]
      BY <3>1, BelowTrans
    <3>3. CASE r = p
      BY <1>1, <2>1, <2>3, <3>2, <3>3, DirsAbove
    <3>4. CASE r # p
      BY <1>1, <2>3, <3>1, <3>2, <3>4 DEF IsTree
    <3> QED
      BY <3>3, <3>4
  <2> QED
    BY <2>1, <2>2, <2>3, <2>4, <2>5, HostChangeKeepsInv
<1>4. ASSUME NEW p \in Paths, HostRemove(p)
      PROVE  NineInv' /\ Stays
  <2> DEFINE T == [q \in Paths |-> IF q \in {p} \cup Below[p] THEN None ELSE tree[q]]
  <2>1. HostChange(T, {p} \cup Below[p])
    BY <1>4 DEF HostRemove
  <2>2. T \in [Paths -> Kinds] /\ Below[p] \subseteq Paths
    BY <1>1, BelowDef DEF Kinds
  <2>3. \A q \in Paths : T[q] = IF q \in {p} \cup Below[p] THEN None ELSE tree[q]
    OBVIOUS
  <2> HIDE DEF T
  <2>4. IsTree(T)
    BY <1>1, <2>2, <2>3, CutTree
  <2> QED
    BY <2>1, <2>2, <2>3, <2>4, HostChangeKeepsInv
<1>5. ASSUME NEW p \in Paths, NEW q \in Paths, HostRename(p, q)
      PROVE  NineInv' /\ Stays
  <2> DEFINE T == Moved(p, q)
             places == {p, q} \cup LeftBehind(p, q)
  <2>1. CanMove(p, q) /\ HostChange(T, places)
    BY <1>5 DEF HostRename, CanMove
  <2>2. T \in [Paths -> Kinds] /\ IsTree(T)
    BY <1>1, <2>1, MovedTree, MovedTyped
  <2>3. places \subseteq Paths /\ \A r \in Paths \ places : T[r] = tree[r]
    BY <1>1, <2>1, MovedPlaces
  <2> HIDE DEF T, places
  <2> QED
    BY <2>1, <2>2, <2>3, HostChangeKeepsInv
<1>6. ASSUME NEW p \in Paths, HostWrite(p)
      PROVE  NineInv' /\ Stays
  BY <1>2, <1>6 DEF HostWrite, None
<1>7. ASSUME NEW p \in Paths, HostMkdir(p)
      PROVE  NineInv' /\ Stays
  BY <1>2, <1>7 DEF HostMkdir, None
<1> QED
  BY <1>3, <1>4, <1>5, <1>6, <1>7 DEF Host

LEMMA ReloadKeepsInv ==
  ASSUME NineInv, NEW sameProcess \in BOOLEAN, Reload(sameProcess)
  PROVE  NineInv' /\ (mishaps["save"] = 0 => Stays)
<1> DEFINE lost == {p \in Paths : \E f \in Fields : store.saved[f][p] # meta[f][p]}
<1>1. /\ store' = [meta |-> store.saved, saved |-> store.saved,
                   dirty |-> [f \in Fields |-> FALSE]]
      /\ fids' = [f \in Fids |-> NotOpen] /\ open' \subseteq open /\ unsure' = {}
      /\ stray' = stray \cup lost /\ UNCHANGED <<tree, mishaps>>
  BY DEF Reload
<1>2. store'.meta = store.saved /\ store'.saved = store.saved
  BY <1>1
<1>3. store' \in [meta : Metadata, saved : Metadata, dirty : [Fields -> BOOLEAN]]
  <2>1. store.saved \in Metadata
    BY MetaTyped DEF NineInv
  <2> QED
    BY <1>1, <2>1
<1>4. fids' \in [Fids -> Descriptors \cup {NotOpen}] /\ open' \cup unsure' \subseteq Descriptors
  BY <1>1, NinePAssumption DEF NineInv, TypeOK
<1>5. TypeOK' /\ IsTree(tree')
  BY <1>1, <1>3, <1>4 DEF NineInv, TypeOK
<1>6. Followed'
  <2> SUFFICES ASSUME NEW r \in Paths \ stray'
               PROVE  KnownAt(tree', meta', r)
    BY DEF Followed
  <2>1. KnownAt(tree, meta, r)
    BY <1>1 DEF NineInv, Followed
  <2>2. \A f \in Fields : store'.meta[f][r] = meta[f][r]
    BY <1>1, <1>2
  <2> QED
    BY <1>1, <2>1, <2>2 DEF KnownAt, meta, Fields
<1>7. SavedAlike'
  BY <1>2 DEF SavedAlike, meta
<1>8. mishaps["save"] = 0 => Stays
  BY <1>2 DEF NineInv, SavedAlike, Stays
<1> QED
  BY <1>5, <1>6, <1>7, <1>8 DEF NineInv

-----------------------------------------------------------------------------
(* The theorems *)

LEMMA NextNine == NineInv /\ [Next]_vars => NineInv' /\ (mishaps["save"] = 0 => Stays)
<1> SUFFICES ASSUME NineInv, [Next]_vars
             PROVE  NineInv' /\ (mishaps["save"] = 0 => Stays)
  OBVIOUS
<1>1. ASSUME NEW f \in Fids, FidRequest(f)
      PROVE  NineInv' /\ Stays
  <2>1. ASSUME NEW p \in Paths, NEW target \in Targets(p), RemoveFid(f, p, target)
        PROVE  NineInv' /\ Stays
    <3>1. [fids EXCEPT ![f] = NotOpen] \in [Fids -> Descriptors \cup {NotOpen}]
      BY NinePAssumption DEF NineInv, TypeOK
    <3> QED
      BY <2>1, <3>1, UnlinkKeepsInv DEF RemoveFid
  <2> QED
    BY <1>1, <2>1, FidsKeepInv, CreateKeepsInv DEF FidRequest
<1>2. CASE PlaceRequest
  <2>1. ASSUME NEW p \in Paths, NEW target \in Targets(p), Unlinkat(p, target)
        PROVE  NineInv' /\ Stays
    <3>1. fids \in [Fids -> Descriptors \cup {NotOpen}]
      BY DEF NineInv, TypeOK
    <3> QED
      BY <2>1, <3>1, UnlinkKeepsInv DEF Unlinkat
  <2> QED
    BY <1>2, <2>1, MkdirKeepsInv, RenameatKeepsInv, SetattrKeepsInv, SymlinkKeepsInv
       DEF PlaceRequest
<1>3. CASE Host
  BY <1>3, HostKeepsAll
<1>4. ASSUME NEW sameProcess \in BOOLEAN, Reload(sameProcess)
      PROVE  NineInv' /\ (mishaps["save"] = 0 => Stays)
  BY <1>4, ReloadKeepsInv
<1>5. CASE UNCHANGED vars
  <2>1. NineInv'
    BY <1>5 DEF vars, NineInv, TypeOK, Followed, SavedAlike, KnownAt, meta
  <2> QED
    BY <1>5, <2>1 DEF vars, Stays, meta
<1> QED
  BY <1>1, <1>2, <1>3, <1>4, <1>5 DEF Next

\* The tree, the caches and their files, fids and descriptors stay what the
\* handler and the host can make of them.
THEOREM NineTypeCorrect == Spec => []TypeOK
<1>1. NineInv => TypeOK
  BY DEF NineInv
<1> QED
  BY <1>1, InitNine, NextNine, PTL DEF Spec

\* Metadata follows its file: what the guest is shown at a place that no failed
\* save, no change with the file manager and no rename of a directory left behind
\* is what was made there.
THEOREM MetadataAlwaysFollows == Spec => []MetadataFollows
<1>1. NineInv => MetadataFollows
  BY InvImplies
<1> QED
  BY <1>1, InitNine, NextNine, PTL DEF Spec

\* What is known of a file is not given up while the file stays, in no request,
\* change with the file manager or restart, as long as no save failed.
THEOREM MetadataAlwaysStays == Spec => MetadataStays
<1>1. NineInv /\ [Next]_vars =>
        [mishaps["save"] = 0 =>
           \A p \in Paths, f \in Fields :
             (tree[p] # None /\ tree'[p] # None /\ meta[f][p] # None)
               => store'.meta[f][p] # None]_vars
  BY NextNine DEF Stays
<1> QED
  BY <1>1, InitNine, NextNine, PTL DEF Spec, MetadataStays
=============================================================================
