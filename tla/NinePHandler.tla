----------------------------- MODULE NinePHandler -----------------------------
(***************************************************************************)
(* The 9P file server of a machine, src/9p_handler.js: the fids the guest  *)
(* holds, the directory on the host, and what the host cannot store (modes,*)
(* symbolic links, types), which the handler keeps in three caches and     *)
(* saves to a file each.                                                   *)
(*                                                                         *)
(* A request is handled synchronously, so it is one action.  A save or a   *)
(* close in it may fail and leaves what was before it done.  The file      *)
(* manager of the panel changes the same directory and none of the caches. *)
(*                                                                         *)
(* A request names a place by a fid and at times a name in it.  The guest  *)
(* can walk to every place there is, and the host refuses what is gone, so *)
(* a request is given its place, and a fid keeps only its descriptor.      *)
(* Requests that are refused, and those that only answer, change nothing.  *)
(***************************************************************************)
EXTENDS Integers, SequencesExt

CONSTANTS
  Paths,           \* the places of the tree, as sequences of names
  Fids,            \* the fids the guest uses
  Descriptors,     \* the numbers of the files the host lets the process open
  NotOpen,         \* a fid without one
  Unpacked,        \* the tree that extractInitrd leaves
  MaxMishaps       \* bound on what leaves metadata or fids behind

Root == <<>>
None == "none"

\* What a place holds.  A link that the guest makes is an empty file on the
\* host; one that extractInitrd makes is a link there too.
Kinds == {None, "file", "dir", "link", "hostlink"}

\* The places and what is unpacked into them make a tree.
ASSUME NinePAssumption ==
  /\ Root \in Paths
  /\ \A p \in Paths : p \in Seq(STRING) /\ \A n \in 0 .. Len(p) : SubSeq(p, 1, n) \in Paths
  /\ Unpacked \in [Paths -> Kinds \ {"link"}] /\ Unpacked[Root] = "dir"
  /\ \A p, q \in Paths : IsStrictPrefix(p, q) /\ Unpacked[q] # None => Unpacked[p] = "dir"
  /\ NotOpen \notin Descriptors /\ MaxMishaps \in Nat

VARIABLES
  tree,        \* the directory on the host
  store,       \* the caches, the files they are saved to, the dirty flags
  fids,        \* fids, of the map of the same name: the descriptor of each
  open,        \* the descriptors that were opened and not closed
  unsure,      \* the numbers of the descriptors whose close has failed
  stray,       \* the places whose metadata something left behind
  mishaps      \* how often each of Mishaps has happened

vars == <<tree, store, fids, open, unsure, stray, mishaps>>

-----------------------------------------------------------------------------
(* What makes the files and their metadata differ: a save that fails, a     *)
(* change with the file manager, the move of a directory with its content; *)
(* and what makes fids and descriptors differ: a close that fails.         *)

Mishaps == {"save", "host", "move", "close"}

Mishap(kind) ==
  /\ mishaps["save"] + mishaps["host"] + mishaps["move"] + mishaps["close"] < MaxMishaps
  /\ mishaps' = [mishaps EXCEPT ![kind] = @ + 1]

-----------------------------------------------------------------------------
(* The tree *)

\* What lies behind a link of the host is outside of this tree.
Targets(p) == IF tree[p] = "hostlink" THEN {None, "file", "dir"} ELSE {None}

\* existsSync and statSync, which follow links.
Exists(p, target) ==
  tree[p] # None /\ (tree[p] = "hostlink" => target # None)

Below == [p \in Paths |-> {q \in Paths : IsStrictPrefix(p, q)}]
Dir == [p \in Paths \ {Root} |-> Front(p)]

IsEmpty(p) == \A q \in Below[p] : tree[q] = None

InDir(p) == tree[Dir[p]] = "dir"

-----------------------------------------------------------------------------
(* The metadata *)

Fields == {"perms", "links", "types"}
Entries == {None, "set", "file", "dir", "symlink"}
Metadata == [Fields -> [Paths -> Entries]]

meta == store.meta

TypeName(kind) == IF kind \in {"link", "hostlink"} THEN "symlink" ELSE kind

\* isSymlink
IsSymlink(p) == tree[p] = "hostlink" \/ (tree[p] # None /\ meta.types[p] = "symlink")

Entered(p, entry) ==
  [f \in Fields |-> IF f \in DOMAIN entry THEN [meta[f] EXCEPT ![p] = entry[f]]
                                          ELSE meta[f]]

\* Mutant: the entry is set to undefined instead.
DeletedUndefined(p) == [f \in Fields |-> [meta[f] EXCEPT ![p] = "undefined"]]

\* Mutant: the type is forgotten.
DeletedButType(p) ==
  [f \in Fields |-> IF f = "types" THEN meta[f] ELSE [meta[f] EXCEPT ![p] = None]]

\* deleteMeta
Deleted(p) == [f \in Fields |-> [meta[f] EXCEPT ![p] = None]]

\* renameMeta: of the place itself and of none below it.
Renamed(p, q) ==
  [f \in Fields |-> IF meta[f][p] = None THEN meta[f]
                    ELSE [meta[f] EXCEPT ![q] = meta[f][p], ![p] = None]]

\* deleteMeta and renameMeta save what has an entry for the place.
SavedFor(p) ==
  LET known(f) == IF meta[f][p] # None THEN <<f>> ELSE <<>> IN
  known("perms") \o known("links") \o known("types")

\* The fields of a sequence, cached and saved one after another.
Saved(order, new) ==
  LET done == ToSet(order) IN
  /\ store' = [meta  |-> [f \in Fields |-> IF f \in done THEN new[f] ELSE meta[f]],
               saved |-> [f \in Fields |-> IF f \in done THEN new[f] ELSE store.saved[f]],
               dirty |-> [f \in Fields |-> store.dirty[f] /\ f \notin done]]

\* Mutant: the flag is cleared before the file is written.
DirtyUntilTried(f, cached, done) == store.dirty[f] /\ f \notin cached

\* The flag is set with the cache and cleared behind the write.
StaysDirty(f, cached, done) ==
  (f \in cached \/ store.dirty[f]) /\ f \notin done

\* The store when the save of order[k] fails and leaves content in its file.
\* The caches in ahead were changed before the first save, the others not yet.
Interrupted(order, new, ahead, k, content) ==
  LET done == {order[i] : i \in 1 .. k - 1}
      cached == done \cup ahead \cup {order[k]} IN
  [meta  |-> [f \in Fields |-> IF f \in cached THEN new[f] ELSE meta[f]],
   saved |-> [f \in Fields |-> IF f \in done THEN new[f]
                               ELSE IF f = order[k] THEN content
                               ELSE store.saved[f]],
   dirty |-> [f \in Fields |-> StaysDirty(f, cached, done)]]

\* The file is as it was, or has lost its content.
SaveFails(order, new, ahead, places) ==
  /\ Mishap("save")
  /\ \E k \in DOMAIN order :
       \E content \in {store.saved[order[k]], [p \in Paths |-> None]} :
         store' = Interrupted(order, new, ahead, k, content)
  /\ stray' = stray \cup places

-----------------------------------------------------------------------------
(* Fids and descriptors *)

Free == Descriptors \ open

Attach(f) ==
  /\ tree' = [tree EXCEPT ![Root] = "dir"]
  /\ fids' = [fids EXCEPT ![f] = NotOpen]
  /\ UNCHANGED <<store, open, unsure, stray, mishaps>>

\* The new fid of a walk replaces what was under its number.
Walk(f) ==
  /\ {p \in Paths : tree[p] # None} # {}
  /\ fids' = [fids EXCEPT ![f] = NotOpen]
  /\ UNCHANGED <<tree, store, open, unsure, stray, mishaps>>

\* The entry of the root is left out: no request moves or removes it.
Setattr(p, target) ==
  LET new == Entered(p, [perms |-> "set"]) IN
  /\ p # Root /\ Exists(p, target)
  /\ \/ Saved(<<"perms">>, new) /\ UNCHANGED <<stray, mishaps>>
     \/ SaveFails(<<"perms">>, new, {}, {p})
  /\ UNCHANGED <<tree, fids, open, unsure>>

\* Directories and links are not opened on the host.  A descriptor that the
\* fid had already is not closed.
Open(f) ==
  /\ {p \in Paths : tree[p] \notin {None, "dir"} /\ ~IsSymlink(p)} # {}
  /\ \E d \in Free :
       /\ open' = open \cup {d}
       /\ fids' = [fids EXCEPT ![f] = d]
  /\ UNCHANGED <<tree, store, unsure, stray, mishaps>>

\* Mutant: the fid stays.
ClunkKeeping(f) ==
  /\ open' = open \ {fids[f]}
  /\ UNCHANGED <<tree, store, fids, unsure, stray, mishaps>>

\* The descriptor is closed, by its number alone, before the fid is deleted.  An
\* unknown fid is clunked too.  A number that is not open by now is refused: the
\* fid stays, and nothing is answered.
Clunk(f) ==
  /\ fids[f] \in open \cup {NotOpen}
  /\ open' = open \ {fids[f]}
  /\ fids' = [fids EXCEPT ![f] = NotOpen]
  /\ UNCHANGED <<tree, store, unsure, stray, mishaps>>

\* closeSync throws for a file that it had: the host has given up the number,
\* and the fid keeps it.
ClunkFails(f) ==
  /\ fids[f] \in open
  /\ Mishap("close")
  /\ open' = open \ {fids[f]}
  /\ unsure' = unsure \cup {fids[f]}
  /\ UNCHANGED <<tree, store, fids, stray>>

-----------------------------------------------------------------------------
(* Requests that make something *)

\* openSync and writeFileSync take what is there already, and follow links.
Writable(p, target) ==
  /\ p # Root /\ InDir(p)
  /\ tree[p] # "dir" /\ (tree[p] = "hostlink" => target # "dir")

Made(p, kind) == [tree EXCEPT ![p] = IF @ = "hostlink" THEN @ ELSE kind]

\* Tlcreate; one for reading only is refused if there is nothing yet.  The
\* descriptor of a create that fails later is lost.
Create(f, p, target) ==
  LET new == Entered(p, [perms |-> "set", types |-> "file"])
      order == <<"perms", "types">> IN
  /\ Writable(p, target)
  /\ tree' = Made(p, "file")
  /\ \E d \in Free :
       /\ open' = open \cup {d}
       /\ \/ /\ Saved(order, new)
             /\ fids' = [fids EXCEPT ![f] = d]
             /\ stray' = stray \ {p}
             /\ UNCHANGED mishaps
          \/ SaveFails(order, new, {}, {p}) /\ UNCHANGED fids
  /\ UNCHANGED unsure

Symlink(p, target) ==
  LET new == Entered(p, [perms |-> "set", links |-> "set", types |-> "symlink"])
      order == <<"links", "types", "perms">> IN
  /\ Writable(p, target)
  /\ tree' = Made(p, "link")
  /\ \/ /\ Saved(order, new)
        /\ stray' = stray \ {p}
        /\ UNCHANGED mishaps
     \/ SaveFails(order, new, {"links", "types"}, {p})
  /\ UNCHANGED <<fids, open, unsure>>

Mkdir(p) ==
  LET new == Entered(p, [perms |-> "set", types |-> "dir"])
      order == <<"perms", "types">> IN
  /\ p # Root /\ InDir(p) /\ tree[p] = None
  /\ Below[p] # {}
  /\ tree' = [tree EXCEPT ![p] = "dir"]
  /\ \/ /\ Saved(order, new)
        /\ stray' = stray \ {p}
        /\ UNCHANGED mishaps
     \/ SaveFails(order, new, {}, {p})
  /\ UNCHANGED <<fids, open, unsure>>

-----------------------------------------------------------------------------
(* Requests that remove or move something.  A guest does not do so to the  *)
(* directory it has mounted.                                               *)

\* A directory goes if it is empty; statSync takes a link to a directory for
\* one, and rmdir refuses it.
Removable(p, target) ==
  /\ p # Root /\ Exists(p, target)
  /\ tree[p] = "dir" => IsEmpty(p)
  /\ tree[p] = "hostlink" => target = "file"

\* Mutant: the metadata goes first, of what is not removed too.
UnlinkMetaFirst(p, target, kept) ==
  /\ p # Root /\ Exists(p, target)
  /\ tree' = IF Removable(p, target) THEN [tree EXCEPT ![p] = None] ELSE tree
  /\ \/ /\ Saved(SavedFor(p), Deleted(p))
        /\ fids' = kept
        /\ stray' = stray \ {p}
        /\ UNCHANGED mishaps
     \/ SaveFails(SavedFor(p), Deleted(p), {}, {p}) /\ UNCHANGED fids
  /\ UNCHANGED <<open, unsure>>

\* What Tremove and Tunlinkat have in common.
Unlink(p, target, kept) ==
  /\ Removable(p, target)
  /\ tree' = [tree EXCEPT ![p] = None]
  /\ \/ /\ Saved(SavedFor(p), Deleted(p))
        /\ fids' = kept
        /\ stray' = stray \ {p}
        /\ UNCHANGED mishaps
     \/ SaveFails(SavedFor(p), Deleted(p), {}, {p}) /\ UNCHANGED fids
  /\ UNCHANGED <<open, unsure>>

Unlinkat(p, target) == Unlink(p, target, fids)

\* The fid goes and its descriptor stays open.
RemoveFid(f, p, target) == Unlink(p, target, [fids EXCEPT ![f] = NotOpen])

Movable(p, q) ==
  /\ tree[p] # None /\ InDir(q)
  /\ q \notin Below[p]
  /\ IF tree[p] = "dir" THEN tree[q] = None \/ (tree[q] = "dir" /\ IsEmpty(q))
                        ELSE tree[q] # "dir"

\* Where p, or what is below it, comes to lie when p is renamed to q.
MovedTo(r, p, q) == q \o SubSeq(r, Len(p) + 1, Len(r))

\* What Paths has no place for is not moved.
Fitting(p, q) ==
  /\ tree[p] = "dir" => Below[q] # {}
  /\ \A r \in Below[p] : tree[r] # None => MovedTo(r, p, q) \in Paths

Moved(p, q) ==
  LET gone == {p} \cup Below[p] IN
  [r \in Paths |->
     LET here == {g \in gone : MovedTo(g, p, q) = r} IN
     IF here # {} THEN tree[CHOOSE g \in here : TRUE]
     ELSE IF r \in gone THEN None ELSE tree[r]]

\* What moves with its directory, where it was and where it comes.
LeftBehind(p, q) ==
  LET inside == {r \in Below[p] : tree[r] # None} IN
  inside \cup {MovedTo(r, p, q) : r \in inside}

\* Guests do not rename a name to itself.
Renameat(p, q) ==
  /\ p # Root /\ q # Root /\ p # q
  /\ Movable(p, q) /\ Fitting(p, q)
  /\ tree' = Moved(p, q)
  /\ \/ /\ Saved(SavedFor(p), Renamed(p, q))
        /\ stray' = (stray \ {p, q}) \cup LeftBehind(p, q)
                      \cup {r \in {q} : p \in stray}
        /\ IF LeftBehind(p, q) = {} THEN UNCHANGED mishaps ELSE Mishap("move")
     \/ SaveFails(SavedFor(p), Renamed(p, q), {}, {p, q} \cup LeftBehind(p, q))
  /\ UNCHANGED <<fids, open, unsure>>

-----------------------------------------------------------------------------
(* The file manager of the panel, and restarts *)

HostChange(new, places) ==
  /\ Mishap("host")
  /\ tree' = new
  /\ stray' = stray \cup places
  /\ UNCHANGED <<store, fids, open, unsure>>

\* save-file and create-entry.
HostWrite(p) ==
  /\ p # Root /\ InDir(p)
  /\ tree[p] \in {None, "file", "link"}
  /\ HostChange([tree EXCEPT ![p] = "file"], {p})

HostMkdir(p) ==
  /\ p # Root /\ InDir(p) /\ tree[p] = None
  /\ Below[p] # {}
  /\ HostChange([tree EXCEPT ![p] = "dir"], {p})

\* upload replaces what is there, a directory too.
HostUpload(p) ==
  /\ p # Root /\ InDir(p)
  /\ HostChange([q \in Paths |-> CASE q = p -> "file"
                                   [] q \in Below[p] -> None
                                   [] OTHER -> tree[q]],
                {p} \cup Below[p])

HostRemove(p) ==
  /\ tree[p] # None
  /\ HostChange([q \in Paths |-> IF q \in {p} \cup Below[p] THEN None ELSE tree[q]],
                {p} \cup Below[p])

HostRename(p, q) ==
  /\ p # Root /\ q # Root /\ p # q
  /\ Movable(p, q) /\ Fitting(p, q)
  /\ HostChange(Moved(p, q), {p, q} \cup LeftBehind(p, q))

\* The machine is started again, by the same process or by a new one:
\* loadMetadata reads what was saved.  Descriptors end with their process.
Reload(sameProcess) ==
  LET lost == {p \in Paths : \E f \in Fields : store.saved[f][p] # meta[f][p]} IN
  /\ store' = [meta |-> store.saved, saved |-> store.saved,
               dirty |-> [f \in Fields |-> FALSE]]
  /\ fids' = [f \in Fids |-> NotOpen]
  /\ open' = IF sameProcess THEN open ELSE {}
  /\ unsure' = {}
  /\ stray' = stray \cup lost
  /\ UNCHANGED <<tree, mishaps>>

-----------------------------------------------------------------------------
(* The specification *)

\* extractInitrd writes the metadata of every place but the root.
InitialMeta ==
  LET has(p) == p # Root /\ Unpacked[p] # None IN
  [perms |-> [p \in Paths |-> IF has(p) THEN "set" ELSE None],
   links |-> [p \in Paths |-> IF Unpacked[p] = "hostlink" THEN "set" ELSE None],
   types |-> [p \in Paths |-> IF has(p) THEN TypeName(Unpacked[p]) ELSE None]]

Init ==
  /\ tree = Unpacked
  /\ store = [meta |-> InitialMeta, saved |-> InitialMeta,
              dirty |-> [f \in Fields |-> FALSE]]
  /\ fids = [f \in Fids |-> NotOpen]
  /\ open = {}
  /\ unsure = {}
  /\ stray = {}
  /\ mishaps = [kind \in Mishaps |-> 0]

FidRequest(f) ==
  \/ Attach(f) \/ Walk(f) \/ Open(f) \/ Clunk(f) \/ ClunkFails(f)
  \/ \E p \in Paths : \E target \in Targets(p) :
       RemoveFid(f, p, target) \/ Create(f, p, target)

PlaceRequest ==
  \E p \in Paths :
    \/ Mkdir(p)
    \/ \E q \in Paths : Renameat(p, q)
    \/ \E target \in Targets(p) :
         Setattr(p, target) \/ Symlink(p, target) \/ Unlinkat(p, target)

Host ==
  \/ \E p \in Paths : HostWrite(p) \/ HostMkdir(p) \/ HostUpload(p) \/ HostRemove(p)
  \/ \E p, q \in Paths : HostRename(p, q)

Next ==
  \/ \E f \in Fids : FidRequest(f)
  \/ PlaceRequest
  \/ Host
  \/ \E sameProcess \in BOOLEAN : Reload(sameProcess)

Spec == Init /\ [][Next]_vars

-----------------------------------------------------------------------------
(* Properties *)

\* The states the handler, its files and the directory can be in.
TypeOK ==
  /\ tree \in [Paths -> Kinds]
  /\ store \in [meta : Metadata, saved : Metadata, dirty : [Fields -> BOOLEAN]]
  /\ fids \in [Fids -> Descriptors \cup {NotOpen}]
  /\ open \subseteq Descriptors
  /\ unsure \subseteq Descriptors
  /\ stray \subseteq Paths
  /\ mishaps \in [Mishaps -> 0 .. MaxMishaps]

\* What the guest is shown at a place is what was made there: no name inherits
\* what an earlier holder of it was, and a link keeps its target.
Fits(p) ==
  CASE tree[p] = None   -> \A f \in Fields : meta[f][p] = None
    [] tree[p] = "file" -> ~IsSymlink(p)
    [] tree[p] = "link" -> IsSymlink(p) /\ meta.links[p] # None
    [] OTHER            -> TRUE

\* Metadata follows its file through every request and restart.  Only a failed
\* save, the file manager, and the rename of a directory leave some behind.
MetadataFollows == \A p \in Paths \ stray : Fits(p)

\* A restart loses nothing that is not marked as still to be saved, however
\* saves failed before.
CacheSaved == \A f \in Fields : ~store.dirty[f] => store.saved[f] = meta[f]

\* A fid never uses a descriptor that is closed, or one that is by now another
\* fid's file.  A close that fails leaves such a fid, and the harm it does stays
\* with that number: whoever else opens, loses or clunks a file under it, the
\* fids of all other numbers keep theirs.
DescriptorsHeld ==
  \A f \in Fids : fids[f] \notin unsure \cup {NotOpen} =>
    /\ fids[f] \in open
    /\ \A g \in Fids \ {f} : fids[g] # fids[f]

\* What is known of a file is not given up while the file stays, whatever is
\* refused halfway: a request ends with both or with neither.
MetadataStays ==
  [][mishaps["save"] = 0 =>
       \A p \in Paths, f \in Fields :
         (tree[p] # None /\ tree'[p] # None /\ meta[f][p] # None)
           => store'.meta[f][p] # None]_vars
=============================================================================
