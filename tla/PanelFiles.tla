----------------------------- MODULE PanelFiles -----------------------------
(***************************************************************************)
(* The handlers of src/panel/server.js that keep files for the panel: the  *)
(* upload with its quota, the installation of Debian packages, and the     *)
(* configuration of the limits.                                            *)
(*                                                                         *)
(* One server of one account without limits of its own is looked at, and   *)
(* requests about its files are the owner's, whom the quota binds.  A      *)
(* handler runs from one await to the next as one action, and Req bounds   *)
(* the handlers in flight.  fs.writeFile and fs.writeJson cut the file to  *)
(* nothing before they write it, so a write is two actions.  Storage is    *)
(* counted in units, and getDirSize walks over it while all this goes on.  *)
(***************************************************************************)
EXTENDS Integers, FiniteSets

CONSTANTS
  Req,          \* handlers in flight
  Package,      \* packages of the distribution
  Format,       \* the compression of the data.tar in each package
  Limit,        \* values of maxStorage
  DefaultLimit, \* the one in force without a readable config.json
  Size,         \* sizes of uploaded files
  MaxFiles,     \* bound on what is written past the quota
  MaxExcess,    \* bound on what is written and renamed during a walk
  MaxStarts,    \* bound on the requests that are made
  MaxFaults,    \* bound on failures and restarts
  Torn,         \* the content of a file that JSON.parse refuses
  None

ASSUME PanelFilesAssumption ==
  /\ Limit \subseteq Nat \ {0} /\ DefaultLimit \in Limit /\ Size \subseteq Nat \ {0}
  /\ MaxFiles \in Nat /\ MaxExcess \in Nat /\ MaxStarts \in Nat /\ MaxFaults \in Nat
  /\ IsFiniteSet(Package)
  /\ None \notin Package /\ None \notin Req /\ Torn # None /\ \A S \in SUBSET Package : S # None

Formats == {Format[p] : p \in Package}

VARIABLES
  files,        \* units stored by uploads, the editor and the guest
  unpacked,     \* packages whose data.tar was unpacked into root
  deb,          \* <package>.deb in the server's directory
  pkg_extract,  \* the data.tar of each format in pkg_extract, None without the directory
  packages,     \* installed_packages.json: None, Torn or a set
  limits,       \* config.limits, LIMITS and the limits in config.json
  reqs,         \* the handlers
  walks,        \* what the walk that a handler waits for may find, and may miss
  starts,       \* requests so far
  faults,       \* failures and restarts so far
  history       \* what the properties excuse

disk == <<files, unpacked, deb, pkg_extract, packages>>
vars == <<disk, limits, reqs, walks, starts, faults, history>>

Idle == [kind |-> "idle"]
NoTars == [f \in Formats |-> None]

Stored == files + Cardinality(unpacked)

At(r, kinds, stage) == reqs[r].kind \in kinds /\ reqs[r].stage = stage
Others(r, stages) == {q \in Req \ {r} : reqs[q] # Idle /\ reqs[q].stage \in stages}

Begin(r, rec) == reqs' = [reqs EXCEPT ![r] = rec]
Goto(r, stage) == reqs' = [reqs EXCEPT ![r].stage = stage]
End(r) == reqs' = [reqs EXCEPT ![r] = Idle]

Fault == faults < MaxFaults /\ faults' = faults + 1

-----------------------------------------------------------------------------
(* getDirSize of the account's directory: a walk of many awaits.            *)

\* The temporary files of installations are counted with the others.
Temps == {p \in Package : deb[p] # "none"} \cup (IF pkg_extract = None THEN {} ELSE {"pkg_extract"})

\* Units that stay where they are since the walk began, temporary files that
\* do, and all that it can come across.  Excess is what an upload may take the
\* account over its limit by.
NewWalk == [low |-> Stored, kept |-> Temps, high |-> Stored + Cardinality(Temps), excess |-> 0]
NoWalk == [low |-> 0, kept |-> {}, high |-> 0, excess |-> 0]

Walking(r) == At(r, {"upload", "install"}, "measure")

\* What the walk counts has stayed, and what it does not count has moved.
Results(r) == walks[r].low + Cardinality(walks[r].kept) .. walks[r].high

Less(m, n) == IF n < m THEN m - n ELSE 0

\* The walks, when units are lost where they may find them and units are placed
\* where they may, or not, find them.  An upload that has been measured minds
\* only what is stored.
Disturbed(lost, placed) ==
  [q \in Req |->
     LET w == walks[q] IN
     CASE Walking(q) ->
            [low |-> Less(w.low, lost), kept |-> w.kept \cap Temps',
             high |-> w.high + placed + Cardinality(Temps' \ Temps),
             excess |-> w.excess + placed]
       [] At(q, {"upload"}, "move") -> [w EXCEPT !.excess = @ + Less(Stored', Stored)]
       [] OTHER -> w]

EndWalk(r) == walks' = [walks EXCEPT ![r] = NoWalk]

\* What lstat fails for counts as nothing.
StatFails(r) ==
  /\ Walking(r) /\ Fault
  /\ \E n \in 0 .. walks[r].low, gone \in SUBSET walks[r].kept :
       /\ n > 0 \/ gone # {}
       /\ walks' = [walks EXCEPT ![r].low = @ - n, ![r].kept = @ \ gone, ![r].excess = @ + n]
  /\ UNCHANGED <<disk, limits, reqs, history>>

-----------------------------------------------------------------------------
(* Files.                                                                  *)

\* multer has stored the file outside the account's directory, and the walk
\* over the directory begins.
Upload(r, size) ==
  /\ Begin(r, [kind |-> "upload", stage |-> "measure", size |-> size])
  /\ walks' = [walks EXCEPT ![r] = NewWalk]
  /\ UNCHANGED <<disk, limits, faults, history>>

\* (Mutant: the size of the file itself is not counted.)
FitsWithoutFile(r, measured) == measured <= limits.memory

Fits(r, measured) == measured + reqs[r].size <= limits.memory

\* The quota, with LIMITS as it is after the await.  A file too large is removed.
Measured(r) ==
  /\ At(r, {"upload"}, "measure")
  /\ \E measured \in Results(r) :
       IF Fits(r, measured)
       THEN Goto(r, "move") /\ walks' = [walks EXCEPT ![r] = [NoWalk EXCEPT !.excess = walks[r].excess]]
       ELSE End(r) /\ EndWalk(r)
  /\ UNCHANGED <<disk, limits, faults, history>>

\* fs.move, over a file of some size or none.
Moved(r) ==
  /\ At(r, {"upload"}, "move")
  /\ \E replaced \in {n \in Size \cup {0} : n <= files} :
       /\ files' = files + reqs[r].size - replaced
       /\ UNCHANGED <<unpacked, deb, pkg_extract, packages>>
       /\ walks' = [Disturbed(replaced, reqs[r].size) EXCEPT ![r] = NoWalk]
  /\ End(r)
  /\ UNCHANGED <<limits, faults, history>>

Room(n) == \A r \in Req : walks[r].excess + n <= MaxExcess

\* save-file, create-entry, an administrator and the guest itself write without
\* a quota.
WriteFile ==
  /\ files < MaxFiles /\ Room(1)
  /\ files' = files + 1
  /\ UNCHANGED <<unpacked, deb, pkg_extract, packages>>
  /\ walks' = Disturbed(0, 1)
  /\ UNCHANGED <<limits, reqs, faults, history>>

\* The file manager and the guest remove.
RemoveFile ==
  /\ files > 0
  /\ files' = files - 1
  /\ UNCHANGED <<unpacked, deb, pkg_extract, packages>>
  /\ walks' = Disturbed(1, 0)
  /\ UNCHANGED <<limits, reqs, faults, history>>

\* They rename a file or a directory with all in it, perhaps over another file:
\* a walk finds it where it was, where it is, in both places or in none.  The
\* same goes for a file that is written again.
RenameFile ==
  /\ \E moved \in 1 .. Stored, replaced \in 0 .. files :
       /\ moved + replaced <= Stored /\ Room(moved)
       /\ files' = files - replaced
       /\ UNCHANGED <<unpacked, deb, pkg_extract, packages>>
       /\ walks' = Disturbed(moved + replaced, moved)
  /\ UNCHANGED <<limits, reqs, faults, history>>

-----------------------------------------------------------------------------
(* Packages.                                                               *)

Install(r, p) ==
  /\ Begin(r, [kind |-> "install", stage |-> "measure", package |-> p,
               alone |-> TRUE, tar |-> None, seen |-> {}])
  /\ walks' = [walks EXCEPT ![r] = NewWalk]
  /\ UNCHANGED <<disk, limits, faults, history>>

\* Nearly full is refused: 95 percent of a limit of few units is the limit.
\* Otherwise the download page is fetched, which may fail or show no package.
Fetched(r) ==
  /\ At(r, {"install"}, "measure")
  /\ \E measured \in Results(r) :
       IF measured < limits.memory THEN Goto(r, "page") ELSE End(r)
  /\ EndWalk(r)
  /\ UNCHANGED <<disk, limits, faults, history>>

\* downloadFile creates the file, over what another download has of it.
StartDownload(r) ==
  /\ At(r, {"install"}, "page")
  /\ deb' = [deb EXCEPT ![reqs[r].package] = "part"]
  /\ UNCHANGED <<files, unpacked, pkg_extract, packages>>
  /\ walks' = Disturbed(0, 0)
  /\ Goto(r, "download")
  /\ UNCHANGED <<limits, faults, history>>

\* The end of the download.  The file may be gone by then, with the cleanup of
\* another installation of the package, or still be short of what another
\* download has cut.
Downloaded(r) ==
  LET p == reqs[r].package
      sharing == \E q \in Others(r, {"download", "hung"}) : reqs[q].package = p
  IN /\ At(r, {"install"}, "download")
     /\ \E d \in IF deb[p] = "none" THEN {"none"} ELSE
                 IF sharing THEN {"part", "whole"} ELSE {"whole"} :
          deb' = [deb EXCEPT ![p] = d]
     /\ Goto(r, "mkdir")
     /\ UNCHANGED <<files, unpacked, pkg_extract, packages, limits, walks, faults, history>>

\* An error of the request removes the file and is answered; a response that is
\* cut or never ends leaves the promise open, as nothing listens for it.
DownloadFails(r) ==
  /\ At(r, {"install"}, "download") /\ Fault
  /\ \/ deb' = [deb EXCEPT ![reqs[r].package] = "none"] /\ End(r)
     \/ Goto(r, "hung") /\ UNCHANGED deb
  /\ UNCHANGED <<files, unpacked, pkg_extract, packages>>
  /\ walks' = Disturbed(0, 0)
  /\ UNCHANGED <<limits, history>>

\* The installations between ensureDir of pkg_extract and its removal.
CleansUp == {"ar", "find", "tar", "list", "write", "writing", "clean"}

Extracting(r) == Others(r, CleansUp) \cap {q \in Req : reqs[q].kind = "install"}

\* ensureDir: an existing directory is used as it is.
MakeDir(r) ==
  /\ At(r, {"install"}, "mkdir")
  /\ pkg_extract' = IF pkg_extract = None THEN NoTars ELSE pkg_extract
  /\ LET crowd == Extracting(r) IN
       reqs' = [q \in Req |->
                 IF q = r THEN [reqs[q] EXCEPT !.stage = "ar",
                                               !.alone = crowd = {} /\ ~history.leftover] ELSE
                 IF q \in crowd THEN [reqs[q] EXCEPT !.alone = FALSE] ELSE reqs[q]]
  /\ UNCHANGED <<files, unpacked, deb, packages>>
  /\ walks' = Disturbed(0, 0)
  /\ UNCHANGED <<limits, faults, history>>

\* ar x: it needs the directory and a whole archive.
Ar(r) ==
  LET p == reqs[r].package IN
  /\ At(r, {"install"}, "ar")
  /\ IF pkg_extract # None /\ deb[p] = "whole"
     THEN /\ pkg_extract' = [pkg_extract EXCEPT ![Format[p]] = p]
          /\ Goto(r, "find")
     ELSE Goto(r, "clean") /\ UNCHANGED pkg_extract
  /\ UNCHANGED <<files, unpacked, deb, packages, limits, walks, faults, history>>

\* The first data.tar that readdir lists.  Without one nothing is unpacked.
FindTar(r) ==
  /\ At(r, {"install"}, "find")
  /\ IF pkg_extract = None THEN Goto(r, "clean")
     ELSE LET tars == {f \in Formats : pkg_extract[f] # None} IN
          \/ tars = {} /\ Goto(r, "list")
          \/ \E f \in tars : reqs' = [reqs EXCEPT ![r].stage = "tar", ![r].tar = f]
  /\ UNCHANGED <<disk, limits, walks, faults, history>>

\* tar into root: whatever is in the archive by now, over what it left before.
Tar(r) ==
  LET tar == reqs[r].tar
      found == IF pkg_extract = None THEN None ELSE pkg_extract[tar]
  IN /\ At(r, {"install"}, "tar")
     /\ UNCHANGED <<files, deb, pkg_extract, packages>>
     /\ \/ /\ found # None
           /\ unpacked' = unpacked \cup {found}
           /\ walks' = Disturbed(IF found \in unpacked THEN 1 ELSE 0, 1)
           /\ Goto(r, "list")
        \/ found = None /\ Goto(r, "clean") /\ UNCHANGED <<unpacked, walks>>
     /\ UNCHANGED <<limits, faults, history>>

Uninstall(r, p) ==
  /\ Begin(r, [kind |-> "uninstall", stage |-> "list", package |-> p, seen |-> {}])
  /\ UNCHANGED <<disk, limits, walks, faults, history>>

\* The handler has no more to write: an installation cleans up, a removal ends.
Leave(r) == IF reqs[r].kind = "install" THEN Goto(r, "clean") ELSE End(r)

\* Handlers that have read the list and have not written it.
Listing(r) == Others(r, {"write", "writing"}) \cap {q \in Req : reqs[q].kind # "config"}

Listed == IF packages = None THEN {} ELSE packages

\* (Mutant: a list that cannot be read is an empty one.)
UnreadableAsEmpty(r) ==
  /\ reqs' = [reqs EXCEPT ![r].stage = "write", ![r].seen = {}]
  /\ UNCHANGED history

\* readJson throws.
Unreadable(r) == Leave(r) /\ UNCHANGED history

\* pathExists and readJson.  A package that is listed is not listed again, and
\* a removal without a list writes none.
ReadList(r) ==
  LET p == reqs[r].package
      install == reqs[r].kind = "install"
      done == IF install THEN p \in Listed ELSE packages = None
  IN /\ At(r, {"install", "uninstall"}, "list")
     /\ \/ packages = Torn /\ Unreadable(r)
        \/ packages # Torn /\ done /\ Leave(r)
           /\ history' = IF install THEN [history EXCEPT !.confirmed = @ \cup {p}]
                         ELSE history
        \/ /\ packages # Torn /\ ~done
           /\ reqs' = [reqs EXCEPT ![r].stage = "write", ![r].seen = Listed]
           /\ history' = [history EXCEPT !.crossed = @ \/ Listing(r) # {}]
     /\ UNCHANGED <<disk, limits, walks, faults>>

\* writeJson: the file is cut, and then written.
CutList(r) ==
  /\ At(r, {"install", "uninstall"}, "write")
  /\ packages' = Torn
  /\ Goto(r, "writing")
  /\ UNCHANGED <<files, unpacked, deb, pkg_extract, limits, walks, faults, history>>

\* Where another handler has written since the cut, or will, the file may hold
\* a mixture of both.  Where the file is written but cannot be closed, the answer
\* is 500.
WriteList(r) ==
  LET p == reqs[r].package
      install == reqs[r].kind = "install"
      value == IF install THEN reqs[r].seen \cup {p} ELSE reqs[r].seen \ {p}
      alone == packages = Torn /\ \A q \in Listing(r) : reqs[q].stage # "writing"
  IN /\ At(r, {"install", "uninstall"}, "writing")
     /\ \E v \in IF alone THEN {value} ELSE {value, Torn} : packages' = v
     /\ Leave(r)
     /\ \E closed \in BOOLEAN :
          /\ IF closed THEN UNCHANGED faults ELSE Fault
          /\ history' = [history EXCEPT
               !.confirmed = IF ~install THEN @ \ {p} ELSE IF closed THEN @ \cup {p} ELSE @,
               !.doubtful = IF ~install THEN @ ELSE IF reqs[r].alone THEN @ \ {p} ELSE @ \cup {p}]
     /\ UNCHANGED <<files, unpacked, deb, pkg_extract, limits, walks>>

\* (Mutant: the directory is left for the next installation.)
RemoveDirNot(r) ==
  /\ At(r, {"install"}, "clean")
  /\ Goto(r, "unlink")
  /\ UNCHANGED <<disk, limits, walks, faults, history>>

\* The finally of the installation, whoever uses the directory.
RemoveDir(r) ==
  /\ At(r, {"install"}, "clean")
  /\ pkg_extract' = None
  /\ UNCHANGED <<files, unpacked, deb, packages>>
  /\ walks' = Disturbed(0, 0)
  /\ Goto(r, "unlink")
  /\ history' = [history EXCEPT !.leftover = FALSE]
  /\ UNCHANGED <<limits, faults>>

RemoveDeb(r) ==
  /\ At(r, {"install"}, "unlink")
  /\ deb' = [deb EXCEPT ![reqs[r].package] = "none"]
  /\ UNCHANGED <<files, unpacked, pkg_extract, packages>>
  /\ walks' = Disturbed(0, 0)
  /\ End(r)
  /\ UNCHANGED <<limits, faults, history>>

-----------------------------------------------------------------------------
(* Configuration.                                                          *)

Updating(r) == {q \in Req \ {r} : reqs[q].kind = "config"}

\* config.limits is changed at once, or kept when the body has no limits.
UpdateConfig(r, limit) ==
  /\ reqs' = [q \in Req |->
       IF q = r THEN [kind |-> "config", stage |-> "read", limit |-> None,
                      alone |-> Updating(r) = {}] ELSE
       IF q \in Updating(r) THEN [reqs[q] EXCEPT !.alone = FALSE] ELSE reqs[q]]
  /\ limits' = [limits EXCEPT !.config = IF limit = None THEN @ ELSE limit]
  /\ history' = [history EXCEPT !.updates = @ \/ Updating(r) # {}]
  /\ UNCHANGED <<disk, walks, faults>>

\* (Mutant: LIMITS is changed before the file is.)
ReadConfigAssigning(r) ==
  /\ At(r, {"config"}, "read")
  /\ limits' = [limits EXCEPT !.memory = limits.config]
  /\ IF limits.saved = Torn THEN End(r)
     ELSE reqs' = [reqs EXCEPT ![r].stage = "write", ![r].limit = limits.config]
  /\ UNCHANGED <<disk, walks, faults, history>>

\* The file is read and parsed, and gets config.limits as it is by now.
ReadConfig(r) ==
  /\ At(r, {"config"}, "read")
  /\ IF limits.saved = Torn THEN End(r)
     ELSE reqs' = [reqs EXCEPT ![r].stage = "write", ![r].limit = limits.config]
  /\ UNCHANGED <<disk, limits, walks, faults, history>>

CutConfig(r) ==
  /\ At(r, {"config"}, "write")
  /\ limits' = [limits EXCEPT !.saved = Torn]
  /\ Goto(r, "writing")
  /\ UNCHANGED <<disk, walks, faults, history>>

\* The file is written, mixed with another's or not, and the handler waits for
\* its close.
WriteConfig(r) ==
  LET alone == limits.saved = Torn /\ \A q \in Updating(r) : reqs[q].stage # "writing"
  IN /\ At(r, {"config"}, "writing")
     /\ \E v \in IF alone THEN {reqs[r].limit} ELSE {reqs[r].limit, Torn} :
          limits' = [limits EXCEPT !.saved = v]
     /\ Goto(r, "assign")
     /\ UNCHANGED <<disk, walks, faults, history>>

\* Behind the await LIMITS becomes config.limits.  An upload that has its place
\* by then may be over the new limit.
AssignLimits(r) ==
  /\ At(r, {"config"}, "assign")
  /\ limits' = [limits EXCEPT !.memory = limits.config]
  /\ walks' = [q \in Req |->
       IF At(q, {"upload"}, "move")
       THEN [walks[q] EXCEPT !.excess = @ + Less(limits.memory, limits.config)] ELSE walks[q]]
  /\ End(r)
  /\ history' = [history EXCEPT !.updates = @ /\ ~reqs[r].alone]
  /\ UNCHANGED <<disk, faults>>

-----------------------------------------------------------------------------
\* An operation that a handler awaits fails.  Behind ensureDir an installation
\* cleans up, and where that fails the directory stays; everything else ends
\* with the answer 500.  An update whose file is written but not closed has
\* saved what LIMITS does not become.
Fails(r) ==
  /\ Fault /\ reqs[r] # Idle
  /\ reqs[r].stage \notin {"download", "hung"}
  /\ IF reqs[r].kind = "install" /\ reqs[r].stage \in CleansUp \ {"clean"}
     THEN Goto(r, "clean") ELSE End(r)
  /\ EndWalk(r)
  /\ history' = [history EXCEPT !.leftover = @ \/ reqs[r].stage = "clean",
                                !.updates = @ \/ reqs[r].stage = "assign"]
  /\ UNCHANGED <<disk, limits>>

\* The process ends and starts again: handlers are gone, the files stay as they
\* are, and the limits are those of config.json or the defaults.
Restart ==
  LET limit == IF limits.saved = Torn THEN DefaultLimit ELSE limits.saved
  IN /\ Fault
     /\ reqs' = [r \in Req |-> Idle]
     /\ walks' = [r \in Req |-> NoWalk]
     /\ limits' = [limits EXCEPT !.config = limit, !.memory = limit]
     /\ history' = [history EXCEPT !.leftover = pkg_extract # None, !.updates = FALSE]
     /\ UNCHANGED disk

Init ==
  /\ files = 0 /\ unpacked = {}
  /\ deb = [p \in Package |-> "none"]
  /\ pkg_extract = None /\ packages = None
  /\ limits \in {[config |-> l, memory |-> l, saved |-> l] : l \in Limit}
  /\ reqs = [r \in Req |-> Idle]
  /\ walks = [r \in Req |-> NoWalk]
  /\ starts = 0 /\ faults = 0
  /\ history = [leftover |-> FALSE, doubtful |-> {}, confirmed |-> {},
                crossed |-> FALSE, updates |-> FALSE]

Start(r) ==
  /\ reqs[r] = Idle
  /\ starts < MaxStarts /\ starts' = starts + 1
  /\ \/ \E size \in Size : Upload(r, size)
     \/ \E p \in Package : Install(r, p) \/ Uninstall(r, p)
     \/ \E limit \in Limit \cup {None} : UpdateConfig(r, limit)

Proceed(r) ==
  \/ StatFails(r) \/ Measured(r) \/ Moved(r)
  \/ Fetched(r) \/ StartDownload(r) \/ Downloaded(r) \/ DownloadFails(r)
  \/ MakeDir(r) \/ Ar(r) \/ FindTar(r) \/ Tar(r)
  \/ ReadList(r) \/ CutList(r) \/ WriteList(r)
  \/ RemoveDir(r) \/ RemoveDeb(r)
  \/ ReadConfig(r) \/ CutConfig(r) \/ WriteConfig(r) \/ AssignLimits(r)
  \/ Fails(r)

Next ==
  \/ \E r \in Req : Start(r)
  \/ (\E r \in Req : Proceed(r)) /\ UNCHANGED starts
  \/ (WriteFile \/ RemoveFile \/ RenameFile \/ Restart) /\ UNCHANGED starts

Spec == Init /\ [][Next]_vars

-----------------------------------------------------------------------------
(* Properties.                                                             *)

\* An upload takes the account over its limit by no more than what its walk may
\* have missed, what was stored, renamed or out of lstat's sight while it was
\* under way, and what was stored or the limit lowered by after it.  Whatever
\* else is removed, installed, replaced or refused meanwhile lets nothing through.
QuotaKept ==
  [][\A r \in Req :
       (Moved(r) /\ Stored' > Stored) => Stored' <= limits.memory + walks[r].excess]_vars

\* A package that is listed was unpacked into the server, unless its installation
\* shared pkg_extract with another or found what a restart had left there:
\* failures at any step, and installations of any others before, list nothing
\* that is not there.
ListedIsUnpacked ==
  packages \notin {None, Torn} => packages \ history.doubtful \subseteq unpacked

\* The list forgets no installation that was answered, until two handlers have
\* read it before either wrote.  A list that a failure has cut is given up and
\* never taken for an empty one.
InstalledStaysListed ==
  (packages # Torn /\ ~history.crossed) => history.confirmed \subseteq Listed

\* The limits in force are those that a restart will find, after failures and
\* restarts at any step of an update, unless two updates were in flight at once,
\* the file was cut, or was written by a handler that has not assigned LIMITS yet
\* or failed to.  (What GET config answers may differ: config.limits is changed
\* first.)
LimitsSaved ==
  (~history.updates /\ limits.saved # Torn /\ \A r \in Req : ~At(r, {"config"}, "assign"))
    => limits.memory = limits.saved
=============================================================================
