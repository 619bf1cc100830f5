-------------------------- MODULE PanelFilesProofs --------------------------
(***************************************************************************)
(* Proofs about PanelFiles: the quota of uploads, the limits in config.json*)
(* and the list of packages, whatever the handlers in flight do.  The      *)
(* invariant has a part for each; an action touches one or two, and the    *)
(* Keep lemmas carry the others over it.                                   *)
(***************************************************************************)
EXTENDS PanelFiles, FiniteSetTheorems, TLAPS

-----------------------------------------------------------------------------
(* The handlers and their types.                                           *)

ListStages == {"list", "write", "writing"}
InstallStages ==
  {"measure", "page", "download", "hung", "mkdir", "unlink"} \cup CleansUp

UploadT == [kind : {"upload"}, stage : {"measure", "move"}, size : Size]
InstallT ==
  {k \in [kind : {"install"}, stage : InstallStages, package : Package,
          alone : BOOLEAN, tar : Formats \cup {None}, seen : SUBSET Package] :
     k.stage = "tar" => k.tar \in Formats}
UninstallT == [kind : {"uninstall"}, stage : ListStages, package : Package,
               seen : SUBSET Package]
ConfigT ==
  {k \in [kind : {"config"}, stage : {"read", "write", "writing", "assign"},
          limit : Limit \cup {None}, alone : BOOLEAN] :
     k.stage # "read" => k.limit \in Limit}

Handler == UploadT \cup InstallT \cup UninstallT \cup ConfigT \cup {Idle}

TypeInv ==
  /\ files \in Nat
  /\ unpacked \in SUBSET Package
  /\ deb \in [Package -> {"none", "part", "whole"}]
  /\ pkg_extract \in [Formats -> Package \cup {None}] \cup {None}
  /\ packages \in (SUBSET Package) \cup {None, Torn}
  /\ limits \in [config : Limit, memory : Limit, saved : Limit \cup {Torn}]
  /\ reqs \in [Req -> Handler]
  /\ starts \in Nat /\ faults \in Nat
  /\ history \in [leftover : BOOLEAN, doubtful : SUBSET Package,
                  confirmed : SUBSET Package, crossed : BOOLEAN, updates : BOOLEAN]

Walk == [low : Nat, kept : SUBSET (Package \cup {"pkg_extract"}), high : Nat, excess : Nat]

\* What is stored and the walk does not count is in the excess of the upload, and
\* an upload that was let through has room but for its excess.
QuotaInv ==
  /\ walks \in [Req -> Walk]
  /\ \A r \in Req : reqs[r].kind = "upload" =>
       /\ reqs[r].stage = "measure" => Stored <= walks[r].low + walks[r].excess
       /\ reqs[r].stage = "move" => Stored + reqs[r].size <= limits.memory + walks[r].excess

Configs == {r \in Req : reqs[r].kind = "config"}

\* An update that no other has met writes what config.limits is.
ConfigInv ==
  /\ \A r \in Configs :
       /\ reqs[r].alone => Configs = {r}
       /\ ~reqs[r].alone => history.updates
       /\ reqs[r].alone /\ reqs[r].stage \in {"write", "writing", "assign"}
            => reqs[r].limit = limits.config
       /\ reqs[r].alone /\ reqs[r].stage = "assign" => limits.saved \in {reqs[r].limit, Torn}
  /\ LimitsSaved

Writers ==
  {r \in Req : reqs[r].kind \in {"install", "uninstall"} /\ reqs[r].stage \in {"write", "writing"}}

\* Unless two have read the list before either wrote, the one that has knows
\* what is in it, and what was in it when it is cut.
ListInv ==
  /\ ~history.crossed => \A r \in Writers :
       /\ Writers = {r}
       /\ reqs[r].stage = "write" => packages # Torn /\ reqs[r].seen = Listed
       /\ reqs[r].stage = "writing" => packages = Torn /\ history.confirmed \subseteq reqs[r].seen
  /\ InstalledStaysListed

Installs == {r \in Req : reqs[r].kind = "install" /\ reqs[r].stage \in CleansUp}

TarOf(p) == [NoTars EXCEPT ![Format[p]] = p]

\* An installation that shares pkg_extract with no other finds its own archive.
ExtractInv ==
  /\ pkg_extract # None => history.leftover \/ Installs # {}
  /\ \A r \in Installs : reqs[r].alone =>
       /\ Installs = {r}
       /\ reqs[r].stage = "ar" => pkg_extract = NoTars
       /\ reqs[r].stage \in {"find", "tar"} => pkg_extract = TarOf(reqs[r].package)
       /\ reqs[r].stage = "tar" => reqs[r].tar = Format[reqs[r].package]
       /\ reqs[r].stage \in {"list", "write", "writing"} => reqs[r].package \in unpacked

\* What a handler has read from the list is unpacked, or of doubtful origin.
SeenInv ==
  /\ \A r \in Writers : reqs[r].seen \ history.doubtful \subseteq unpacked
  /\ ListedIsUnpacked

IInv == TypeInv /\ QuotaInv /\ ConfigInv /\ ListInv /\ ExtractInv /\ SeenInv

-----------------------------------------------------------------------------
(* Sizes and handlers.                                                     *)

LEMMA PackagesNat ==
  ASSUME NEW S \in SUBSET Package
  PROVE  Cardinality(S) \in Nat
BY FS_Subset, FS_CardinalityType, PanelFilesAssumption

LEMMA StoredNat ==
  /\ TypeInv => Stored \in Nat
  /\ TypeInv' => Stored' \in Nat
<1>1. ASSUME TypeInv PROVE Stored \in Nat
  <2>1. Cardinality(unpacked) \in Nat /\ files \in Nat
    BY <1>1, PackagesNat DEF TypeInv
  <2> QED
    BY <2>1 DEF Stored
<1>2. ASSUME TypeInv' PROVE Stored' \in Nat
  <2>1. Cardinality(unpacked') \in Nat /\ files' \in Nat
    BY <1>2, PackagesNat DEF TypeInv
  <2> QED
    BY <2>1 DEF Stored
<1> QED
  BY <1>1, <1>2

TempNames == Package \cup {"pkg_extract"}

LEMMA TempsNat ==
  ASSUME NEW S \in SUBSET TempNames
  PROVE  Cardinality(S) \in Nat
<1>1. IsFiniteSet(TempNames)
  BY FS_AddElement, PanelFilesAssumption DEF TempNames
<1> QED
  BY <1>1, FS_Subset, FS_CardinalityType

LEMMA TempsType == Temps \subseteq TempNames /\ Temps' \subseteq TempNames
BY DEF Temps, TempNames

LEMMA LessNat ==
  ASSUME NEW m \in Nat, NEW n \in Nat
  PROVE  Less(m, n) \in Nat /\ m - n <= Less(m, n)
BY DEF Less

LEMMA LeftOver ==
  ASSUME NEW before \in Nat, NEW after \in Nat, NEW lost \in Nat, NEW placed \in Nat,
         NEW low \in Nat, NEW left \in Nat, NEW excess \in Nat,
         after + lost <= before + placed, before <= low + excess, low - lost <= left
  PROVE  after <= left + (excess + placed)
OBVIOUS

LEMMA RisenBy ==
  ASSUME NEW before \in Nat, NEW after \in Nat, NEW rise \in Nat, NEW size \in Nat,
         NEW limit \in Nat, NEW excess \in Nat,
         after - before <= rise, before + size <= limit + excess
  PROVE  after + size <= limit + (excess + rise)
OBVIOUS

LEMMA AddedToBoth ==
  ASSUME NEW before \in Nat, NEW after \in Nat, NEW lost \in Nat, NEW placed \in Nat,
         NEW more \in Nat, after + lost <= before + placed
  PROVE  (after + more) + lost <= (before + more) + placed
OBVIOUS

LEMMA NoWalkType == NoWalk \in Walk
BY DEF NoWalk, Walk

\* A handler is of the type that its kind names.
LEMMA KindType ==
  ASSUME NEW k \in Handler
  PROVE  /\ k.kind = "upload" => k \in UploadT
         /\ k.kind = "install" => k \in InstallT
         /\ k.kind = "uninstall" => k \in UninstallT
         /\ k.kind = "config" => k \in ConfigT
         /\ k \in InstallT => k.kind = "install"
         /\ k \in UninstallT => k.kind = "uninstall"
         /\ k \in ConfigT => k.kind = "config"
         /\ k \in UploadT => k.kind = "upload"
         /\ Idle.kind = "idle" /\ Idle \in Handler
BY DEF Handler, UploadT, InstallT, UninstallT, ConfigT, Idle

LEMMA UploadAt ==
  ASSUME NEW k \in UploadT, NEW s \in {"measure", "move"}
  PROVE  /\ [k EXCEPT !.stage = s] \in UploadT
         /\ [k EXCEPT !.stage = s].stage = s
         /\ [k EXCEPT !.stage = s].size = k.size
BY DEF UploadT

LEMMA InstallAt ==
  ASSUME NEW k \in InstallT, NEW s \in InstallStages \ {"tar"}
  PROVE  /\ [k EXCEPT !.stage = s] \in InstallT
         /\ [k EXCEPT !.stage = s].stage = s
         /\ [k EXCEPT !.stage = s].package = k.package /\ [k EXCEPT !.stage = s].alone = k.alone
         /\ [k EXCEPT !.stage = s].tar = k.tar /\ [k EXCEPT !.stage = s].seen = k.seen
BY DEF InstallT

LEMMA UninstallAt ==
  ASSUME NEW k \in UninstallT, NEW s \in ListStages
  PROVE  /\ [k EXCEPT !.stage = s] \in UninstallT
         /\ [k EXCEPT !.stage = s].stage = s
         /\ [k EXCEPT !.stage = s].package = k.package
         /\ [k EXCEPT !.stage = s].seen = k.seen
BY DEF UninstallT

LEMMA ConfigAt ==
  ASSUME NEW k \in ConfigT, k.stage # "read", NEW s \in {"write", "writing", "assign"}
  PROVE  /\ [k EXCEPT !.stage = s] \in ConfigT
         /\ [k EXCEPT !.stage = s].stage = s
         /\ [k EXCEPT !.stage = s].limit = k.limit /\ [k EXCEPT !.stage = s].alone = k.alone
BY DEF ConfigT

\* What Goto, End and Begin do to the handlers.
LEMMA Steps ==
  ASSUME reqs \in [Req -> Handler], NEW r \in Req
  PROVE  /\ \A s : Goto(r, s) =>
              /\ reqs' = [reqs EXCEPT ![r] = [reqs[r] EXCEPT !.stage = s]]
              /\ reqs'[r] = [reqs[r] EXCEPT !.stage = s]
              /\ \A q \in Req : q # r => reqs'[q] = reqs[q]
         /\ End(r) =>
              /\ reqs' \in [Req -> Handler] /\ reqs'[r] = Idle
              /\ \A q \in Req : q # r => reqs'[q] = reqs[q]
         /\ \A k : Begin(r, k) =>
              /\ reqs' = [reqs EXCEPT ![r] = k] /\ reqs'[r] = k
              /\ \A q \in Req : q # r => reqs'[q] = reqs[q]
BY DEF Goto, End, Begin, Handler

-----------------------------------------------------------------------------
(* What carries each part of the invariant over a step that is not about it*)

LEMMA KeepQuota ==
  ASSUME TypeInv, TypeInv', QuotaInv, walks' \in [Req -> Walk], Stored' = Stored,
         limits'.memory = limits.memory,
         \A q \in Req : reqs'[q].kind = "upload" => reqs'[q] = reqs[q] /\ walks'[q] = walks[q]
  PROVE  QuotaInv'
<1> SUFFICES ASSUME NEW q \in Req, reqs'[q].kind = "upload"
             PROVE  /\ reqs'[q].stage = "measure" => Stored' <= walks'[q].low + walks'[q].excess
                    /\ reqs'[q].stage = "move"
                         => Stored' + reqs'[q].size <= limits'.memory + walks'[q].excess
  BY DEF QuotaInv
<1> QED
  BY DEF QuotaInv

\* The walks, when no more is placed than the walks are told, and what is lost is.
LEMMA DisturbedQuota ==
  ASSUME TypeInv, TypeInv', QuotaInv, NEW lost \in Nat, NEW placed \in Nat,
         Stored' + lost <= Stored + placed, limits' = limits
  PROVE  /\ Disturbed(lost, placed) \in [Req -> Walk]
         /\ \A q \in Req : reqs[q].kind = "upload" =>
              /\ reqs[q].stage = "measure" =>
                   Stored' <= Disturbed(lost, placed)[q].low + Disturbed(lost, placed)[q].excess
              /\ reqs[q].stage = "move" =>
                   Stored' + reqs[q].size <= limits.memory + Disturbed(lost, placed)[q].excess
<1> SUFFICES ASSUME NEW q \in Req
             PROVE  LET d == Disturbed(lost, placed)[q] IN
                    /\ d \in Walk
                    /\ reqs[q].kind = "upload" /\ reqs[q].stage = "measure"
                         => Stored' <= d.low + d.excess
                    /\ reqs[q].kind = "upload" /\ reqs[q].stage = "move"
                         => Stored' + reqs[q].size <= limits.memory + d.excess
  BY DEF Disturbed
<1> DEFINE d == Disturbed(lost, placed)[q]
           w == walks[q]
           new == Cardinality(Temps' \ Temps)
           rise == Less(Stored', Stored)
           left == Less(w.low, lost)
           more == w.high + placed + new
           over == w.excess + placed
<1>1. w \in Walk /\ Stored \in Nat /\ Stored' \in Nat
  BY StoredNat DEF QuotaInv
<1>2. w.low \in Nat /\ w.high \in Nat /\ w.excess \in Nat /\ w.kept \in SUBSET TempNames
  BY <1>1 DEF Walk, TempNames
<1>3. new \in Nat
  <2>1. (Temps' \ Temps) \in SUBSET TempNames
    BY TempsType
  <2> QED
    BY <2>1, TempsNat
<1>4. rise \in Nat /\ Stored' - Stored <= rise /\ left \in Nat /\ w.low - lost <= left
  BY <1>1, <1>2, LessNat
<1>5. more \in Nat /\ over \in Nat /\ w.excess + rise \in Nat
  BY <1>2, <1>3, <1>4
<1>6. /\ Walking(q) =>
           d = [low |-> left, kept |-> w.kept \cap Temps', high |-> more, excess |-> over]
      /\ ~Walking(q) /\ At(q, {"upload"}, "move") => d = [w EXCEPT !.excess = @ + rise]
      /\ ~Walking(q) /\ ~At(q, {"upload"}, "move") => d = w
  BY DEF Disturbed, Walking, At
<1> HIDE DEF d, new, rise, left, more, over
<1>7. CASE Walking(q)
  <2>1. d = [low |-> left, kept |-> w.kept \cap Temps', high |-> more, excess |-> over]
    BY <1>6, <1>7
  <2>2. d \in Walk /\ d.low = left /\ d.excess = over
    BY <1>2, <1>4, <1>5, <2>1 DEF Walk, TempNames
  <2>3. reqs[q].stage = "measure"
    BY <1>7 DEF Walking, At
  <2>4. reqs[q].kind = "upload" => Stored <= w.low + w.excess
    BY <2>3 DEF QuotaInv
  <2>5. reqs[q].kind = "upload" => Stored' <= left + over
    BY <1>1, <1>2, <1>4, <2>4, LeftOver DEF over
  <2> QED
    BY <2>2, <2>3, <2>5 DEF d
<1>8. CASE ~Walking(q) /\ At(q, {"upload"}, "move")
  <2>1. d = [w EXCEPT !.excess = @ + rise]
    BY <1>6, <1>8
  <2>2. d \in Walk /\ d.excess = w.excess + rise
    BY <1>1, <1>5, <2>1 DEF Walk
  <2>3. /\ reqs[q].stage = "move" /\ reqs[q].kind = "upload"
        /\ Stored + reqs[q].size <= limits.memory + w.excess
    BY <1>8 DEF At, QuotaInv
  <2>4. reqs[q].size \in Nat /\ limits.memory \in Nat
    <3>1. reqs[q] \in UploadT /\ limits.memory \in Limit
      BY <2>3, KindType DEF TypeInv
    <3> QED
      BY <3>1, PanelFilesAssumption DEF UploadT
  <2>5. Stored' + reqs[q].size <= limits.memory + (w.excess + rise)
    BY <1>1, <1>2, <1>4, <2>3, <2>4, RisenBy
  <2> QED
    BY <2>2, <2>3, <2>5 DEF d
<1>9. CASE ~Walking(q) /\ ~At(q, {"upload"}, "move")
  <2>1. d = w
    BY <1>6, <1>9
  <2>2. ~(reqs[q].kind = "upload" /\ reqs[q].stage \in {"measure", "move"})
    BY <1>9 DEF Walking, At
  <2> QED
    BY <1>1, <2>1, <2>2 DEF d
<1> QED
  BY <1>7, <1>8, <1>9

\* The same as the next step of the quota's part of the invariant.
LEMMA DisturbedKeeps ==
  ASSUME TypeInv, TypeInv', QuotaInv, NEW lost \in Nat, NEW placed \in Nat,
         Stored' + lost <= Stored + placed, limits' = limits,
         walks' = Disturbed(lost, placed),
         \A q \in Req : reqs'[q].kind = "upload" => reqs'[q] = reqs[q]
  PROVE  QuotaInv'
BY DisturbedQuota DEF QuotaInv

LEMMA KeepConfig ==
  ASSUME ConfigInv, limits' = limits, history'.updates = history.updates,
         \A q \in Req : reqs'[q].kind = "config" => reqs'[q] = reqs[q],
         \A q \in Req : At(q, {"config"}, "assign") => reqs'[q] = reqs[q]
  PROVE  ConfigInv'
<1>1. LimitsSaved'
  BY DEF ConfigInv, LimitsSaved, At
<1>2. Configs' \subseteq Configs
  BY DEF Configs
<1>3. \A r \in Configs' : reqs'[r] = reqs[r]
  BY DEF Configs
<1> QED
  BY <1>1, <1>2, <1>3 DEF ConfigInv

LEMMA KeepList ==
  ASSUME ListInv, packages' = packages, history'.crossed = history.crossed,
         history'.confirmed = history.confirmed,
         \A q \in Writers' : q \in Writers /\ reqs'[q].stage = reqs[q].stage
                                        /\ reqs'[q].seen = reqs[q].seen
  PROVE  ListInv'
<1>1. InstalledStaysListed' /\ Listed' = Listed
  BY DEF ListInv, InstalledStaysListed, Listed
<1>2. Writers' \subseteq Writers
  OBVIOUS
<1> QED
  BY <1>1, <1>2 DEF ListInv

LEMMA KeepExtract ==
  ASSUME ExtractInv, pkg_extract' = pkg_extract, unpacked \subseteq unpacked',
         history'.leftover = history.leftover, Installs \subseteq Installs',
         \A q \in Installs' : q \in Installs /\
           (reqs'[q].alone => /\ reqs[q].alone /\ reqs'[q].stage = reqs[q].stage
                             /\ reqs'[q].package = reqs[q].package
                             /\ reqs'[q].tar = reqs[q].tar)
  PROVE  ExtractInv'
<1>1. Installs' = Installs
  OBVIOUS
<1>2. pkg_extract' # None => history'.leftover \/ Installs' # {}
  BY <1>1 DEF ExtractInv
<1> QED
  BY <1>1, <1>2 DEF ExtractInv

LEMMA KeepSeen ==
  ASSUME SeenInv, packages' = packages, unpacked \subseteq unpacked',
         history'.doubtful = history.doubtful,
         \A q \in Writers' : q \in Writers /\ reqs'[q].seen = reqs[q].seen
  PROVE  SeenInv'
BY DEF SeenInv, ListedIsUnpacked

\* A handler at a stage that only the quota is about.
Aside(k) ==
  /\ k.kind # "config"
  /\ ~(k.kind = "install" /\ k.stage \in CleansUp)
  /\ ~(k.kind = "uninstall" /\ k.stage \in {"write", "writing"})

LEMMA HandlerEnds ==
  ASSUME TypeInv, NEW r \in Req, End(r)
  PROVE  /\ reqs' \in [Req -> Handler] /\ reqs'[r] = Idle /\ Aside(Idle)
         /\ Idle.kind = "idle"
         /\ \A q \in Req : q # r => reqs'[q] = reqs[q]
<1>1. Aside(Idle) /\ Idle.kind = "idle"
  BY DEF Aside, Idle
<1> QED
  BY <1>1, Steps DEF TypeInv

LEMMA AsideStep ==
  ASSUME IInv,
         \A q \in Req : \/ reqs'[q] = reqs[q]
                        \/ Aside(reqs'[q]) /\ q \notin Installs /\ reqs[q].kind # "config",
         UNCHANGED <<unpacked, pkg_extract, packages, limits, history>>
  PROVE  ConfigInv' /\ ListInv' /\ ExtractInv' /\ SeenInv'
<1>1. Writers' \subseteq Writers /\ \A q \in Writers' : reqs'[q] = reqs[q]
  BY DEF Writers, Aside, CleansUp
<1>2. Installs' = Installs /\ \A q \in Installs' : reqs'[q] = reqs[q]
  BY DEF Installs, Aside
<1>3. ConfigInv'
  BY KeepConfig DEF IInv, Aside, At
<1>4. ListInv'
  BY <1>1, KeepList DEF IInv
<1>5. ExtractInv'
  BY <1>2, KeepExtract DEF IInv
<1>6. SeenInv'
  BY <1>1, KeepSeen DEF IInv
<1> QED
  BY <1>3, <1>4, <1>5, <1>6

\* A step of one handler, which ends at a stage that nothing is about.
LEMMA PlainStep ==
  ASSUME IInv, TypeInv', NEW r \in Req, Aside(reqs'[r]), r \notin Installs,
         reqs[r].kind # "config", reqs'[r].kind # "upload",
         \A q \in Req : q # r => reqs'[q] = reqs[q],
         UNCHANGED <<files, unpacked, pkg_extract, packages, limits, history>>,
         \/ walks' \in [Req -> Walk] /\ \A q \in Req : q # r => walks'[q] = walks[q]
         \/ walks' = Disturbed(0, 0)
  PROVE  IInv'
<1>1. Stored' = Stored /\ Stored \in Nat
  BY StoredNat DEF IInv, Stored
<1>2. CASE walks' \in [Req -> Walk] /\ \A q \in Req : q # r => walks'[q] = walks[q]
  <2>1. QuotaInv'
    BY <1>1, <1>2, KeepQuota DEF IInv
  <2> QED
    BY <2>1, AsideStep DEF IInv
<1>3. CASE walks' = Disturbed(0, 0)
  <2>1. Stored' + 0 <= Stored + 0
    BY <1>1
  <2>2. QuotaInv'
    BY <1>3, <2>1, DisturbedKeeps DEF IInv
  <2> QED
    BY <2>2, AsideStep DEF IInv
<1> QED
  BY <1>2, <1>3

\* The end of a walk leaves the others.
LEMMA WalkEnds ==
  ASSUME IInv, NEW r \in Req, EndWalk(r)
  PROVE  walks' \in [Req -> Walk] /\ \A q \in Req : q # r => walks'[q] = walks[q]
BY NoWalkType DEF IInv, QuotaInv, EndWalk

\* So does its beginning, which finds all that is stored.
LEMMA WalkBegins ==
  ASSUME IInv, NEW r \in Req, walks' = [walks EXCEPT ![r] = NewWalk]
  PROVE  /\ walks' \in [Req -> Walk] /\ \A q \in Req : q # r => walks'[q] = walks[q]
         /\ walks'[r].low = Stored /\ walks'[r].excess = 0
<1>1. Stored \in Nat /\ Temps \in SUBSET TempNames
  BY StoredNat, TempsType DEF IInv
<1>2. Cardinality(Temps) \in Nat
  BY <1>1, TempsNat
<1>3. NewWalk \in Walk /\ NewWalk.low = Stored /\ NewWalk.excess = 0
  BY <1>1, <1>2 DEF NewWalk, Walk, TempNames
<1> QED
  BY <1>3 DEF IInv, QuotaInv

-----------------------------------------------------------------------------
(* Files.                                                                  *)

LEMMA StatFailsInv ==
  ASSUME IInv, NEW r \in Req, starts' \in Nat, StatFails(r)
  PROVE  IInv'
<1>1. PICK n \in 0 .. walks[r].low, gone \in SUBSET walks[r].kept :
        walks' = [walks EXCEPT ![r].low = @ - n, ![r].kept = @ \ gone, ![r].excess = @ + n]
  BY DEF StatFails
<1>2. /\ TypeInv /\ faults' \in Nat /\ At(r, {"upload", "install"}, "measure")
      /\ UNCHANGED <<files, unpacked, deb, pkg_extract, packages, limits, reqs, history>>
  BY DEF StatFails, Walking, Fault, IInv, TypeInv, disk
<1>3. TypeInv'
  BY <1>2 DEF TypeInv
<1> DEFINE w == walks[r]
           v == [w EXCEPT !.low = @ - n, !.kept = @ \ gone, !.excess = @ + n]
<1>4. w \in Walk
  BY DEF IInv, QuotaInv
<1> DEFINE less == w.low - n
           more == w.excess + n
           left == w.kept \ gone
<1>5. w.low \in Nat /\ w.excess \in Nat /\ w.kept \in SUBSET (Package \cup {"pkg_extract"})
  BY <1>4 DEF Walk
<1>6. /\ less \in Nat /\ more \in Nat /\ left \in SUBSET (Package \cup {"pkg_extract"})
      /\ less + more = w.low + w.excess
  BY <1>5
<1>7. v = [w EXCEPT !.low = less, !.kept = left, !.excess = more]
  OBVIOUS
<1> HIDE DEF less, more, left, v
<1>8. v \in Walk /\ v.low + v.excess = w.low + w.excess
  BY <1>4, <1>6, <1>7 DEF Walk
<1>9. walks' = [walks EXCEPT ![r] = v]
  BY <1>1, <1>4 DEF IInv, QuotaInv, Walk, v
<1>10. /\ walks' \in [Req -> Walk] /\ walks'[r] = v
       /\ \A q \in Req : q # r => walks'[q] = walks[q]
  BY <1>8, <1>9 DEF IInv, QuotaInv
<1>11. Stored' = Stored
  BY <1>2 DEF Stored
<1>12. ASSUME NEW q \in Req, reqs'[q].kind = "upload"
       PROVE  /\ reqs'[q].stage = "measure" => Stored' <= walks'[q].low + walks'[q].excess
              /\ reqs'[q].stage = "move"
                   => Stored' + reqs'[q].size <= limits'.memory + walks'[q].excess
  <2>1. reqs'[q] = reqs[q] /\ limits' = limits
    BY <1>2
  <2>2. /\ reqs[q].stage = "measure" => Stored <= walks[q].low + walks[q].excess
        /\ reqs[q].stage = "move"
             => Stored + reqs[q].size <= limits.memory + walks[q].excess
    BY <1>12, <2>1 DEF IInv, QuotaInv
  <2>3. CASE q = r
    <3>1. reqs[q].stage = "measure"
      BY <1>2, <2>3 DEF At
    <3> QED
      BY <1>8, <1>10, <1>11, <2>1, <2>2, <2>3, <3>1
  <2>4. CASE q # r
    BY <1>10, <1>11, <2>1, <2>2, <2>4
  <2> QED
    BY <2>3, <2>4
<1>13. QuotaInv'
  BY <1>10, <1>12 DEF QuotaInv
<1> QED
  BY <1>2, <1>3, <1>13, AsideStep DEF IInv

LEMMA UploadInv ==
  ASSUME IInv, NEW r \in Req, reqs[r] = Idle, starts' \in Nat, NEW size \in Size,
         Upload(r, size)
  PROVE  IInv'
<1> DEFINE k == [kind |-> "upload", stage |-> "measure", size |-> size]
<1>1. TypeInv /\ Stored \in Nat
  BY StoredNat DEF IInv
<1>2. k \in UploadT
  BY DEF UploadT
<1>3. /\ reqs' = [reqs EXCEPT ![r] = k] /\ reqs'[r] = k
      /\ \A q \in Req : q # r => reqs'[q] = reqs[q]
      /\ UNCHANGED <<files, unpacked, deb, pkg_extract, packages, limits, faults, history>>
  BY <1>1, Steps DEF Upload, TypeInv, disk
<1>4. TypeInv'
  BY <1>1, <1>2, <1>3 DEF TypeInv, Handler
<1>5. Stored' = Stored
  BY <1>3 DEF Stored
<1>6. /\ walks' \in [Req -> Walk] /\ \A q \in Req : q # r => walks'[q] = walks[q]
      /\ walks'[r].low = Stored /\ walks'[r].excess = 0
  BY WalkBegins DEF Upload
<1>7. QuotaInv'
  BY <1>1, <1>3, <1>5, <1>6 DEF QuotaInv, IInv
<1>8. r \notin Installs /\ Aside(k) /\ reqs[r].kind # "config"
  BY DEF Installs, Idle, Aside
<1> QED
  BY <1>3, <1>4, <1>7, <1>8, AsideStep DEF IInv

\* A walk finds no less than what has stayed.
LEMMA ResultsFind ==
  ASSUME IInv, NEW r \in Req, NEW measured \in Results(r)
  PROVE  measured \in Nat /\ walks[r].low <= measured
<1>1. /\ walks[r].low \in Nat /\ walks[r].high \in Nat
      /\ walks[r].kept \in SUBSET TempNames
  BY DEF IInv, QuotaInv, Walk, TempNames
<1>2. Cardinality(walks[r].kept) \in Nat
  BY <1>1, TempsNat
<1> QED
  BY <1>1, <1>2 DEF Results

LEMMA MeasuredInv ==
  ASSUME IInv, NEW r \in Req, starts' \in Nat, Measured(r)
  PROVE  IInv'
<1>1. TypeInv /\ reqs[r] \in UploadT /\ reqs[r].stage = "measure" /\ reqs[r].kind = "upload"
  BY KindType DEF IInv, TypeInv, Measured, At
<1>2. /\ UNCHANGED <<files, unpacked, deb, pkg_extract, packages, limits, faults, history>>
      /\ r \notin Installs
  BY <1>1 DEF Measured, disk, Installs
<1> DEFINE v == [NoWalk EXCEPT !.excess = walks[r].excess]
<1>3. PICK measured \in Results(r) :
        IF Fits(r, measured) THEN Goto(r, "move") /\ walks' = [walks EXCEPT ![r] = v]
        ELSE End(r) /\ EndWalk(r)
  BY DEF Measured
<1>4. CASE ~Fits(r, measured)
  <2>1. /\ reqs' \in [Req -> Handler] /\ reqs'[r] = Idle
        /\ \A q \in Req : q # r => reqs'[q] = reqs[q]
    BY <1>1, <1>3, <1>4, Steps DEF TypeInv
  <2>2. TypeInv'
    BY <1>1, <1>2, <2>1 DEF TypeInv
  <2>3. Aside(Idle) /\ Idle.kind # "upload"
    BY DEF Aside, Idle
  <2>4. walks' \in [Req -> Walk] /\ \A q \in Req : q # r => walks'[q] = walks[q]
    BY <1>3, <1>4, WalkEnds
  <2> QED
    BY <1>1, <1>2, <2>1, <2>2, <2>3, <2>4, PlainStep
<1>5. CASE Fits(r, measured)
  <2> DEFINE k == [reqs[r] EXCEPT !.stage = "move"]
  <2>1. /\ k \in UploadT /\ k.stage = "move" /\ k.size = reqs[r].size
    BY <1>1, UploadAt
  <2>2. /\ reqs' = [reqs EXCEPT ![r] = k] /\ reqs'[r] = k
        /\ \A q \in Req : q # r => reqs'[q] = reqs[q]
    BY <1>1, <1>3, <1>5, Steps DEF TypeInv
  <2> HIDE DEF k
  <2>3. TypeInv'
    BY <1>1, <1>2, <2>1, <2>2 DEF TypeInv, Handler
  <2>4. /\ Stored' = Stored /\ Stored \in Nat
        /\ reqs[r].size \in Nat /\ limits.memory \in Nat
    BY <1>1, <1>2, StoredNat, PanelFilesAssumption DEF Stored, UploadT, TypeInv
  <2>5. walks[r].low \in Nat /\ walks[r].excess \in Nat
    BY DEF IInv, QuotaInv, Walk
  <2>6. v \in Walk /\ v.excess = walks[r].excess
    BY <2>5 DEF NoWalk, Walk
  <2> HIDE DEF v
  <2>7. /\ walks' \in [Req -> Walk] /\ walks'[r] = v
        /\ \A q \in Req : q # r => walks'[q] = walks[q]
    BY <1>3, <1>5, <2>6 DEF IInv, QuotaInv
  <2>8. Stored + k.size <= limits.memory + walks[r].excess
    <3>1. Stored <= walks[r].low + walks[r].excess
      BY <1>1 DEF IInv, QuotaInv
    <3>2. measured + reqs[r].size <= limits.memory
      BY <1>5 DEF Fits
    <3>3. measured \in Nat /\ walks[r].low <= measured
      BY ResultsFind
    <3> QED
      BY <2>1, <2>4, <2>5, <3>1, <3>2, <3>3
  <2>9. QuotaInv'
    BY <1>2, <2>1, <2>2, <2>4, <2>6, <2>7, <2>8 DEF QuotaInv, IInv
  <2>10. Aside(k)
    BY <2>1, KindType DEF Aside, UploadT
  <2> QED
    BY <1>1, <1>2, <2>2, <2>3, <2>9, <2>10, AsideStep DEF IInv
<1> QED
  BY <1>4, <1>5

LEMMA MovedInv ==
  ASSUME IInv, NEW r \in Req, starts' \in Nat, Moved(r)
  PROVE  IInv'
<1>1. TypeInv /\ reqs[r] \in UploadT /\ reqs[r].kind = "upload"
  BY KindType DEF IInv, TypeInv, Moved, At
<1> DEFINE size == reqs[r].size
<1>2. PICK replaced \in Size \cup {0} :
        /\ replaced <= files /\ files' = files + size - replaced
        /\ walks' = [Disturbed(replaced, size) EXCEPT ![r] = NoWalk]
  BY DEF Moved
<1>3. End(r) /\ UNCHANGED <<unpacked, deb, pkg_extract, packages, limits, faults, history>>
  BY DEF Moved
<1>4. size \in Nat /\ replaced \in Nat /\ files \in Nat /\ Cardinality(unpacked) \in Nat
  <2>1. size \in Size /\ files \in Nat /\ Size \cup {0} \subseteq Nat
    BY <1>1, PanelFilesAssumption DEF UploadT, TypeInv
  <2> QED
    BY <1>1, <1>2, <2>1, PackagesNat DEF TypeInv
<1> HIDE DEF size
<1>5. files' \in Nat /\ Stored' + replaced <= Stored + size
  BY <1>2, <1>3, <1>4 DEF Stored
<1>6. /\ reqs' \in [Req -> Handler] /\ reqs'[r] = Idle /\ Aside(Idle) /\ Idle.kind = "idle"
      /\ \A q \in Req : q # r => reqs'[q] = reqs[q]
  BY <1>1, <1>3, HandlerEnds
<1>7. TypeInv'
  BY <1>1, <1>3, <1>5, <1>6 DEF TypeInv
<1>8. QuotaInv'
  <2> DEFINE D == Disturbed(replaced, size)
  <2>1. /\ D \in [Req -> Walk]
        /\ \A q \in Req : reqs[q].kind = "upload" =>
             /\ reqs[q].stage = "measure" => Stored' <= D[q].low + D[q].excess
             /\ reqs[q].stage = "move" =>
                  Stored' + reqs[q].size <= limits.memory + D[q].excess
    BY <1>3, <1>4, <1>5, <1>7, DisturbedQuota DEF IInv
  <2>2. walks' = [D EXCEPT ![r] = NoWalk]
    BY <1>2
  <2> HIDE DEF D
  <2>3. walks' \in [Req -> Walk] /\ \A q \in Req : q # r => walks'[q] = D[q]
    BY <2>1, <2>2, NoWalkType
  <2> QED
    BY <1>3, <1>6, <2>1, <2>3 DEF QuotaInv
<1>9. r \notin Installs
  BY <1>1 DEF Installs
<1> QED
  BY <1>1, <1>3, <1>6, <1>7, <1>8, <1>9, AsideStep DEF IInv

\* What the file manager, the guest and an administrator do to the files.
LEMMA FileStep ==
  ASSUME IInv, starts' \in Nat, files' \in Nat, NEW lost \in Nat, NEW placed \in Nat,
         files' + lost <= files + placed, walks' = Disturbed(lost, placed),
         UNCHANGED <<unpacked, deb, pkg_extract, packages, limits, reqs, faults, history>>
  PROVE  IInv'
<1>1. TypeInv /\ files \in Nat /\ Cardinality(unpacked) \in Nat
  BY PackagesNat DEF IInv, TypeInv
<1>2. TypeInv'
  BY <1>1 DEF TypeInv
<1>3. Stored' + lost <= Stored + placed
  <2> DEFINE card == Cardinality(unpacked)
  <2>1. Stored' = files' + card /\ Stored = files + card
    BY DEF Stored
  <2>2. card \in Nat
    BY <1>1
  <2>3. (files' + card) + lost <= (files + card) + placed
    BY <1>1, <2>2, AddedToBoth
  <2> QED
    BY <2>1, <2>3
<1>4. QuotaInv'
  BY <1>2, <1>3, DisturbedKeeps DEF IInv
<1> QED
  BY <1>2, <1>4, AsideStep DEF IInv

LEMMA FilesInv ==
  ASSUME IInv, starts' \in Nat, WriteFile \/ RemoveFile \/ RenameFile
  PROVE  IInv'
<1>1. files \in Nat
  BY DEF IInv, TypeInv
<1>2. CASE WriteFile
  <2>1. files' \in Nat /\ files' + 0 <= files + 1
    BY <1>1, <1>2 DEF WriteFile
  <2> QED
    BY <1>2, <2>1, FileStep DEF WriteFile
<1>3. CASE RemoveFile
  <2>1. files' \in Nat /\ files' + 1 <= files + 0
    BY <1>1, <1>3 DEF RemoveFile
  <2> QED
    BY <1>3, <2>1, FileStep DEF RemoveFile
<1>4. CASE RenameFile
  <2>1. PICK moved \in 1 .. Stored, replaced \in 0 .. files :
          files' = files - replaced /\ walks' = Disturbed(moved + replaced, moved)
    BY <1>4 DEF RenameFile
  <2>2. Stored \in Nat
    BY StoredNat DEF IInv
  <2> DEFINE lost == moved + replaced
  <2>3. /\ moved \in Nat /\ replaced \in Nat /\ files' \in Nat /\ lost \in Nat
        /\ files' + lost <= files + moved
    BY <1>1, <2>1, <2>2
  <2>4. walks' = Disturbed(lost, moved)
    BY <2>1
  <2> HIDE DEF lost
  <2> QED
    BY <1>4, <2>3, <2>4, FileStep DEF RenameFile
<1> QED
  BY <1>2, <1>3, <1>4

-----------------------------------------------------------------------------
(* Packages.                                                               *)

LEMMA InstallGoto ==
  ASSUME TypeInv, NEW r \in Req, reqs[r] \in InstallT,
         NEW s \in InstallStages \ {"tar"}, Goto(r, s)
  PROVE  /\ reqs' \in [Req -> Handler] /\ reqs'[r] \in InstallT /\ reqs'[r].kind = "install"
         /\ reqs'[r].stage = s /\ reqs'[r].package = reqs[r].package
         /\ reqs'[r].alone = reqs[r].alone /\ reqs'[r].tar = reqs[r].tar
         /\ reqs'[r].seen = reqs[r].seen
         /\ \A q \in Req : q # r => reqs'[q] = reqs[q]
<1> DEFINE k == [reqs[r] EXCEPT !.stage = s]
<1>1. /\ k \in InstallT /\ k.stage = s /\ k.package = reqs[r].package
      /\ k.alone = reqs[r].alone /\ k.tar = reqs[r].tar /\ k.seen = reqs[r].seen
  BY InstallAt
<1>2. /\ reqs' = [reqs EXCEPT ![r] = k] /\ reqs'[r] = k
      /\ \A q \in Req : q # r => reqs'[q] = reqs[q]
  BY Steps DEF TypeInv
<1> HIDE DEF k
<1>3. k \in Handler /\ k.kind = "install"
  BY <1>1 DEF Handler, InstallT
<1>4. reqs' \in [Req -> Handler]
  BY <1>2, <1>3 DEF TypeInv
<1> QED
  BY <1>1, <1>2, <1>3, <1>4

LEMMA UninstallGoto ==
  ASSUME TypeInv, NEW r \in Req, reqs[r] \in UninstallT, NEW s \in ListStages, Goto(r, s)
  PROVE  /\ reqs' \in [Req -> Handler] /\ reqs'[r] \in UninstallT
         /\ reqs'[r].kind = "uninstall" /\ reqs'[r].stage = s
         /\ reqs'[r].package = reqs[r].package /\ reqs'[r].seen = reqs[r].seen
         /\ \A q \in Req : q # r => reqs'[q] = reqs[q]
<1> DEFINE k == [reqs[r] EXCEPT !.stage = s]
<1>1. /\ k \in UninstallT /\ k.stage = s /\ k.package = reqs[r].package
      /\ k.seen = reqs[r].seen
  BY UninstallAt
<1>2. /\ reqs' = [reqs EXCEPT ![r] = k] /\ reqs'[r] = k
      /\ \A q \in Req : q # r => reqs'[q] = reqs[q]
  BY Steps DEF TypeInv
<1> HIDE DEF k
<1>3. k \in Handler /\ k.kind = "uninstall"
  BY <1>1 DEF Handler, UninstallT
<1>4. reqs' \in [Req -> Handler]
  BY <1>2, <1>3 DEF TypeInv
<1> QED
  BY <1>1, <1>2, <1>3, <1>4

LEMMA ConfigGoto ==
  ASSUME TypeInv, NEW r \in Req, reqs[r] \in ConfigT, reqs[r].stage # "read",
         NEW s \in {"write", "writing", "assign"}, Goto(r, s)
  PROVE  /\ reqs' \in [Req -> Handler] /\ reqs'[r] \in ConfigT /\ reqs'[r].kind = "config"
         /\ reqs'[r].stage = s /\ reqs'[r].limit = reqs[r].limit
         /\ reqs'[r].alone = reqs[r].alone
         /\ \A q \in Req : q # r => reqs'[q] = reqs[q]
<1> DEFINE k == [reqs[r] EXCEPT !.stage = s]
<1>1. k \in ConfigT /\ k.stage = s /\ k.limit = reqs[r].limit /\ k.alone = reqs[r].alone
  BY ConfigAt
<1>2. /\ reqs' = [reqs EXCEPT ![r] = k] /\ reqs'[r] = k
      /\ \A q \in Req : q # r => reqs'[q] = reqs[q]
  BY Steps DEF TypeInv
<1> HIDE DEF k
<1>3. k \in Handler /\ k.kind = "config"
  BY <1>1 DEF Handler, ConfigT
<1>4. reqs' \in [Req -> Handler]
  BY <1>2, <1>3 DEF TypeInv
<1> QED
  BY <1>1, <1>2, <1>3, <1>4

\* An installation before it has ensured pkg_extract, or behind its removal.
Early == InstallStages \ CleansUp

LEMMA EarlyStep ==
  ASSUME IInv, NEW r \in Req, starts' \in Nat, faults' \in Nat, reqs[r].kind = "install",
         reqs[r].stage \in Early,
         End(r) \/ \E s \in Early : Goto(r, s),
         deb' \in [Package -> {"none", "part", "whole"}],
         UNCHANGED <<files, unpacked, pkg_extract, packages, limits, history>>,
         walks' = Disturbed(0, 0) \/ EndWalk(r) \/ UNCHANGED walks
  PROVE  IInv'
<1>1. TypeInv /\ reqs[r] \in InstallT /\ r \notin Installs
  BY KindType DEF IInv, TypeInv, Installs, Early
<1>2. /\ reqs' \in [Req -> Handler] /\ Aside(reqs'[r]) /\ reqs'[r].kind # "upload"
      /\ \A q \in Req : q # r => reqs'[q] = reqs[q]
  <2>1. CASE End(r)
    BY <1>1, <2>1, HandlerEnds
  <2>2. ASSUME NEW s \in Early, Goto(r, s)
        PROVE  /\ reqs' \in [Req -> Handler] /\ Aside(reqs'[r]) /\ reqs'[r].kind # "upload"
               /\ \A q \in Req : q # r => reqs'[q] = reqs[q]
    <3>1. s \in InstallStages \ {"tar"} /\ s \notin CleansUp
      BY DEF Early, CleansUp
    <3> QED
      BY <1>1, <2>2, <3>1, InstallGoto DEF Aside
  <2> QED
    BY <2>1, <2>2
<1>3. TypeInv'
  BY <1>1, <1>2 DEF TypeInv
<1>4. \/ walks' \in [Req -> Walk] /\ \A q \in Req : q # r => walks'[q] = walks[q]
      \/ walks' = Disturbed(0, 0)
  BY WalkEnds DEF IInv, QuotaInv
<1> QED
  BY <1>1, <1>2, <1>3, <1>4, PlainStep

LEMMA StagesEarly ==
  /\ {"measure", "page", "download", "hung", "mkdir", "unlink"} \subseteq Early
  /\ CleansUp \subseteq InstallStages
BY DEF Early, InstallStages, CleansUp

LEMMA InstallInv ==
  ASSUME IInv, NEW r \in Req, reqs[r] = Idle, starts' \in Nat, NEW p \in Package, Install(r, p)
  PROVE  IInv'
<1> DEFINE k == [kind |-> "install", stage |-> "measure", package |-> p,
                 alone |-> TRUE, tar |-> None, seen |-> {}]
<1>1. TypeInv /\ k \in InstallT
  BY DEF IInv, InstallT, InstallStages
<1>2. /\ reqs' = [reqs EXCEPT ![r] = k] /\ reqs'[r] = k
      /\ \A q \in Req : q # r => reqs'[q] = reqs[q]
      /\ UNCHANGED <<files, unpacked, deb, pkg_extract, packages, limits, faults, history>>
  BY <1>1, Steps DEF Install, TypeInv, disk
<1>3. TypeInv'
  BY <1>1, <1>2 DEF TypeInv, Handler
<1>4. r \notin Installs /\ Aside(k) /\ k.kind # "upload" /\ reqs[r].kind # "config"
  BY DEF Installs, Idle, Aside, CleansUp
<1>5. walks' \in [Req -> Walk] /\ \A q \in Req : q # r => walks'[q] = walks[q]
  BY WalkBegins DEF Install
<1> HIDE DEF k
<1> QED
  BY <1>2, <1>3, <1>4, <1>5, PlainStep

LEMMA UninstallInv ==
  ASSUME IInv, NEW r \in Req, reqs[r] = Idle, starts' \in Nat, NEW p \in Package,
         Uninstall(r, p)
  PROVE  IInv'
<1> DEFINE k == [kind |-> "uninstall", stage |-> "list", package |-> p, seen |-> {}]
<1>1. TypeInv /\ k \in UninstallT
  BY DEF IInv, UninstallT, ListStages
<1>2. /\ reqs' = [reqs EXCEPT ![r] = k] /\ reqs'[r] = k
      /\ \A q \in Req : q # r => reqs'[q] = reqs[q]
      /\ UNCHANGED <<files, unpacked, deb, pkg_extract, packages, limits, faults, history>>
  BY <1>1, Steps DEF Uninstall, TypeInv, disk
<1>3. TypeInv'
  BY <1>1, <1>2 DEF TypeInv, Handler
<1>4. r \notin Installs /\ Aside(k) /\ k.kind # "upload" /\ reqs[r].kind # "config"
  BY DEF Installs, Idle, Aside
<1>5. walks' \in [Req -> Walk] /\ walks' = walks
  BY DEF Uninstall, IInv, QuotaInv
<1> HIDE DEF k
<1> QED
  BY <1>2, <1>3, <1>4, <1>5, PlainStep

LEMMA DownloadInv ==
  ASSUME IInv, NEW r \in Req, starts' \in Nat,
         Fetched(r) \/ StartDownload(r) \/ Downloaded(r) \/ DownloadFails(r) \/ RemoveDeb(r)
  PROVE  IInv'
<1>1. TypeInv
  BY DEF IInv
<1>2. CASE Fetched(r)
  <2>1. End(r) \/ Goto(r, "page")
    BY <1>2 DEF Fetched
  <2> QED
    BY <1>1, <1>2, <2>1, EarlyStep, StagesEarly DEF Fetched, At, disk, TypeInv
<1>3. reqs[r].kind = "install" => reqs[r].package \in Package
  BY <1>1, KindType DEF TypeInv, InstallT
<1>4. CASE StartDownload(r)
  BY <1>1, <1>3, <1>4, EarlyStep, StagesEarly DEF StartDownload, At, TypeInv
<1>5. CASE Downloaded(r)
  <2>1. deb' \in [Package -> {"none", "part", "whole"}]
    BY <1>1, <1>3, <1>5 DEF Downloaded, At, TypeInv
  <2> QED
    BY <1>1, <1>5, <2>1, EarlyStep, StagesEarly DEF Downloaded, At, TypeInv
<1>6. CASE DownloadFails(r)
  BY <1>1, <1>3, <1>6, EarlyStep, StagesEarly DEF DownloadFails, At, Fault, TypeInv
<1>7. CASE RemoveDeb(r)
  BY <1>1, <1>3, <1>7, EarlyStep, StagesEarly DEF RemoveDeb, At, TypeInv
<1> QED
  BY <1>2, <1>4, <1>5, <1>6, <1>7

\* The parts of the invariant that a step within pkg_extract is not about.
LEMMA ExtractAside ==
  ASSUME IInv, NEW r \in Req, reqs[r].kind = "install", reqs'[r].kind = "install",
         reqs'[r].stage \notin {"write", "writing"},
         \A q \in Req : q # r =>
           \/ reqs'[q] = reqs[q]
           \/ /\ reqs[q].kind = "install" /\ reqs'[q].kind = "install"
              /\ reqs'[q].stage = reqs[q].stage /\ reqs'[q].seen = reqs[q].seen,
         unpacked \subseteq unpacked', UNCHANGED <<packages, limits>>,
         history'.updates = history.updates, history'.crossed = history.crossed,
         history'.confirmed = history.confirmed, history'.doubtful = history.doubtful
  PROVE  ConfigInv' /\ ListInv' /\ SeenInv'
<1>1. \A q \in Writers' : q \in Writers /\ reqs'[q].stage = reqs[q].stage
                                      /\ reqs'[q].seen = reqs[q].seen
  BY DEF Writers
<1>2. ConfigInv'
  BY KeepConfig DEF IInv, At
<1>3. ListInv'
  BY <1>1, KeepList DEF IInv
<1>4. SeenInv'
  BY <1>1, KeepSeen DEF IInv
<1> QED
  BY <1>2, <1>3, <1>4

\* The same for a step that stores nothing and lets the uploads alone.
LEMMA ExtractQuota ==
  ASSUME IInv, TypeInv', NEW r \in Req, reqs'[r].kind = "install",
         \A q \in Req : q # r /\ reqs'[q].kind = "upload" => reqs'[q] = reqs[q],
         UNCHANGED <<files, unpacked, limits>>,
         walks' = Disturbed(0, 0) \/ UNCHANGED walks
  PROVE  QuotaInv'
<1>1. Stored' = Stored /\ Stored \in Nat
  BY StoredNat DEF IInv, Stored
<1>2. Stored' + 0 <= Stored + 0
  BY <1>1
<1>3. CASE walks' = Disturbed(0, 0)
  BY <1>2, <1>3, DisturbedKeeps DEF IInv
<1>4. CASE UNCHANGED walks
  BY <1>1, <1>4, KeepQuota DEF IInv, QuotaInv
<1> QED
  BY <1>3, <1>4

LEMMA MakeDirInv ==
  ASSUME IInv, NEW r \in Req, starts' \in Nat, MakeDir(r)
  PROVE  IInv'
<1>1. /\ TypeInv /\ reqs[r] \in InstallT /\ reqs[r].kind = "install"
      /\ reqs[r].stage = "mkdir" /\ r \notin Installs
  BY KindType DEF IInv, TypeInv, MakeDir, At, Installs, CleansUp
<1>2. Extracting(r) = Installs
  BY <1>1 DEF Extracting, Others, Installs, CleansUp, Idle
<1> DEFINE lone == Installs = {} /\ ~history.leftover
           k == [reqs[r] EXCEPT !.stage = "ar", !.alone = lone]
<1>3. /\ reqs' = [q \in Req |-> IF q = r THEN k ELSE
                                IF q \in Installs THEN [reqs[q] EXCEPT !.alone = FALSE]
                                ELSE reqs[q]]
      /\ pkg_extract' = IF pkg_extract = None THEN NoTars ELSE pkg_extract
      /\ UNCHANGED <<files, unpacked, deb, packages, limits, faults, history>>
      /\ walks' = Disturbed(0, 0)
  BY <1>2 DEF MakeDir
<1>4. k \in InstallT /\ k.kind = "install" /\ k.stage = "ar" /\ k.alone = lone
  BY <1>1 DEF InstallT, InstallStages, CleansUp
<1>5. ASSUME NEW q \in Installs
      PROVE  LET j == [reqs[q] EXCEPT !.alone = FALSE]
             IN /\ j \in InstallT /\ j.kind = "install" /\ ~j.alone
                /\ j.stage = reqs[q].stage /\ j.seen = reqs[q].seen
  <2>1. reqs[q] \in InstallT
    BY <1>1, KindType DEF Installs, TypeInv
  <2> QED
    BY <2>1 DEF InstallT
<1> HIDE DEF k, lone
<1>6. reqs' \in [Req -> Handler]
  BY <1>1, <1>3, <1>4, <1>5 DEF TypeInv, Handler
<1>7. NoTars \in [Formats -> Package \cup {None}]
  BY DEF NoTars
<1>8. TypeInv'
  BY <1>1, <1>3, <1>6, <1>7 DEF TypeInv
<1>9. reqs'[r] = k /\ \A q \in Req : q # r =>
        \/ q \notin Installs /\ reqs'[q] = reqs[q]
        \/ /\ q \in Installs /\ reqs[q].kind = "install" /\ reqs'[q].kind = "install"
           /\ reqs'[q].stage = reqs[q].stage /\ reqs'[q].seen = reqs[q].seen
           /\ ~reqs'[q].alone
  BY <1>3, <1>5 DEF Installs
<1>10. QuotaInv'
  BY <1>3, <1>4, <1>8, <1>9, ExtractQuota
<1>11. ConfigInv' /\ ListInv' /\ SeenInv'
  BY <1>1, <1>3, <1>4, <1>9, ExtractAside
<1>12. Installs' = Installs \cup {r}
  BY <1>4, <1>9 DEF Installs, CleansUp
<1>13. ExtractInv'
  <2>1. ASSUME NEW q \in Installs', reqs'[q].alone
        PROVE  q = r /\ Installs' = {r} /\ pkg_extract' = NoTars /\ reqs'[q].stage = "ar"
    <3>1. q = r
      BY <1>9, <1>12, <2>1 DEF Installs
    <3>2. Installs = {} /\ ~history.leftover
      BY <1>4, <1>9, <2>1, <3>1 DEF lone
    <3>3. pkg_extract = None
      BY <3>2 DEF IInv, ExtractInv
    <3> QED
      BY <1>3, <1>4, <1>9, <1>12, <3>1, <3>2, <3>3
  <2>2. Installs' # {}
    BY <1>12
  <2> QED
    BY <2>1, <2>2 DEF ExtractInv
<1> QED
  BY <1>8, <1>10, <1>11, <1>13 DEF IInv

\* An installation that goes on within pkg_extract, or leaves it.
LEMMA ExtractGoto ==
  ASSUME IInv, NEW r \in Req, reqs[r].kind = "install", reqs[r].stage \in CleansUp,
         NEW s \in InstallStages \ {"tar", "write", "writing"}, Goto(r, s), starts' \in Nat,
         pkg_extract' \in [Formats -> Package \cup {None}] \cup {None},
         UNCHANGED <<files, unpacked, deb, packages, limits, faults>>,
         walks' = Disturbed(0, 0) \/ UNCHANGED walks,
         history' = history \/ history' = [history EXCEPT !.leftover = FALSE]
  PROVE  /\ TypeInv' /\ QuotaInv' /\ ConfigInv' /\ ListInv' /\ SeenInv'
         /\ r \in Installs /\ \A q \in Installs : q # r => ~reqs[q].alone
         /\ s \in CleansUp => Installs' = Installs
         /\ s \notin CleansUp => Installs' = Installs \ {r}
         /\ reqs'[r].stage = s /\ reqs'[r].package = reqs[r].package
         /\ reqs'[r].alone = reqs[r].alone /\ reqs'[r].tar = reqs[r].tar
         /\ \A q \in Req : q # r => reqs'[q] = reqs[q]
<1>1. TypeInv /\ reqs[r] \in InstallT /\ r \in Installs
  BY KindType DEF IInv, TypeInv, Installs
<1>2. /\ reqs' \in [Req -> Handler] /\ reqs'[r].kind = "install"
      /\ reqs'[r].stage = s /\ reqs'[r].package = reqs[r].package
      /\ reqs'[r].alone = reqs[r].alone /\ reqs'[r].tar = reqs[r].tar
      /\ \A q \in Req : q # r => reqs'[q] = reqs[q]
  BY <1>1, InstallGoto
<1>3. /\ history' \in [leftover : BOOLEAN, doubtful : SUBSET Package,
                       confirmed : SUBSET Package, crossed : BOOLEAN, updates : BOOLEAN]
      /\ history'.updates = history.updates /\ history'.crossed = history.crossed
      /\ history'.confirmed = history.confirmed /\ history'.doubtful = history.doubtful
  BY <1>1 DEF TypeInv
<1>4. TypeInv'
  BY <1>1, <1>2, <1>3 DEF TypeInv
<1>5. QuotaInv'
  BY <1>2, <1>4, ExtractQuota
<1>6. ConfigInv' /\ ListInv' /\ SeenInv'
  BY <1>2, <1>3, ExtractAside
<1>7. \A q \in Installs : q # r => ~reqs[q].alone
  BY <1>1 DEF IInv, ExtractInv
<1>8. /\ s \in CleansUp => Installs' = Installs
      /\ s \notin CleansUp => Installs' = Installs \ {r}
  BY <1>1, <1>2 DEF Installs
<1> QED
  BY <1>1, <1>2, <1>4, <1>5, <1>6, <1>7, <1>8

LEMMA TarOfType ==
  ASSUME NEW p \in Package
  PROVE  /\ Format[p] \in Formats /\ TarOf(p) \in [Formats -> Package \cup {None}]
         /\ TarOf(p)[Format[p]] = p /\ p # None
         /\ \A f \in Formats : TarOf(p)[f] # None => f = Format[p]
BY PanelFilesAssumption DEF Formats, TarOf, NoTars

LEMMA ArInv ==
  ASSUME IInv, NEW r \in Req, starts' \in Nat, Ar(r)
  PROVE  IInv'
<1> DEFINE p == reqs[r].package
<1>1. /\ TypeInv /\ reqs[r].kind = "install" /\ reqs[r].stage = "ar" /\ p \in Package
      /\ {"find", "clean"} \subseteq (InstallStages \ {"tar", "write", "writing"}) \cap CleansUp
      /\ reqs[r].stage \in CleansUp
      /\ UNCHANGED <<files, unpacked, deb, packages, limits, walks, faults, history>>
  BY KindType DEF IInv, TypeInv, Ar, At, InstallT, InstallStages, CleansUp
<1>2. CASE pkg_extract # None /\ deb[p] = "whole"
  <2>1. pkg_extract' = [pkg_extract EXCEPT ![Format[p]] = p] /\ Goto(r, "find")
    BY <1>2 DEF Ar
  <2>2. pkg_extract' \in [Formats -> Package \cup {None}]
    BY <1>1, <1>2, <2>1, TarOfType DEF TypeInv
  <2>3. /\ TypeInv' /\ QuotaInv' /\ ConfigInv' /\ ListInv' /\ SeenInv'
        /\ r \in Installs /\ \A q \in Installs : q # r => ~reqs[q].alone
        /\ Installs' = Installs
        /\ reqs'[r].stage = "find" /\ reqs'[r].package = p /\ reqs'[r].alone = reqs[r].alone
        /\ \A q \in Req : q # r => reqs'[q] = reqs[q]
    BY <1>1, <2>1, <2>2, ExtractGoto
  <2>4. ASSUME reqs[r].alone PROVE Installs = {r} /\ pkg_extract' = TarOf(p)
    BY <1>1, <2>1, <2>3, <2>4 DEF IInv, ExtractInv, TarOf
  <2>5. ExtractInv'
    BY <2>3, <2>4 DEF ExtractInv, Installs
  <2> QED
    BY <2>3, <2>5 DEF IInv
<1>3. CASE ~(pkg_extract # None /\ deb[p] = "whole")
  <2>1. pkg_extract' = pkg_extract /\ Goto(r, "clean")
    BY <1>3 DEF Ar
  <2>2. pkg_extract' \in [Formats -> Package \cup {None}] \cup {None}
    BY <1>1, <2>1 DEF TypeInv
  <2>3. /\ TypeInv' /\ QuotaInv' /\ ConfigInv' /\ ListInv' /\ SeenInv'
        /\ r \in Installs /\ \A q \in Installs : q # r => ~reqs[q].alone
        /\ Installs' = Installs
        /\ reqs'[r].stage = "clean" /\ reqs'[r].alone = reqs[r].alone
        /\ \A q \in Req : q # r => reqs'[q] = reqs[q]
    BY <1>1, <2>1, <2>2, ExtractGoto
  <2>4. ASSUME reqs[r].alone PROVE Installs = {r}
    BY <2>3, <2>4 DEF IInv, ExtractInv
  <2>5. ExtractInv'
    BY <2>3, <2>4 DEF ExtractInv, Installs
  <2> QED
    BY <2>3, <2>5 DEF IInv
<1> QED
  BY <1>2, <1>3

LEMMA FindTarInv ==
  ASSUME IInv, NEW r \in Req, starts' \in Nat, FindTar(r)
  PROVE  IInv'
<1> DEFINE tars == {f \in Formats : pkg_extract[f] # None}
<1>1. /\ TypeInv /\ reqs[r] \in InstallT /\ reqs[r].kind = "install"
      /\ reqs[r].stage = "find" /\ reqs[r].package \in Package
      /\ {"list", "clean"} \subseteq (InstallStages \ {"tar", "write", "writing"}) \cap CleansUp
      /\ {"list", "clean", "find", "tar"} \subseteq CleansUp
      /\ UNCHANGED <<files, unpacked, deb, pkg_extract, packages, limits, walks, faults, history>>
      /\ pkg_extract' \in [Formats -> Package \cup {None}] \cup {None}
  BY KindType DEF IInv, TypeInv, FindTar, At, InstallT, InstallStages, CleansUp, disk
<1>2. r \in Installs
  BY <1>1 DEF Installs
<1>3. reqs[r].alone => Installs = {r} /\ pkg_extract = TarOf(reqs[r].package)
  BY <1>1, <1>2 DEF IInv, ExtractInv
<1>4. CASE Goto(r, "clean")
  <2>1. /\ TypeInv' /\ QuotaInv' /\ ConfigInv' /\ ListInv' /\ SeenInv'
        /\ \A q \in Installs : q # r => ~reqs[q].alone
        /\ Installs' = Installs /\ reqs'[r].stage = "clean" /\ reqs'[r].alone = reqs[r].alone
        /\ \A q \in Req : q # r => reqs'[q] = reqs[q]
    BY <1>1, <1>4, ExtractGoto
  <2>2. ExtractInv'
    BY <1>2, <1>3, <2>1 DEF ExtractInv, Installs
  <2> QED
    BY <2>1, <2>2 DEF IInv
<1>5. CASE pkg_extract # None /\ tars = {} /\ Goto(r, "list")
  <2>1. /\ TypeInv' /\ QuotaInv' /\ ConfigInv' /\ ListInv' /\ SeenInv'
        /\ \A q \in Installs : q # r => ~reqs[q].alone
        /\ Installs' = Installs /\ reqs'[r].stage = "list" /\ reqs'[r].alone = reqs[r].alone
        /\ \A q \in Req : q # r => reqs'[q] = reqs[q]
    BY <1>1, <1>5, ExtractGoto
  <2>2. ~reqs[r].alone
    BY <1>1, <1>3, <1>5, TarOfType
  <2>3. ExtractInv'
    BY <1>2, <2>1, <2>2 DEF ExtractInv, Installs
  <2> QED
    BY <2>1, <2>3 DEF IInv
<1>6. ASSUME NEW f \in tars, pkg_extract # None,
             reqs' = [reqs EXCEPT ![r].stage = "tar", ![r].tar = f]
      PROVE  IInv'
  <2> DEFINE k == [reqs[r] EXCEPT !.stage = "tar", !.tar = f]
  <2>1. /\ k \in InstallT /\ k.kind = "install" /\ k.stage = "tar" /\ k.tar = f
        /\ k.alone = reqs[r].alone /\ k.package = reqs[r].package
    BY <1>1 DEF InstallT, InstallStages, CleansUp
  <2>2. reqs' = [reqs EXCEPT ![r] = k]
    BY <1>1, <1>6 DEF TypeInv
  <2> HIDE DEF k
  <2>3. /\ reqs' \in [Req -> Handler] /\ reqs'[r] = k
        /\ \A q \in Req : q # r => reqs'[q] = reqs[q]
    BY <1>1, <2>1, <2>2 DEF TypeInv, Handler
  <2>4. TypeInv'
    BY <1>1, <2>3 DEF TypeInv
  <2>5. QuotaInv'
    BY <1>1, <2>1, <2>3, <2>4, ExtractQuota
  <2>6. ConfigInv' /\ ListInv' /\ SeenInv'
    BY <1>1, <2>1, <2>3, ExtractAside
  <2>7. Installs' = Installs
    BY <1>1, <2>1, <2>3 DEF Installs
  <2>8. reqs[r].alone => f = Format[reqs[r].package]
    BY <1>1, <1>3, TarOfType
  <2>9. \A q \in Installs : q # r => ~reqs[q].alone
    BY <1>2 DEF IInv, ExtractInv
  <2>10. ExtractInv'
    BY <1>1, <1>2, <1>3, <2>1, <2>3, <2>7, <2>8, <2>9 DEF ExtractInv, Installs
  <2> QED
    BY <2>4, <2>5, <2>6, <2>10 DEF IInv
<1> QED
  BY <1>4, <1>5, <1>6 DEF FindTar

LEMMA TarInv ==
  ASSUME IInv, NEW r \in Req, starts' \in Nat, Tar(r)
  PROVE  IInv'
<1> DEFINE p == reqs[r].package
           found == IF pkg_extract = None THEN None ELSE pkg_extract[reqs[r].tar]
<1>1. /\ TypeInv /\ reqs[r] \in InstallT /\ reqs[r].kind = "install"
      /\ reqs[r].stage = "tar" /\ p \in Package
      /\ {"list", "clean"} \subseteq (InstallStages \ {"tar", "write", "writing"}) \cap CleansUp
      /\ {"list", "clean", "find", "tar"} \subseteq CleansUp
      /\ UNCHANGED <<files, deb, pkg_extract, packages, limits, faults, history>>
      /\ pkg_extract' \in [Formats -> Package \cup {None}] \cup {None}
  BY KindType DEF IInv, TypeInv, Tar, At, InstallT, InstallStages, CleansUp
<1>2. r \in Installs
  BY <1>1 DEF Installs
<1>3. reqs[r].alone => /\ Installs = {r} /\ pkg_extract = TarOf(p)
                       /\ reqs[r].tar = Format[p]
  BY <1>1, <1>2 DEF IInv, ExtractInv
<1>4. \A q \in Installs : q # r => ~reqs[q].alone
  BY <1>2 DEF IInv, ExtractInv
<1>5. CASE found = None /\ Goto(r, "clean") /\ UNCHANGED <<unpacked, walks>>
  <2>1. /\ TypeInv' /\ QuotaInv' /\ ConfigInv' /\ ListInv' /\ SeenInv'
        /\ Installs' = Installs /\ reqs'[r].stage = "clean" /\ reqs'[r].alone = reqs[r].alone
        /\ \A q \in Req : q # r => reqs'[q] = reqs[q]
    BY <1>1, <1>5, ExtractGoto
  <2>2. ExtractInv'
    BY <1>2, <1>3, <1>4, <2>1 DEF ExtractInv, Installs
  <2> QED
    BY <2>1, <2>2 DEF IInv
<1>6. CASE /\ found # None /\ unpacked' = unpacked \cup {found} /\ Goto(r, "list")
           /\ walks' = Disturbed(IF found \in unpacked THEN 1 ELSE 0, 1)
  <2>1. "list" \in InstallStages \ {"tar"}
    BY <1>1
  <2>2. /\ reqs' \in [Req -> Handler] /\ reqs'[r].kind = "install"
        /\ reqs'[r].stage = "list" /\ reqs'[r].package = p /\ reqs'[r].alone = reqs[r].alone
        /\ \A q \in Req : q # r => reqs'[q] = reqs[q]
    BY <1>1, <1>6, <2>1, InstallGoto
  <2>3. found \in Package
    BY <1>1, <1>6 DEF TypeInv, InstallT
  <2>4. TypeInv'
    BY <1>1, <1>6, <2>2, <2>3 DEF TypeInv
  <2>5. QuotaInv'
    <3> DEFINE lost == IF found \in unpacked THEN 1 ELSE 0
    <3>1. /\ unpacked \in SUBSET Package /\ IsFiniteSet(unpacked) /\ files \in Nat
          /\ Cardinality(unpacked) \in Nat
      BY <1>1, PackagesNat, FS_Subset, PanelFilesAssumption DEF TypeInv
    <3>2. Cardinality(unpacked') + lost = Cardinality(unpacked) + 1
      <4>1. CASE found \in unpacked
        <5>1. unpacked' = unpacked
          BY <1>6, <4>1
        <5> QED
          BY <3>1, <4>1, <5>1
      <4>2. CASE found \notin unpacked
        <5>1. Cardinality(unpacked') = Cardinality(unpacked) + 1
          BY <1>6, <3>1, <4>2, FS_AddElement
        <5> QED
          BY <3>1, <4>2, <5>1
      <4> QED
        BY <4>1, <4>2
    <3>3. lost \in Nat /\ walks' = Disturbed(lost, 1)
      BY <1>6
    <3> HIDE DEF lost
    <3>4. Cardinality(unpacked') \in Nat
      BY <2>4, PackagesNat DEF TypeInv
    <3>5. Stored' + lost <= Stored + 1
      BY <1>1, <3>1, <3>2, <3>3, <3>4 DEF Stored
    <3> QED
      BY <1>1, <2>2, <2>4, <3>3, <3>5, DisturbedKeeps DEF IInv
  <2>6. ConfigInv' /\ ListInv' /\ SeenInv'
    BY <1>1, <1>6, <2>2, ExtractAside
  <2>7. Installs' = Installs
    BY <1>1, <2>2 DEF Installs
  <2>8. reqs[r].alone => p \in unpacked'
    BY <1>1, <1>3, <1>6, TarOfType
  <2>9. \A q \in Installs : q # r => ~reqs'[q].alone
    BY <1>4, <2>2 DEF Installs
  <2>10. ExtractInv'
    BY <1>2, <1>3, <2>2, <2>7, <2>8, <2>9 DEF ExtractInv
  <2> QED
    BY <2>4, <2>5, <2>6, <2>10 DEF IInv
<1> QED
  BY <1>5, <1>6 DEF Tar

LEMMA RemoveDirInv ==
  ASSUME IInv, NEW r \in Req, starts' \in Nat, RemoveDir(r)
  PROVE  IInv'
<1>1. /\ reqs[r].kind = "install" /\ reqs[r].stage = "clean" /\ "clean" \in CleansUp
      /\ "unlink" \in InstallStages \ {"tar", "write", "writing"} /\ "unlink" \notin CleansUp
      /\ pkg_extract' = None /\ Goto(r, "unlink")
      /\ UNCHANGED <<files, unpacked, deb, packages, limits, faults>>
      /\ walks' = Disturbed(0, 0)
      /\ history' = [history EXCEPT !.leftover = FALSE]
  BY DEF RemoveDir, At, InstallStages, CleansUp
<1>2. pkg_extract' \in [Formats -> Package \cup {None}] \cup {None}
  BY <1>1
<1>3. /\ TypeInv' /\ QuotaInv' /\ ConfigInv' /\ ListInv' /\ SeenInv'
      /\ \A q \in Installs : q # r => ~reqs[q].alone
      /\ Installs' = Installs \ {r}
      /\ \A q \in Req : q # r => reqs'[q] = reqs[q]
  BY <1>1, <1>2, ExtractGoto
<1>4. \A q \in Installs' : ~reqs'[q].alone
  BY <1>3 DEF Installs
<1>5. ExtractInv'
  BY <1>1, <1>4 DEF ExtractInv
<1> QED
  BY <1>3, <1>5 DEF IInv

\* The handlers of the list are at one of its stages.
LEMMA ListingWriters ==
  ASSUME TypeInv, NEW r \in Req
  PROVE  Listing(r) = Writers \ {r}
<1>1. ASSUME NEW q \in Req
      PROVE  (reqs[q] # Idle /\ reqs[q].stage \in {"write", "writing"} /\ reqs[q].kind # "config")
               <=> q \in Writers
  <2>1. CASE reqs[q] \in UploadT
    BY <2>1, KindType DEF UploadT, Writers
  <2>2. CASE reqs[q] \in ConfigT
    BY <2>2, KindType DEF ConfigT, Writers
  <2>3. CASE reqs[q] = Idle
    BY <2>3 DEF Writers, Idle
  <2>4. CASE reqs[q] \in InstallT \cup UninstallT
    BY <2>4, KindType DEF Writers, InstallT, UninstallT, Idle
  <2> QED
    BY <2>1, <2>2, <2>3, <2>4 DEF TypeInv, Handler
<1> QED
  BY <1>1 DEF Listing, Others, Writers

\* The handlers that are at the list, and where their steps take them.
AtList(r) ==
  \/ reqs[r].kind = "install" /\ reqs[r].stage \in ListStages
  \/ reqs[r].kind = "uninstall"

LEMMA AtListType ==
  ASSUME TypeInv, NEW r \in Req, AtList(r)
  PROVE  /\ reqs[r].kind = "install" => reqs[r] \in InstallT /\ r \in Installs
         /\ reqs[r].kind = "uninstall" => reqs[r] \in UninstallT
         /\ reqs[r].package \in Package /\ reqs[r].seen \in SUBSET Package
         /\ reqs[r].kind \in {"install", "uninstall"}
<1>1. /\ reqs[r].kind = "install" => reqs[r] \in InstallT
      /\ reqs[r].kind = "uninstall" => reqs[r] \in UninstallT
      /\ reqs[r].kind \in {"install", "uninstall"}
  BY KindType DEF TypeInv, AtList
<1>2. reqs[r].kind = "install" => r \in Installs
  BY DEF AtList, Installs, ListStages, CleansUp
<1> QED
  BY <1>1, <1>2 DEF InstallT, UninstallT

LEMMA ListGoto ==
  ASSUME TypeInv, NEW r \in Req, AtList(r), NEW s \in {"write", "writing"}, Goto(r, s)
  PROVE  /\ reqs' \in [Req -> Handler] /\ reqs'[r].kind = reqs[r].kind
         /\ reqs'[r].stage = s /\ reqs'[r].seen = reqs[r].seen
         /\ reqs[r].kind = "install" => /\ reqs'[r].package = reqs[r].package
                                        /\ reqs'[r].alone = reqs[r].alone
         /\ \A q \in Req : q # r => reqs'[q] = reqs[q]
<1>1. s \in InstallStages \ {"tar"} /\ s \in ListStages
  BY DEF InstallStages, CleansUp, ListStages
<1>2. CASE reqs[r] \in InstallT
  BY <1>1, <1>2, InstallGoto, KindType DEF TypeInv
<1>3. CASE reqs[r] \in UninstallT
  BY <1>1, <1>3, UninstallGoto, KindType DEF TypeInv
<1> QED
  BY <1>2, <1>3, AtListType

LEMMA Leaves ==
  ASSUME TypeInv, NEW r \in Req, AtList(r), Leave(r)
  PROVE  /\ reqs' \in [Req -> Handler]
         /\ reqs[r].kind = "install" =>
              /\ reqs'[r].kind = "install" /\ reqs'[r].stage = "clean"
              /\ reqs'[r].package = reqs[r].package /\ reqs'[r].alone = reqs[r].alone
         /\ reqs[r].kind = "uninstall" => reqs'[r].kind = "idle"
         /\ \A q \in Req : q # r => reqs'[q] = reqs[q]
<1>1. CASE reqs[r].kind = "install"
  <2>1. "clean" \in InstallStages \ {"tar"}
    BY DEF InstallStages, CleansUp
  <2>2. Goto(r, "clean") /\ reqs[r] \in InstallT
    BY <1>1, AtListType DEF Leave
  <2> QED
    BY <1>1, <2>1, <2>2, InstallGoto
<1>2. CASE reqs[r].kind = "uninstall"
  BY <1>2, HandlerEnds DEF Leave
<1> QED
  BY <1>1, <1>2, AtListType

\* The parts of the invariant that a step at the list is not about.
LEMMA ListAside ==
  ASSUME IInv, TypeInv', NEW r \in Req, AtList(r),
         \/ /\ reqs[r].kind = "install" /\ reqs'[r].kind = "install"
            /\ reqs'[r].stage \in {"write", "writing", "clean"}
            /\ reqs'[r].package = reqs[r].package /\ reqs'[r].alone = reqs[r].alone
         \/ reqs[r].kind = "uninstall" /\ reqs'[r].kind \in {"uninstall", "idle"},
         \A q \in Req : q # r => reqs'[q] = reqs[q],
         UNCHANGED <<files, unpacked, pkg_extract, limits, walks>>,
         history'.leftover = history.leftover, history'.updates = history.updates
  PROVE  QuotaInv' /\ ConfigInv' /\ ExtractInv'
<1>1. Stored' = Stored /\ Stored \in Nat
  BY StoredNat DEF IInv, Stored
<1>2. QuotaInv'
  BY <1>1, KeepQuota DEF IInv, QuotaInv
<1>3. ConfigInv'
  BY KeepConfig DEF IInv, At, AtList
<1>4. Installs' = Installs
  BY DEF Installs, AtList, ListStages, CleansUp
<1>5. \A q \in Installs : q = r /\ reqs[q].alone => /\ Installs = {r}
                                                  /\ reqs[q].package \in unpacked
  BY DEF IInv, ExtractInv, AtList, ListStages, Installs
<1>6. ASSUME NEW q \in Installs, reqs'[q].alone
      PROVE  /\ Installs' = {q}
             /\ reqs'[q].stage = "ar" => pkg_extract' = NoTars
             /\ reqs'[q].stage \in {"find", "tar"} => pkg_extract' = TarOf(reqs'[q].package)
             /\ reqs'[q].stage = "tar" => reqs'[q].tar = Format[reqs'[q].package]
             /\ reqs'[q].stage \in {"list", "write", "writing"}
                  => reqs'[q].package \in unpacked'
  <2>1. CASE q = r
    BY <1>4, <1>5, <1>6, <2>1 DEF Installs
  <2>2. CASE q # r
    BY <1>4, <1>6, <2>2 DEF IInv, ExtractInv, Installs
  <2> QED
    BY <2>1, <2>2
<1>7. ExtractInv'
  BY <1>4, <1>6 DEF ExtractInv, IInv
<1> QED
  BY <1>2, <1>3, <1>7

LEMMA ReadListInv ==
  ASSUME IInv, NEW r \in Req, starts' \in Nat, ReadList(r)
  PROVE  IInv'
<1> DEFINE p == reqs[r].package
<1>1. /\ TypeInv /\ AtList(r) /\ reqs[r].stage = "list" /\ r \notin Writers
      /\ UNCHANGED <<files, unpacked, deb, pkg_extract, packages, limits, walks, faults>>
  BY DEF IInv, ReadList, At, AtList, ListStages, disk, Writers
<1>2. /\ p \in Package /\ reqs[r].kind \in {"install", "uninstall"}
      /\ reqs[r].kind = "install" => reqs[r] \in InstallT
      /\ reqs[r].kind = "uninstall" => reqs[r] \in UninstallT
  BY <1>1, AtListType
<1>3. ASSUME Leave(r), packages # Torn \/ UNCHANGED history,
             \/ UNCHANGED history
             \/ history' = [history EXCEPT !.confirmed = @ \cup {p}] /\ p \in Listed
      PROVE  IInv'
  <2>1. /\ reqs' \in [Req -> Handler]
        /\ reqs[r].kind = "install" =>
             /\ reqs'[r].kind = "install" /\ reqs'[r].stage = "clean"
             /\ reqs'[r].package = reqs[r].package /\ reqs'[r].alone = reqs[r].alone
        /\ reqs[r].kind = "uninstall" => reqs'[r].kind = "idle"
        /\ \A q \in Req : q # r => reqs'[q] = reqs[q]
    BY <1>1, <1>3, Leaves
  <2>2. /\ history' \in [leftover : BOOLEAN, doubtful : SUBSET Package,
                         confirmed : SUBSET Package, crossed : BOOLEAN, updates : BOOLEAN]
        /\ history'.leftover = history.leftover /\ history'.updates = history.updates
        /\ history'.crossed = history.crossed /\ history'.doubtful = history.doubtful
        /\ \/ history'.confirmed = history.confirmed
           \/ history'.confirmed = history.confirmed \cup {p} /\ p \in Listed
    BY <1>1, <1>2, <1>3 DEF TypeInv
  <2>3. TypeInv'
    BY <1>1, <2>1, <2>2 DEF TypeInv
  <2>4. QuotaInv' /\ ConfigInv' /\ ExtractInv'
    BY <1>1, <1>2, <2>1, <2>2, <2>3, ListAside
  <2>5. Writers' \subseteq Writers /\ \A q \in Writers' : q # r /\ reqs'[q] = reqs[q]
    BY <1>1, <1>2, <2>1 DEF Writers
  <2>6. SeenInv'
    BY <1>1, <2>2, <2>5, KeepSeen DEF IInv
  <2>7. ListInv'
    <3>1. CASE history'.confirmed = history.confirmed
      BY <1>1, <2>2, <2>5, <3>1, KeepList DEF IInv
    <3>2. CASE packages # Torn /\ history'.confirmed = history.confirmed \cup {p} /\ p \in Listed
      <4>1. Listed' = Listed
        BY <1>1 DEF Listed
      <4>2. ~history.crossed => history'.confirmed \subseteq Listed
        BY <3>2 DEF IInv, ListInv, InstalledStaysListed
      <4>3. ~history.crossed => \A q \in Writers : reqs[q].stage # "writing"
        BY <3>2 DEF IInv, ListInv
      <4>4. InstalledStaysListed'
        BY <2>2, <4>1, <4>2 DEF InstalledStaysListed
      <4> QED
        BY <1>1, <2>2, <2>5, <4>1, <4>3, <4>4 DEF IInv, ListInv
    <3> QED
      BY <1>3, <2>2, <3>1, <3>2
  <2> QED
    BY <2>3, <2>4, <2>6, <2>7 DEF IInv
<1>4. ASSUME packages # Torn,
             reqs' = [reqs EXCEPT ![r].stage = "write", ![r].seen = Listed],
             history' = [history EXCEPT !.crossed = @ \/ Listing(r) # {}]
      PROVE  IInv'
  <2> DEFINE k == [reqs[r] EXCEPT !.stage = "write", !.seen = Listed]
  <2>1. Listed \in SUBSET Package
    BY <1>1, <1>4 DEF Listed, TypeInv
  <2>2. /\ k \in Handler /\ k.kind = reqs[r].kind /\ k.stage = "write" /\ k.seen = Listed
        /\ reqs[r].kind = "install" => k.package = p /\ k.alone = reqs[r].alone
    <3>1. CASE reqs[r] \in InstallT
      BY <2>1, <3>1 DEF InstallT, Handler, InstallStages, CleansUp
    <3>2. CASE reqs[r] \in UninstallT
      BY <2>1, <3>2, KindType DEF UninstallT, Handler, ListStages
    <3> QED
      BY <1>2, <3>1, <3>2
  <2>3. reqs' = [reqs EXCEPT ![r] = k]
    BY <1>1, <1>4 DEF TypeInv
  <2> HIDE DEF k
  <2>4. /\ reqs' \in [Req -> Handler] /\ reqs'[r] = k
        /\ \A q \in Req : q # r => reqs'[q] = reqs[q]
    BY <1>1, <2>2, <2>3 DEF TypeInv
  <2>5. Listing(r) = Writers
    BY <1>1, ListingWriters
  <2>6. /\ history' \in [leftover : BOOLEAN, doubtful : SUBSET Package,
                         confirmed : SUBSET Package, crossed : BOOLEAN, updates : BOOLEAN]
        /\ history'.leftover = history.leftover /\ history'.updates = history.updates
        /\ history'.confirmed = history.confirmed /\ history'.doubtful = history.doubtful
        /\ history'.crossed <=> (history.crossed \/ Writers # {})
    BY <1>1, <1>4, <2>5 DEF TypeInv
  <2>7. TypeInv'
    BY <1>1, <2>4, <2>6 DEF TypeInv
  <2>8. QuotaInv' /\ ConfigInv' /\ ExtractInv'
    BY <1>1, <1>2, <2>2, <2>4, <2>6, <2>7, ListAside
  <2>9. Writers' = Writers \cup {r}
    BY <1>2, <2>2, <2>4 DEF Writers
  <2>10. Listed' = Listed
    BY <1>1 DEF Listed
  <2>11. ListInv'
    <3>1. InstalledStaysListed'
      BY <1>1, <2>6, <2>10 DEF IInv, ListInv, InstalledStaysListed
    <3>2. ~history'.crossed => Writers' = {r}
      BY <2>6, <2>9
    <3> QED
      BY <1>1, <1>4, <2>2, <2>4, <2>10, <3>1, <3>2 DEF ListInv
  <2>12. SeenInv'
    <3>1. Listed \ history.doubtful \subseteq unpacked
      BY <1>4 DEF IInv, SeenInv, ListedIsUnpacked, Listed
    <3>2. ListedIsUnpacked'
      BY <1>1, <2>6 DEF IInv, SeenInv, ListedIsUnpacked
    <3>3. \A q \in Writers' : reqs'[q].seen \ history'.doubtful \subseteq unpacked
      <4>1. \A q \in Writers : reqs[q].seen \ history'.doubtful \subseteq unpacked
        BY <2>6 DEF IInv, SeenInv
      <4>2. \A q \in Writers : q # r => reqs'[q] = reqs[q]
        BY <2>4 DEF Writers
      <4>3. reqs'[r].seen \ history'.doubtful \subseteq unpacked
        BY <2>2, <2>4, <2>6, <3>1
      <4> QED
        BY <2>9, <4>1, <4>2, <4>3
    <3>4. unpacked' = unpacked
      BY <1>1
    <3> QED
      BY <3>2, <3>3, <3>4 DEF SeenInv
  <2> QED
    BY <2>7, <2>8, <2>11, <2>12 DEF IInv
<1> QED
  BY <1>3, <1>4 DEF ReadList, Unreadable

LEMMA CutListInv ==
  ASSUME IInv, NEW r \in Req, starts' \in Nat, CutList(r)
  PROVE  IInv'
<1>1. /\ TypeInv /\ AtList(r) /\ reqs[r].stage = "write" /\ r \in Writers
      /\ packages' = Torn /\ Goto(r, "writing")
      /\ UNCHANGED <<files, unpacked, deb, pkg_extract, limits, walks, faults, history>>
  BY DEF IInv, CutList, At, AtList, ListStages, Writers
<1>2. /\ reqs' \in [Req -> Handler] /\ reqs'[r].kind = reqs[r].kind
      /\ reqs'[r].stage = "writing" /\ reqs'[r].seen = reqs[r].seen
      /\ reqs[r].kind = "install" => /\ reqs'[r].package = reqs[r].package
                                     /\ reqs'[r].alone = reqs[r].alone
      /\ \A q \in Req : q # r => reqs'[q] = reqs[q]
  BY <1>1, ListGoto
<1>3. TypeInv'
  BY <1>1, <1>2 DEF TypeInv
<1>4. QuotaInv' /\ ConfigInv' /\ ExtractInv'
  BY <1>1, <1>2, <1>3, AtListType, ListAside
<1>5. Writers' = Writers /\ \A q \in Writers : reqs'[q].seen = reqs[q].seen
  BY <1>1, <1>2 DEF Writers
<1>6. ListInv'
  <2>1. InstalledStaysListed'
    BY <1>1 DEF InstalledStaysListed
  <2>2. ~history.crossed => Writers = {r} /\ history.confirmed \subseteq reqs[r].seen
    BY <1>1 DEF IInv, ListInv, InstalledStaysListed
  <2> QED
    BY <1>1, <1>2, <1>5, <2>1, <2>2 DEF ListInv
<1>7. SeenInv'
  BY <1>1, <1>5 DEF IInv, SeenInv, ListedIsUnpacked
<1> QED
  BY <1>3, <1>4, <1>6, <1>7 DEF IInv

LEMMA WriteListInv ==
  ASSUME IInv, NEW r \in Req, starts' \in Nat, WriteList(r)
  PROVE  IInv'
<1> DEFINE p == reqs[r].package
           install == reqs[r].kind = "install"
           value == IF install THEN reqs[r].seen \cup {p} ELSE reqs[r].seen \ {p}
           alone == packages = Torn /\ \A q \in Listing(r) : reqs[q].stage # "writing"
<1>1. /\ TypeInv /\ AtList(r) /\ reqs[r].stage = "writing" /\ r \in Writers
      /\ Leave(r) /\ packages' \in {value, Torn} /\ (alone => packages' = value)
      /\ UNCHANGED <<files, unpacked, deb, pkg_extract, limits, walks>>
  BY DEF IInv, WriteList, At, AtList, ListStages, Writers
<1> PICK closed \in BOOLEAN :
      /\ IF closed THEN UNCHANGED faults ELSE Fault
      /\ history' = [history EXCEPT
           !.confirmed = IF ~install THEN @ \ {p} ELSE IF closed THEN @ \cup {p} ELSE @,
           !.doubtful = IF ~install THEN @ ELSE IF reqs[r].alone THEN @ \ {p} ELSE @ \cup {p}]
  BY DEF WriteList
<1>2. /\ install => reqs[r] \in InstallT /\ r \in Installs
      /\ p \in Package /\ reqs[r].seen \in SUBSET Package
      /\ reqs[r].kind \in {"install", "uninstall"}
  BY <1>1, AtListType
<1>3. value \in SUBSET Package /\ value # None
  <2>1. value \in SUBSET Package
    BY <1>2
  <2> QED
    BY <2>1, PanelFilesAssumption
<1>4. /\ reqs' \in [Req -> Handler]
      /\ reqs[r].kind = "install" =>
           /\ reqs'[r].kind = "install" /\ reqs'[r].stage = "clean"
           /\ reqs'[r].package = reqs[r].package /\ reqs'[r].alone = reqs[r].alone
      /\ reqs[r].kind = "uninstall" => reqs'[r].kind = "idle"
      /\ \A q \in Req : q # r => reqs'[q] = reqs[q]
  BY <1>1, Leaves
<1>5. /\ history' \in [leftover : BOOLEAN, doubtful : SUBSET Package,
                       confirmed : SUBSET Package, crossed : BOOLEAN, updates : BOOLEAN]
      /\ history'.leftover = history.leftover /\ history'.updates = history.updates
      /\ history'.crossed = history.crossed
      /\ history'.confirmed = IF ~install THEN history.confirmed \ {p}
                              ELSE IF closed THEN history.confirmed \cup {p}
                              ELSE history.confirmed
      /\ history'.doubtful = IF ~install THEN history.doubtful
                             ELSE IF reqs[r].alone THEN history.doubtful \ {p}
                             ELSE history.doubtful \cup {p}
  BY <1>1, <1>2 DEF TypeInv
<1>6. TypeInv'
  <2>1. faults' \in Nat
    BY <1>1 DEF TypeInv, Fault
  <2> QED
    BY <1>1, <1>3, <1>4, <1>5, <2>1 DEF TypeInv
<1>7. QuotaInv' /\ ConfigInv' /\ ExtractInv'
  BY <1>1, <1>2, <1>4, <1>5, <1>6, ListAside
<1>8. Writers' = Writers \ {r} /\ \A q \in Writers' : reqs'[q] = reqs[q]
  BY <1>2, <1>4 DEF Writers
<1>9. ListInv'
  <2>1. ASSUME ~history.crossed
        PROVE  Writers' = {} /\ packages' = value /\ history'.confirmed \subseteq value
    <3>1. Writers = {r} /\ packages = Torn /\ history.confirmed \subseteq reqs[r].seen
      BY <1>1, <2>1 DEF IInv, ListInv
    <3>2. Listing(r) = {}
      BY <1>1, <3>1, ListingWriters
    <3> QED
      BY <1>1, <1>5, <1>8, <3>1, <3>2
  <2>2. InstalledStaysListed'
    BY <1>3, <1>5, <2>1 DEF InstalledStaysListed, Listed
  <2> QED
    BY <1>5, <2>1, <2>2 DEF ListInv
<1>10. SeenInv'
  <2>1. install /\ reqs[r].alone => p \in unpacked
    BY <1>1, <1>2 DEF IInv, ExtractInv
  <2>2. history.doubtful \subseteq history'.doubtful \cup unpacked
    BY <1>5, <2>1
  <2>3. reqs[r].seen \ history.doubtful \subseteq unpacked
    BY <1>1 DEF IInv, SeenInv
  <2>4. install => p \in unpacked \/ p \in history'.doubtful
    BY <1>5, <2>1
  <2>5. value \ history'.doubtful \subseteq unpacked
    BY <2>2, <2>3, <2>4
  <2>6. ListedIsUnpacked'
    BY <1>1, <2>5 DEF ListedIsUnpacked
  <2>7. \A q \in Writers' : reqs'[q].seen \ history'.doubtful \subseteq unpacked
    BY <1>8, <2>2 DEF IInv, SeenInv
  <2> QED
    BY <1>1, <2>6, <2>7 DEF SeenInv
<1> QED
  BY <1>6, <1>7, <1>9, <1>10 DEF IInv

-----------------------------------------------------------------------------
(* Configuration.                                                          *)

\* The parts of the invariant that a step of an update is not about.
LEMMA ConfigAside ==
  ASSUME IInv, UNCHANGED <<unpacked, pkg_extract, packages>>,
         \A q \in Req : \/ reqs'[q] = reqs[q]
                        \/ /\ reqs[q].kind \in {"config", "upload", "idle"}
                           /\ reqs'[q].kind \in {"config", "upload", "idle"},
         history'.leftover = history.leftover, history'.doubtful = history.doubtful,
         history'.confirmed = history.confirmed, history'.crossed = history.crossed
  PROVE  ListInv' /\ ExtractInv' /\ SeenInv'
<1>1. Writers' \subseteq Writers /\ \A q \in Writers' : reqs'[q] = reqs[q]
  BY DEF Writers
<1>2. Installs' = Installs /\ \A q \in Installs' : reqs'[q] = reqs[q]
  BY DEF Installs
<1>3. ListInv'
  BY <1>1, KeepList DEF IInv
<1>4. ExtractInv'
  BY <1>2, KeepExtract DEF IInv
<1>5. SeenInv'
  BY <1>1, KeepSeen DEF IInv
<1> QED
  BY <1>3, <1>4, <1>5

LEMMA UpdateConfigInv ==
  ASSUME IInv, NEW r \in Req, reqs[r] = Idle, starts' \in Nat,
         NEW limit \in Limit \cup {None}, UpdateConfig(r, limit)
  PROVE  IInv'
<1> DEFINE k == [kind |-> "config", stage |-> "read", limit |-> None, alone |-> Configs = {}]
<1>1. TypeInv /\ Updating(r) = Configs /\ r \notin Configs
  BY DEF IInv, Configs, Updating, Idle
<1>2. /\ reqs' = [q \in Req |-> IF q = r THEN k ELSE
                                IF q \in Configs THEN [reqs[q] EXCEPT !.alone = FALSE]
                                ELSE reqs[q]]
      /\ limits' = [limits EXCEPT !.config = IF limit = None THEN @ ELSE limit]
      /\ history' = [history EXCEPT !.updates = @ \/ Configs # {}]
      /\ UNCHANGED <<files, unpacked, deb, pkg_extract, packages, walks, faults>>
  BY <1>1 DEF UpdateConfig, disk
<1>3. /\ k \in ConfigT /\ k.kind = "config" /\ k.stage = "read" /\ k.alone = (Configs = {})
      /\ k \in Handler
  BY DEF ConfigT, Handler
<1>4. ASSUME NEW q \in Configs
      PROVE  LET j == [reqs[q] EXCEPT !.alone = FALSE]
             IN j \in Handler /\ j.kind = "config" /\ ~j.alone /\ j.stage = reqs[q].stage
  <2>1. reqs[q] \in ConfigT
    BY <1>1, KindType DEF Configs, TypeInv
  <2> QED
    BY <2>1 DEF ConfigT, Handler
<1> HIDE DEF k
<1>5. reqs' \in [Req -> Handler]
  BY <1>1, <1>2, <1>3, <1>4 DEF TypeInv
<1>6. /\ limits' \in [config : Limit, memory : Limit, saved : Limit \cup {Torn}]
      /\ limits'.memory = limits.memory /\ limits'.saved = limits.saved
  BY <1>1, <1>2 DEF TypeInv
<1>7. /\ history' \in [leftover : BOOLEAN, doubtful : SUBSET Package,
                       confirmed : SUBSET Package, crossed : BOOLEAN, updates : BOOLEAN]
      /\ history'.leftover = history.leftover /\ history'.doubtful = history.doubtful
      /\ history'.confirmed = history.confirmed /\ history'.crossed = history.crossed
      /\ history'.updates <=> (history.updates \/ Configs # {})
  BY <1>1, <1>2 DEF TypeInv
<1>8. TypeInv'
  BY <1>1, <1>2, <1>5, <1>6, <1>7 DEF TypeInv
<1>9. reqs'[r] = k /\ \A q \in Req : q # r =>
        \/ q \notin Configs /\ reqs'[q] = reqs[q]
        \/ /\ q \in Configs /\ reqs'[q].kind = "config" /\ ~reqs'[q].alone
           /\ reqs'[q].stage = reqs[q].stage
  BY <1>2, <1>4
<1>10. Configs' = Configs \cup {r}
  BY <1>3, <1>9 DEF Configs
<1>11. QuotaInv'
  <2>1. Stored' = Stored /\ Stored \in Nat
    BY <1>1, <1>2, StoredNat DEF Stored
  <2> QED
    BY <1>2, <1>3, <1>6, <1>8, <1>9, <2>1, KeepQuota DEF IInv, QuotaInv
<1>12. ListInv' /\ ExtractInv' /\ SeenInv'
  <2>1. \A q \in Req : \/ reqs'[q] = reqs[q]
                       \/ /\ reqs[q].kind \in {"config", "upload", "idle"}
                          /\ reqs'[q].kind \in {"config", "upload", "idle"}
    BY <1>3, <1>9 DEF Configs, Idle
  <2> QED
    BY <1>2, <1>7, <2>1, ConfigAside
<1>13. ConfigInv'
  <2>0. \A q \in Req : At(q, {"config"}, "assign") => At(q, {"config"}, "assign")'
    BY <1>1, <1>9 DEF At, Configs
  <2>1. LimitsSaved'
    BY <1>6, <1>7, <2>0 DEF IInv, ConfigInv, LimitsSaved
  <2>2. \A q \in Configs' : reqs'[q].alone => q = r /\ Configs = {}
    BY <1>3, <1>9, <1>10 DEF Configs
  <2>3. \A q \in Configs' : ~reqs'[q].alone => Configs # {}
    BY <1>3, <1>9, <1>10
  <2> QED
    BY <1>3, <1>7, <1>9, <1>10, <2>1, <2>2, <2>3 DEF ConfigInv
<1> QED
  BY <1>8, <1>11, <1>12, <1>13 DEF IInv

LEMMA ReadConfigInv ==
  ASSUME IInv, NEW r \in Req, starts' \in Nat, ReadConfig(r)
  PROVE  IInv'
<1>1. /\ TypeInv /\ reqs[r].kind = "config" /\ reqs[r] \in ConfigT /\ r \in Configs
      /\ UNCHANGED <<files, unpacked, deb, pkg_extract, packages, limits, walks, faults, history>>
      /\ reqs[r].stage = "read"
  BY KindType DEF IInv, TypeInv, ReadConfig, At, Configs, disk
<1>2. Stored' = Stored /\ Stored \in Nat
  BY <1>1, StoredNat DEF Stored
<1>3. CASE End(r)
  <2>1. /\ reqs' \in [Req -> Handler] /\ reqs'[r].kind = "idle"
        /\ \A q \in Req : q # r => reqs'[q] = reqs[q]
    BY <1>1, <1>3, HandlerEnds
  <2>2. TypeInv'
    BY <1>1, <2>1 DEF TypeInv
  <2>3. QuotaInv'
    BY <1>1, <1>2, <2>1, <2>2, KeepQuota DEF IInv, QuotaInv
  <2>4. ConfigInv'
    BY <1>1, <2>1, KeepConfig DEF IInv, At
  <2>5. ListInv' /\ ExtractInv' /\ SeenInv'
    BY <1>1, <2>1, ConfigAside
  <2> QED
    BY <2>2, <2>3, <2>4, <2>5 DEF IInv
<1>4. CASE reqs' = [reqs EXCEPT ![r].stage = "write", ![r].limit = limits.config]
  <2> DEFINE k == [reqs[r] EXCEPT !.stage = "write", !.limit = limits.config]
  <2>1. /\ k \in Handler /\ k.kind = "config" /\ k.limit = limits.config
        /\ k.stage = "write" /\ k.alone = reqs[r].alone
    BY <1>1 DEF ConfigT, Handler, TypeInv
  <2>2. reqs' = [reqs EXCEPT ![r] = k]
    BY <1>1, <1>4 DEF TypeInv
  <2> HIDE DEF k
  <2>3. /\ reqs' \in [Req -> Handler] /\ reqs'[r] = k
        /\ \A q \in Req : q # r => reqs'[q] = reqs[q]
    BY <1>1, <2>1, <2>2 DEF TypeInv
  <2>4. TypeInv'
    BY <1>1, <2>3 DEF TypeInv
  <2>5. QuotaInv'
    BY <1>1, <1>2, <2>1, <2>3, <2>4, KeepQuota DEF IInv, QuotaInv
  <2>6. ListInv' /\ ExtractInv' /\ SeenInv'
    BY <1>1, <2>1, <2>3, ConfigAside
  <2>7. Configs' = Configs
    BY <1>1, <2>1, <2>3 DEF Configs
  <2>8. LimitsSaved'
    BY <1>1, <2>1, <2>3 DEF IInv, ConfigInv, LimitsSaved, At
  <2>9. ConfigInv'
    BY <1>1, <2>1, <2>3, <2>7, <2>8 DEF IInv, ConfigInv, Configs
  <2> QED
    BY <2>4, <2>5, <2>6, <2>9 DEF IInv
<1> QED
  BY <1>3, <1>4 DEF ReadConfig

LEMMA CutConfigInv ==
  ASSUME IInv, NEW r \in Req, starts' \in Nat, CutConfig(r)
  PROVE  IInv'
<1>1. /\ TypeInv /\ reqs[r].kind = "config" /\ reqs[r] \in ConfigT /\ r \in Configs
      /\ reqs[r].stage = "write" /\ Goto(r, "writing")
      /\ limits' = [limits EXCEPT !.saved = Torn]
      /\ UNCHANGED <<files, unpacked, deb, pkg_extract, packages, walks, faults, history>>
  BY KindType DEF IInv, TypeInv, CutConfig, At, Configs, disk
<1>2. Stored' = Stored /\ Stored \in Nat
  BY <1>1, StoredNat DEF Stored
<1>3. /\ limits' \in [config : Limit, memory : Limit, saved : Limit \cup {Torn}]
      /\ limits'.memory = limits.memory /\ limits'.config = limits.config
      /\ limits'.saved = Torn
  BY <1>1 DEF TypeInv
<1>4. /\ reqs' \in [Req -> Handler] /\ reqs'[r].kind = "config"
      /\ reqs'[r].limit = reqs[r].limit /\ reqs'[r].alone = reqs[r].alone
      /\ \A q \in Req : q # r => reqs'[q] = reqs[q]
  BY <1>1, ConfigGoto
<1>5. TypeInv'
  BY <1>1, <1>3, <1>4 DEF TypeInv
<1>6. QuotaInv'
  BY <1>1, <1>2, <1>3, <1>4, <1>5, KeepQuota DEF IInv, QuotaInv
<1>7. ListInv' /\ ExtractInv' /\ SeenInv'
  BY <1>1, <1>4, ConfigAside
<1>8. Configs' = Configs
  BY <1>1, <1>4 DEF Configs
<1>9. LimitsSaved'
  BY <1>3 DEF LimitsSaved
<1>10. ConfigInv'
  BY <1>1, <1>3, <1>4, <1>8, <1>9 DEF IInv, ConfigInv, Configs
<1> QED
  BY <1>5, <1>6, <1>7, <1>10 DEF IInv

LEMMA WriteConfigInv ==
  ASSUME IInv, NEW r \in Req, starts' \in Nat, WriteConfig(r)
  PROVE  IInv'
<1>1. /\ TypeInv /\ reqs[r].kind = "config" /\ reqs[r] \in ConfigT /\ r \in Configs
      /\ reqs[r].stage = "writing" /\ reqs[r].limit \in Limit /\ Goto(r, "assign")
      /\ UNCHANGED <<files, unpacked, deb, pkg_extract, packages, walks, faults, history>>
  BY KindType DEF IInv, TypeInv, WriteConfig, At, Configs, disk, ConfigT
<1>2. PICK v \in {reqs[r].limit, Torn} : limits' = [limits EXCEPT !.saved = v]
  BY DEF WriteConfig
<1>3. /\ limits' \in [config : Limit, memory : Limit, saved : Limit \cup {Torn}]
      /\ limits'.memory = limits.memory /\ limits'.config = limits.config
      /\ limits'.saved = v
  BY <1>1, <1>2 DEF TypeInv
<1>4. /\ reqs' \in [Req -> Handler] /\ reqs'[r].kind = "config" /\ reqs'[r].stage = "assign"
      /\ reqs'[r].limit = reqs[r].limit /\ reqs'[r].alone = reqs[r].alone
      /\ \A q \in Req : q # r => reqs'[q] = reqs[q]
  BY <1>1, ConfigGoto
<1>5. TypeInv'
  BY <1>1, <1>3, <1>4 DEF TypeInv
<1>6. Stored' = Stored
  BY <1>1 DEF Stored
<1>7. QuotaInv'
  BY <1>1, <1>3, <1>4, <1>5, <1>6, KeepQuota DEF IInv, QuotaInv
<1>8. ListInv' /\ ExtractInv' /\ SeenInv'
  BY <1>1, <1>4, ConfigAside
<1>9. Configs' = Configs
  BY <1>1, <1>4 DEF Configs
<1>10. LimitsSaved'
  BY <1>4 DEF LimitsSaved, At
<1>11. \A q \in Configs : q # r => ~reqs[q].alone
  BY <1>1 DEF IInv, ConfigInv
<1>12. ConfigInv'
  <2>1. ASSUME NEW q \in Configs
        PROVE  /\ reqs'[q].alone => Configs' = {q}
               /\ ~reqs'[q].alone => history'.updates
               /\ reqs'[q].alone => reqs'[q].limit = limits'.config
                                    /\ limits'.saved \in {reqs'[q].limit, Torn}
    <3>1. CASE q = r
      BY <1>1, <1>2, <1>3, <1>4, <1>9, <3>1 DEF IInv, ConfigInv
    <3>2. CASE q # r
      BY <1>1, <1>4, <1>11, <2>1, <3>2 DEF IInv, ConfigInv, Configs
    <3> QED
      BY <3>1, <3>2
  <2> QED
    BY <1>9, <1>10, <2>1 DEF ConfigInv
<1> QED
  BY <1>5, <1>7, <1>8, <1>12 DEF IInv

\* A lower limit is in the excess of the uploads that were let through.
LEMMA AssignQuota ==
  ASSUME IInv, TypeInv', NEW r \in Req, AssignLimits(r)
  PROVE  QuotaInv'
<1> DEFINE cut == Less(limits.memory, limits.config)
<1>1. /\ TypeInv /\ Stored' = Stored /\ Stored \in Nat
      /\ reqs'[r] = Idle /\ \A q \in Req : q # r => reqs'[q] = reqs[q]
  BY HandlerEnds, StoredNat DEF IInv, AssignLimits, disk, Stored
<1>2. /\ limits.memory \in Nat /\ limits.config \in Nat
      /\ limits'.memory = limits.config
  BY <1>1, PanelFilesAssumption DEF TypeInv, AssignLimits
<1>3. cut \in Nat /\ limits.memory - limits.config <= cut
  BY <1>2, LessNat
<1>4. walks' = [q \in Req |-> IF At(q, {"upload"}, "move")
                              THEN [walks[q] EXCEPT !.excess = @ + cut] ELSE walks[q]]
  BY DEF AssignLimits
<1> HIDE DEF cut
<1>5. \A q \in Req : walks[q] \in Walk /\ walks[q].excess \in Nat
  BY DEF IInv, QuotaInv, Walk
<1>6. \A q \in Req : At(q, {"upload"}, "move") =>
        walks'[q] \in Walk /\ walks'[q].excess = walks[q].excess + cut
  <2> SUFFICES ASSUME NEW q \in Req, At(q, {"upload"}, "move")
               PROVE  walks'[q] \in Walk /\ walks'[q].excess = walks[q].excess + cut
    OBVIOUS
  <2> DEFINE more == walks[q].excess + cut
  <2>1. more \in Nat
    BY <1>3, <1>5
  <2>2. walks'[q] = [walks[q] EXCEPT !.excess = more]
    BY <1>4
  <2> HIDE DEF more
  <2>3. walks'[q] \in Walk /\ walks'[q].excess = more
    BY <1>5, <2>1, <2>2 DEF Walk
  <2> QED
    BY <2>3 DEF more
<1>7. \A q \in Req : ~At(q, {"upload"}, "move") => walks'[q] = walks[q]
  BY <1>4
<1>8. walks' \in [Req -> Walk]
  BY <1>4, <1>5, <1>6, <1>7
<1>9. ASSUME NEW q \in Req, reqs'[q].kind = "upload"
      PROVE  /\ reqs'[q].stage = "measure" => Stored' <= walks'[q].low + walks'[q].excess
             /\ reqs'[q].stage = "move"
                  => Stored' + reqs'[q].size <= limits'.memory + walks'[q].excess
  <2>1. reqs'[q] = reqs[q] /\ reqs[q] \in UploadT
    BY <1>1, <1>9, KindType DEF Idle, TypeInv
  <2>2. reqs[q].size \in Nat
    BY <2>1, PanelFilesAssumption DEF UploadT
  <2>3. CASE reqs[q].stage = "move"
    <3>1. At(q, {"upload"}, "move")
      BY <1>9, <2>1, <2>3 DEF At
    <3>2. Stored + reqs[q].size <= limits.memory + walks[q].excess
      BY <1>9, <2>1, <2>3 DEF IInv, QuotaInv
    <3>3. Stored + reqs[q].size <= limits.config + (walks[q].excess + cut)
      BY <1>1, <1>2, <1>3, <1>5, <2>2, <3>2
    <3>4. walks'[q].excess = walks[q].excess + cut
      BY <1>6, <3>1
    <3> QED
      BY <1>1, <1>2, <2>1, <2>3, <3>3, <3>4
  <2>4. CASE reqs[q].stage # "move"
    <3>1. walks'[q] = walks[q]
      BY <1>7, <2>4 DEF At
    <3> QED
      BY <1>1, <1>9, <2>1, <2>4, <3>1 DEF IInv, QuotaInv
  <2> QED
    BY <2>3, <2>4
<1> QED
  BY <1>8, <1>9 DEF QuotaInv

LEMMA AssignLimitsInv ==
  ASSUME IInv, NEW r \in Req, starts' \in Nat, AssignLimits(r)
  PROVE  IInv'
<1>1. /\ TypeInv /\ reqs[r].kind = "config" /\ reqs[r] \in ConfigT /\ r \in Configs
      /\ reqs[r].stage = "assign" /\ End(r)
      /\ limits' = [limits EXCEPT !.memory = limits.config]
      /\ history' = [history EXCEPT !.updates = @ /\ ~reqs[r].alone]
      /\ UNCHANGED <<files, unpacked, deb, pkg_extract, packages, faults>>
  BY KindType DEF IInv, TypeInv, AssignLimits, At, Configs, disk
<1>2. /\ limits' \in [config : Limit, memory : Limit, saved : Limit \cup {Torn}]
      /\ limits'.memory = limits.config /\ limits'.config = limits.config
      /\ limits'.saved = limits.saved
  BY <1>1 DEF TypeInv
<1>3. /\ reqs' \in [Req -> Handler] /\ reqs'[r] = Idle /\ reqs'[r].kind = "idle"
      /\ \A q \in Req : q # r => reqs'[q] = reqs[q]
  BY <1>1, HandlerEnds
<1>4. /\ history' \in [leftover : BOOLEAN, doubtful : SUBSET Package,
                       confirmed : SUBSET Package, crossed : BOOLEAN, updates : BOOLEAN]
      /\ history'.leftover = history.leftover /\ history'.doubtful = history.doubtful
      /\ history'.confirmed = history.confirmed /\ history'.crossed = history.crossed
      /\ history'.updates <=> (history.updates /\ ~reqs[r].alone)
  <2>1. reqs[r].alone \in BOOLEAN
    BY <1>1 DEF ConfigT
  <2> QED
    BY <1>1, <2>1 DEF TypeInv
<1>5. TypeInv'
  BY <1>1, <1>2, <1>3, <1>4 DEF TypeInv
<1>6. QuotaInv'
  BY <1>5, AssignQuota
<1>7. ListInv' /\ ExtractInv' /\ SeenInv'
  BY <1>1, <1>3, <1>4, ConfigAside
<1>8. Configs' = Configs \ {r} /\ \A q \in Configs' : reqs'[q] = reqs[q]
  BY <1>3 DEF Configs
<1>9. ~history'.updates => reqs[r].alone
  BY <1>1, <1>4 DEF IInv, ConfigInv
<1>10. reqs[r].alone => Configs' = {} /\ limits.saved \in {limits.config, Torn}
  BY <1>1, <1>8 DEF IInv, ConfigInv
<1>11. LimitsSaved'
  BY <1>2, <1>9, <1>10 DEF LimitsSaved
<1>12. \A q \in Configs' : ~reqs'[q].alone
  BY <1>1, <1>8 DEF IInv, ConfigInv
<1>13. ConfigInv'
  BY <1>9, <1>10, <1>11, <1>12 DEF ConfigInv
<1> QED
  BY <1>5, <1>6, <1>7, <1>13 DEF IInv

-----------------------------------------------------------------------------
(* Failures, restarts, and the theorems.                                   *)

LEMMA FailsInv ==
  ASSUME IInv, NEW r \in Req, starts' \in Nat, Fails(r)
  PROVE  IInv'
<1>1. /\ TypeInv /\ faults' \in Nat /\ reqs[r] # Idle
      /\ history' = [history EXCEPT !.leftover = @ \/ reqs[r].stage = "clean",
                                    !.updates = @ \/ reqs[r].stage = "assign"]
      /\ UNCHANGED <<files, unpacked, deb, pkg_extract, packages, limits>>
  BY DEF IInv, TypeInv, Fails, Fault, disk
<1>2. /\ history' \in [leftover : BOOLEAN, doubtful : SUBSET Package,
                       confirmed : SUBSET Package, crossed : BOOLEAN, updates : BOOLEAN]
      /\ history'.doubtful = history.doubtful
      /\ history'.updates <=> (history.updates \/ reqs[r].stage = "assign")
      /\ history'.confirmed = history.confirmed /\ history'.crossed = history.crossed
      /\ history'.leftover <=> (history.leftover \/ reqs[r].stage = "clean")
  BY <1>1 DEF TypeInv
<1>3. /\ Stored' = Stored /\ Stored \in Nat /\ history.updates \in BOOLEAN
      /\ walks' \in [Req -> Walk] /\ \A q \in Req : q # r => walks'[q] = walks[q]
  BY <1>1, StoredNat, WalkEnds DEF Stored, Fails, TypeInv
<1>4. ASSUME reqs[r].kind = "install", reqs[r].stage \in CleansUp \ {"clean"}, Goto(r, "clean")
      PROVE  IInv'
  <2>1. reqs[r] \in InstallT /\ "clean" \in InstallStages \ {"tar"} /\ "clean" \in CleansUp
    BY <1>1, <1>4, KindType DEF TypeInv, InstallStages, CleansUp
  <2>2. /\ reqs' \in [Req -> Handler] /\ reqs'[r].kind = "install"
        /\ reqs'[r].stage = "clean" /\ reqs'[r].alone = reqs[r].alone
        /\ \A q \in Req : q # r => reqs'[q] = reqs[q]
    BY <1>1, <1>4, <2>1, InstallGoto
  <2>3. TypeInv'
    BY <1>1, <1>2, <2>2 DEF TypeInv
  <2>4. QuotaInv'
    BY <1>1, <1>3, <2>2, <2>3, KeepQuota DEF IInv
  <2>5. ConfigInv' /\ ListInv' /\ SeenInv'
    BY <1>1, <1>2, <1>3, <1>4, <2>2, ExtractAside DEF CleansUp
  <2>6. Installs' = Installs /\ r \in Installs
    BY <1>4, <2>1, <2>2 DEF Installs
  <2>7. reqs[r].alone => Installs = {r}
    BY <2>6 DEF IInv, ExtractInv
  <2>8. \A q \in Installs : q # r => ~reqs[q].alone
    BY <2>6 DEF IInv, ExtractInv
  <2>9. ExtractInv'
    BY <2>2, <2>6, <2>7, <2>8 DEF ExtractInv, Installs
  <2> QED
    BY <2>3, <2>4, <2>5, <2>9 DEF IInv
<1>5. ASSUME End(r), ~(reqs[r].kind = "install" /\ reqs[r].stage \in CleansUp \ {"clean"})
      PROVE  IInv'
  <2>1. /\ reqs' \in [Req -> Handler] /\ reqs'[r].kind = "idle"
        /\ \A q \in Req : q # r => reqs'[q] = reqs[q]
    BY <1>1, <1>5, HandlerEnds
  <2>2. TypeInv'
    BY <1>1, <1>2, <2>1 DEF TypeInv
  <2>3. QuotaInv'
    BY <1>1, <1>3, <2>1, <2>2, KeepQuota DEF IInv
  <2>4. ConfigInv'
    <3>1. CASE At(r, {"config"}, "assign")
      <4>1. Configs' \subseteq Configs /\ \A q \in Configs' : reqs'[q] = reqs[q] /\ q # r
        BY <2>1 DEF Configs
      <4>2. history'.updates
        BY <1>2, <3>1 DEF At
      <4>3. r \in Configs
        BY <3>1 DEF At, Configs
      <4>4. \A q \in Configs' : ~reqs'[q].alone
        BY <4>1, <4>3 DEF IInv, ConfigInv
      <4> QED
        BY <4>2, <4>4 DEF ConfigInv, LimitsSaved
    <3>2. CASE ~At(r, {"config"}, "assign")
      <4>1. reqs[r].stage = "assign" => reqs[r].kind = "config"
        BY <1>1, KindType DEF TypeInv, Handler, UploadT, InstallT, UninstallT, InstallStages,
           ListStages, CleansUp
      <4>2. history'.updates = history.updates
        BY <1>2, <1>3, <3>2, <4>1 DEF At
      <4>3. \A q \in Req : At(q, {"config"}, "assign") => reqs'[q] = reqs[q]
        BY <2>1, <3>2
      <4> QED
        BY <1>1, <2>1, <4>2, <4>3, KeepConfig DEF IInv
    <3> QED
      BY <3>1, <3>2
  <2>5. \A q \in Writers' : q \in Writers /\ reqs'[q] = reqs[q]
    BY <2>1 DEF Writers
  <2>6. ListInv'
    BY <1>1, <1>2, <2>5, KeepList DEF IInv
  <2>7. SeenInv'
    BY <1>1, <1>2, <2>5, KeepSeen DEF IInv
  <2>8. Installs' = Installs \ {r} /\ \A q \in Installs' : reqs'[q] = reqs[q]
    BY <2>1 DEF Installs
  <2>9. r \in Installs => reqs[r].stage = "clean"
    BY <1>5 DEF Installs
  <2>10. pkg_extract' # None => history'.leftover \/ Installs' # {}
    BY <1>1, <1>2, <2>8, <2>9 DEF IInv, ExtractInv
  <2>11. \A q \in Installs' : reqs[q].alone => Installs' = {q}
    BY <2>8 DEF IInv, ExtractInv
  <2>12. ExtractInv'
    BY <1>1, <2>8, <2>10, <2>11 DEF IInv, ExtractInv
  <2> QED
    BY <2>2, <2>3, <2>4, <2>6, <2>7, <2>12 DEF IInv
<1> QED
  BY <1>4, <1>5 DEF Fails

LEMMA RestartInv ==
  ASSUME IInv, starts' \in Nat, Restart
  PROVE  IInv'
<1> DEFINE limit == IF limits.saved = Torn THEN DefaultLimit ELSE limits.saved
<1>1. /\ TypeInv /\ faults' \in Nat /\ reqs' = [r \in Req |-> Idle]
      /\ limits' = [limits EXCEPT !.config = limit, !.memory = limit]
      /\ history' = [history EXCEPT !.leftover = pkg_extract # None, !.updates = FALSE]
      /\ UNCHANGED <<files, unpacked, deb, pkg_extract, packages>>
  BY DEF IInv, TypeInv, Restart, Fault, disk
<1>2. limit \in Limit
  BY <1>1, PanelFilesAssumption DEF TypeInv
<1>3. /\ limits' \in [config : Limit, memory : Limit, saved : Limit \cup {Torn}]
      /\ limits'.memory = limit /\ limits'.saved = limits.saved
  BY <1>1, <1>2 DEF TypeInv
<1>4. /\ history' \in [leftover : BOOLEAN, doubtful : SUBSET Package,
                       confirmed : SUBSET Package, crossed : BOOLEAN, updates : BOOLEAN]
      /\ history'.doubtful = history.doubtful /\ history'.crossed = history.crossed
      /\ history'.confirmed = history.confirmed
      /\ history'.leftover <=> (pkg_extract # None)
  BY <1>1 DEF TypeInv
<1>5. \A r \in Req : reqs'[r] \in Handler /\ reqs'[r].kind = "idle"
  BY <1>1 DEF Handler, Idle
<1>6. TypeInv'
  BY <1>1, <1>3, <1>4, <1>5 DEF TypeInv
<1>7. QuotaInv'
  <2>1. walks' \in [Req -> Walk]
    BY NoWalkType DEF Restart
  <2> QED
    BY <1>5, <2>1 DEF QuotaInv
<1>8. Configs' = {} /\ Writers' = {} /\ Installs' = {}
  BY <1>5 DEF Configs, Writers, Installs
<1>9. LimitsSaved'
  BY <1>3 DEF LimitsSaved
<1>10. ListInv'
  BY <1>1, <1>4, <1>8 DEF IInv, ListInv, InstalledStaysListed, Listed
<1>11. SeenInv'
  BY <1>1, <1>4, <1>8 DEF IInv, SeenInv, ListedIsUnpacked
<1>12. ExtractInv'
  BY <1>1, <1>4, <1>8 DEF ExtractInv
<1> QED
  BY <1>6, <1>7, <1>8, <1>9, <1>10, <1>11, <1>12 DEF IInv, ConfigInv

LEMMA InitInv == Init => IInv
<1> SUFFICES ASSUME Init PROVE IInv
  OBVIOUS
<1>1. /\ \A r \in Req : reqs[r] \in Handler /\ reqs[r].kind = "idle"
      /\ reqs = [r \in Req |-> Idle]
  BY DEF Init, Handler, Idle
<1>2. limits \in [config : Limit, memory : Limit, saved : Limit \cup {Torn}]
  BY DEF Init
<1>3. TypeInv
  BY <1>1, <1>2 DEF Init, TypeInv
<1>4. Configs = {} /\ Writers = {} /\ Installs = {}
  BY <1>1 DEF Configs, Writers, Installs
<1>5. QuotaInv
  BY <1>1, NoWalkType DEF Init, QuotaInv
<1>6. ConfigInv
  BY <1>4 DEF Init, ConfigInv, LimitsSaved
<1>7. ListInv /\ ExtractInv /\ SeenInv
  BY <1>4 DEF Init, ListInv, ExtractInv, SeenInv, InstalledStaysListed, ListedIsUnpacked
<1> QED
  BY <1>3, <1>5, <1>6, <1>7 DEF IInv

LEMMA NextInv == IInv /\ [Next]_vars => IInv'
<1> SUFFICES ASSUME IInv, [Next]_vars PROVE IInv'
  OBVIOUS
<1>1. starts \in Nat
  BY DEF IInv, TypeInv
<1>2. ASSUME NEW r \in Req, Start(r) PROVE IInv'
  BY <1>1, <1>2, UploadInv, InstallInv, UninstallInv, UpdateConfigInv DEF Start
<1>3. ASSUME NEW r \in Req, Proceed(r), UNCHANGED starts PROVE IInv'
  BY <1>1, <1>3, StatFailsInv, MeasuredInv, MovedInv, DownloadInv, MakeDirInv, ArInv, FindTarInv, TarInv,
     ReadListInv, CutListInv, WriteListInv, RemoveDirInv, ReadConfigInv, CutConfigInv,
     WriteConfigInv,
     AssignLimitsInv, FailsInv DEF Proceed
<1>4. ASSUME WriteFile \/ RemoveFile \/ RenameFile \/ Restart, UNCHANGED starts PROVE IInv'
  BY <1>1, <1>4, FilesInv, RestartInv
<1>5. CASE UNCHANGED vars
  BY <1>5 DEF vars, disk, IInv, TypeInv, QuotaInv, ConfigInv, LimitsSaved, Configs, ListInv,
     Writers, InstalledStaysListed, Listed, ExtractInv, Installs, SeenInv, ListedIsUnpacked,
     Stored, At
<1> QED
  BY <1>2, <1>3, <1>4, <1>5 DEF Next

LEMMA Invariance == Spec => []IInv
BY InitInv, NextInv, PTL DEF Spec

\* What the account's directory holds when an upload is moved in.
LEMMA MoveFits ==
  ASSUME IInv, NEW r \in Req, Moved(r)
  PROVE  Stored' <= limits.memory + walks[r].excess
<1>1. TypeInv /\ reqs[r] \in UploadT /\ reqs[r].kind = "upload" /\ reqs[r].stage = "move"
  BY KindType DEF IInv, TypeInv, Moved, At
<1>2. PICK replaced \in Size \cup {0} :
        replaced <= files /\ files' = files + reqs[r].size - replaced
  BY DEF Moved
<1>3. /\ replaced \in Nat /\ reqs[r].size \in Nat /\ files \in Nat
      /\ Cardinality(unpacked) \in Nat /\ limits.memory \in Nat /\ walks[r].excess \in Nat
  <2>1. Size \cup {0} \subseteq Nat /\ Limit \subseteq Nat
    BY PanelFilesAssumption
  <2>2. reqs[r].size \in Size /\ limits.memory \in Limit /\ files \in Nat
    BY <1>1 DEF UploadT, TypeInv
  <2>3. Cardinality(unpacked) \in Nat
    BY <1>1, PackagesNat DEF TypeInv
  <2>4. walks[r].excess \in Nat
    BY DEF IInv, QuotaInv, Walk
  <2> QED
    BY <2>1, <2>2, <2>3, <2>4
<1>4. Stored + reqs[r].size <= limits.memory + walks[r].excess
  BY <1>1 DEF IInv, QuotaInv
<1>5. Stored' = files' + Cardinality(unpacked)
  BY DEF Moved, Stored
<1> QED
  BY <1>2, <1>3, <1>4, <1>5 DEF Stored

\* An upload takes the account over its limit by no more than what was stored,
\* renamed or unreadable while its walk of getDirSize was under way, and what was
\* stored or the limit lowered by after it: the check of upload-files loses
\* nothing else over its awaits.
THEOREM QuotaAlwaysKept == Spec => QuotaKept
<1>1. IInv /\ [Next]_vars =>
        [\A r \in Req : (Moved(r) /\ Stored' > Stored)
                          => Stored' <= limits.memory + walks[r].excess]_vars
  BY MoveFits
<1> QED
  BY <1>1, Invariance, PTL DEF Spec, QuotaKept

\* The update of the configuration leaves config.json with the limits in force,
\* after any failures and restarts, unless two updates met, the file was cut, or
\* a handler has written it and has not assigned LIMITS, or never will.
THEOREM LimitsAlwaysSaved == Spec => []LimitsSaved
<1>1. IInv => LimitsSaved
  BY DEF IInv, ConfigInv
<1> QED
  BY <1>1, Invariance, PTL

\* installed_packages.json keeps every package whose installation was answered,
\* as long as no two handlers have read it before either wrote.
THEOREM InstalledAlwaysListed == Spec => []InstalledStaysListed
<1>1. IInv => InstalledStaysListed
  BY DEF IInv, ListInv
<1> QED
  BY <1>1, Invariance, PTL

\* installed_packages.json lists no package that tar did not unpack, unless its
\* installation shared pkg_extract or found a leftover there.
THEOREM ListedAlwaysUnpacked == Spec => []ListedIsUnpacked
<1>1. IInv => ListedIsUnpacked
  BY DEF IInv, SeenInv
<1> QED
  BY <1>1, Invariance, PTL
=============================================================================
