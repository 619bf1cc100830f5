-------------------------------- MODULE Panel --------------------------------
(***************************************************************************)
(* The v87 panel: accounts, server records, the running virtual machines   *)
(* and the directories on disk, as src/panel/server.js changes them for a  *)
(* signed-in user.                                                         *)
(*                                                                         *)
(* Node.js runs one piece of JavaScript at a time, so what a handler does  *)
(* between two awaits is one action here.  A handler that awaits leaves a  *)
(* record in reqs, which holds the variables it captured, and continues    *)
(* from it in a later action; anything may happen in between.  db.js loads *)
(* and saves its JSON file synchronously, so a database operation is part  *)
(* of the action that calls it.                                            *)
(***************************************************************************)
EXTENDS Integers, FiniteSets, FiniteSetsExt

CONSTANTS
  Users,          \* the accounts that may register
  MaxNow,         \* bound on the clock that server ids are read from
  MaxRecords,     \* bound on the places of the array in servers.json
  MaxRequests,    \* bound on the asynchronous handlers in flight
  MaxFaults,      \* bound on restarts and failed file operations
  RamInputs,      \* the sizes a client may ask for
  MinRam,         \* server.js asks for 512 MB at least
  DefaultRam,     \* what vm_runner.js gives a machine of no size: 256 MB
  LimitServers,   \* LIMITS.maxServers
  LimitRam,       \* LIMITS.maxRam
  OneCreatePerMs  \* TRUE: no two creations read the same Date.now()

\* parseInt of a field that holds no number.  Every comparison with NaN is
\* false; JSON.stringify stores it as null, which adds nothing to a sum.
NaN == -1

ASSUME PanelAssumption ==
  /\ MaxNow \in Nat /\ MaxRecords \in Nat
  /\ MaxRequests \in Nat /\ MaxFaults \in Nat
  /\ RamInputs \subseteq Nat \cup {NaN}
  /\ MinRam \in Nat /\ DefaultRam \in Nat
  /\ LimitServers \in Nat /\ LimitRam \in Nat
  /\ OneCreatePerMs \in BOOLEAN

VARIABLES
  now,       \* Date.now()
  users,     \* users.json
  tokens,    \* every token ever issued: none expires, none is revoked
  servers,   \* servers.json
  progress,  \* the keys of creationProgress
  running,   \* runningVMs
  disk,      \* what each server directory holds
  reqs,      \* the handlers that wait for an await
  faults     \* restarts and failed file operations so far

vars == <<now, users, tokens, servers, progress, running, disk, reqs, faults>>

-----------------------------------------------------------------------------
(* Values *)

Ids == 1 .. MaxNow
Slots == 1 .. MaxRequests
Roles == {"admin", "user"}

\* An account.  A limit of 0 is one the account does not set for itself.
Limits == [maxServers : Nat, maxRam : Nat]
NoLimits == [maxServers |-> 0, maxRam |-> 0]
Account == [role : Roles \cup {"none", "deleted"}, suspended : BOOLEAN,
            limits : Limits]
NewAccount(r) == [role |-> r, suspended |-> FALSE, limits |-> NoLimits]

\* A token holds the id and the role the account had when it was issued.
Token == [id : Users, role : Roles]

\* A server record; pos is its place in the array.
Server == [pos : 1 .. MaxRecords, id : Ids, owner : Users, ram : Nat,
           status : {"creating", "ready"}, suspended : BOOLEAN]

\* A machine keeps the directory and the memory size it was started with.
VM == [id : Ids, owner : Users, ram : Nat]

\* users_data/<user>/servers/<id>: absent, being unpacked, short of files it
\* should hold, or complete.
Dirs == Users \X Ids
Contents == {"none", "filling", "partial", "full"}

Idle == [kind |-> "idle"]
CreateRequest == [kind : {"create"}, stage : {"mkdir", "extract"}, dir : Dirs]
DeleteRequest == [kind : {"delete"}, stage : {"remove", "record"}, dir : Dirs]
Request == CreateRequest \cup DeleteRequest \cup {Idle}

\* Mutant: NaN is kept as it is.
StoredRaw(ram) == ram

Stored(ram) == IF ram = NaN THEN 0 ELSE ram
MemorySize(ram) == IF ram = 0 THEN DefaultRam ELSE ram

-----------------------------------------------------------------------------
(* db.js *)

Exists(u) == users[u].role \in Roles
UserServers(u) == {s \in servers : s.owner = u}
WithId(id) == {s \in servers : s.id = id}

\* find: the first record of the array that has the id.
GetServer(id) ==
  CHOOSE s \in WithId(id) : \A t \in WithId(id) : s.pos <= t.pos

\* push: the place behind the last record.
IsNextPos(p) ==
  /\ \A s \in servers : s.pos < p
  /\ p = 1 \/ \E s \in servers : s.pos = p - 1

\* updateServer changes the first record with the id, deleteServer removes
\* every one of them.
Updated(id, new) == (servers \ {GetServer(id)}) \cup {new}
WithoutSaving(id) == servers        \* Mutant: the filtered list is not saved.
WithoutOthers(id) == WithId(id)     \* Mutant: the filter is the wrong way round.
Without(id) == servers \ WithId(id)

TotalRam(S) == MapThenSumSet(LAMBDA s : s.ram, S)

-----------------------------------------------------------------------------
(* Limits and access *)

\* An account's own limit, where it is set and not 0, or the global one.
UserLimits(u) ==
  LET own == users[u].limits IN
  [maxServers |-> IF own.maxServers = 0 THEN LimitServers ELSE own.maxServers,
   maxRam     |-> IF own.maxRam = 0 THEN LimitRam ELSE own.maxRam]

\* Mutant: one server too many.
TooManyByOne(u) == Cardinality(UserServers(u)) > UserLimits(u).maxServers

TooManyServers(u) == Cardinality(UserServers(u)) >= UserLimits(u).maxServers

\* Mutant: each server is compared with the limit for itself.
RamRefusedAlone(u, S, ram) ==
  ram # NaN /\ (ram > UserLimits(u).maxRam \/ ram < MinRam)

\* The RAM checks of create and startup, for a user whose other servers are S.
RamRefused(u, S, ram) ==
  /\ ram # NaN
  /\ \/ TotalRam(S) + ram > UserLimits(u).maxRam
     \/ ram < MinRam

\* The record exists, and the token is its owner's or an administrator's.
MayUse(t, id) ==
  /\ t \in tokens
  /\ WithId(id) # {}
  /\ GetServer(id).owner = t.id \/ t.role = "admin"

-----------------------------------------------------------------------------
(* Handlers in flight and machines *)

Waiting(n, kind, stage) ==
  /\ reqs[n].kind = kind
  /\ reqs[n].stage = stage
Owner(n) == reqs[n].dir[1]
Id(n) == reqs[n].dir[2]
Busy(kind, id) == \E n \in Slots : reqs[n].kind = kind /\ Id(n) = id

\* The handler of request r suspends at its first await.
Begin(r) ==
  \E n \in Slots : /\ reqs[n] = Idle
                   /\ \A m \in 1 .. n - 1 : reqs[m] # Idle
                   /\ reqs' = [reqs EXCEPT ![n] = r]
Continue(n, stage) == reqs' = [reqs EXCEPT ![n].stage = stage]
End(n) == reqs' = [reqs EXCEPT ![n] = Idle]

\* GET /api/server/:id/creation-progress: what it answers when there is no entry.
ReportsComplete(id) == id \notin progress

IsRunning(id) == \E v \in running : v.id = id
Stopped(id) == {v \in running : v.id # id}

\* One more of the failures the bound allows.
Fault == faults < MaxFaults /\ faults' = faults + 1

-----------------------------------------------------------------------------
(* Accounts *)

\* The first account of an empty users.json is the administrator.
Register(u) ==
  /\ users[u].role = "none"
  /\ LET role == IF \E v \in Users : Exists(v) THEN "user" ELSE "admin" IN
     /\ users' = [users EXCEPT ![u] = NewAccount(role)]
     /\ tokens' = tokens \cup {[id |-> u, role |-> role]}
  /\ UNCHANGED <<now, servers, progress, running, disk, reqs, faults>>

\* A suspended account gets no new token; those it has stay good.
Login(u) ==
  /\ Exists(u) /\ ~users[u].suspended
  /\ tokens' = tokens \cup {[id |-> u, role |-> users[u].role]}
  /\ UNCHANGED <<now, users, servers, progress, running, disk, reqs, faults>>

-----------------------------------------------------------------------------
(* POST /api/server/create *)

Tick ==
  /\ now < MaxNow
  /\ now' = now + 1
  /\ UNCHANGED <<users, tokens, servers, progress, running, disk, reqs, faults>>

\* Up to the first await: the limits, the record, the reply.
CreateServer(t, ram) ==
  /\ t \in tokens /\ Exists(t.id)
  /\ now <= MaxNow
  /\ t.role # "admin" => /\ ~TooManyServers(t.id)
                         /\ ~RamRefused(t.id, UserServers(t.id), ram)
  /\ \E p \in 1 .. MaxRecords :
       /\ IsNextPos(p)
       /\ servers' = servers \cup
            {[pos |-> p, id |-> now, owner |-> t.id, ram |-> Stored(ram),
              status |-> "creating", suspended |-> FALSE]}
  /\ progress' = progress \cup {now}
  /\ Begin([kind |-> "create", stage |-> "mkdir", dir |-> <<t.id, now>>])
  /\ now' = IF OneCreatePerMs THEN now + 1 ELSE now
  /\ UNCHANGED <<users, tokens, running, disk, faults>>

EnsureDir(n) ==
  /\ Waiting(n, "create", "mkdir")
  /\ disk' = [disk EXCEPT ![reqs[n].dir] = IF @ = "none" THEN "filling" ELSE @]
  /\ Continue(n, "extract")
  /\ UNCHANGED <<now, users, tokens, servers, progress, running, faults>>

\* The rejection ends the handler, which leaves its record and its progress.
EnsureDirFails(n) ==
  /\ Waiting(n, "create", "mkdir") /\ Fault
  /\ End(n)
  /\ UNCHANGED <<now, users, tokens, servers, progress, running, disk>>

\* extractInitrd calls onProgress now and then.
ReportProgress(n) ==
  /\ Waiting(n, "create", "extract")
  /\ progress' = progress \cup {Id(n)}
  /\ UNCHANGED <<now, users, tokens, servers, running, disk, reqs, faults>>

\* Mutants: the status is not updated; the progress entry is not deleted.
FinishUnmarked(n) ==
  /\ progress' = progress \ {Id(n)}
  /\ End(n)
  /\ UNCHANGED <<now, users, tokens, running, servers>>
FinishWithEntry(n) ==
  /\ servers' = IF WithId(Id(n)) = {} THEN servers
                ELSE Updated(Id(n), [GetServer(Id(n)) EXCEPT !.status = "ready"])
  /\ End(n)
  /\ UNCHANGED <<now, users, tokens, running, progress>>

\* What the handler does after the extraction, whatever came of it.
FinishCreate(n) ==
  /\ servers' = IF WithId(Id(n)) = {} THEN servers
                ELSE Updated(Id(n), [GetServer(Id(n)) EXCEPT !.status = "ready"])
  /\ progress' = progress \ {Id(n)}
  /\ End(n)
  /\ UNCHANGED <<now, users, tokens, running>>

\* A directory that was removed meanwhile comes back with the files that were
\* still to be written, or not at all.
Extracted(n) ==
  /\ Waiting(n, "create", "extract")
  /\ \E c \in CASE disk[reqs[n].dir] = "none"    -> {"none", "partial"}
                [] disk[reqs[n].dir] = "filling" -> {"full"}
                [] OTHER                         -> {disk[reqs[n].dir]} :
       disk' = [disk EXCEPT ![reqs[n].dir] = c]
  /\ FinishCreate(n)
  /\ UNCHANGED faults

\* extractInitrd logs the error and returns false, which its caller ignores.
ExtractFails(n) ==
  /\ Waiting(n, "create", "extract") /\ Fault
  /\ disk' = [disk EXCEPT ![reqs[n].dir] = IF @ = "filling" THEN "partial" ELSE @]
  /\ FinishCreate(n)

-----------------------------------------------------------------------------
(* POST /api/server/:id/start, stop and startup *)

\* Mutant: a server that runs is started again.
StartAgain(t, id) ==
  /\ MayUse(t, id)
  /\ LET s == GetServer(id) IN
     /\ ~s.suspended
     /\ Exists(s.owner) /\ ~users[s.owner].suspended
     /\ running' = running \cup
          {[id |-> id, owner |-> s.owner, ram |-> MemorySize(s.ram)]}
  /\ UNCHANGED <<now, users, tokens, servers, progress, disk, reqs, faults>>

StartServer(t, id) ==
  /\ MayUse(t, id)
  /\ LET s == GetServer(id) IN
     /\ ~s.suspended
     /\ Exists(s.owner) /\ ~users[s.owner].suspended
     /\ ~IsRunning(id)
     /\ running' = running \cup
          {[id |-> id, owner |-> s.owner, ram |-> MemorySize(s.ram)]}
  /\ UNCHANGED <<now, users, tokens, servers, progress, disk, reqs, faults>>

StopServer(t, id) ==
  /\ MayUse(t, id)
  /\ running' = Stopped(id)
  /\ UNCHANGED <<now, users, tokens, servers, progress, disk, reqs, faults>>

\* Mutant: the settings of a running server are changed.
UpdateRunning(t, id, ram) ==
  /\ MayUse(t, id)
  /\ t.role # "admin" =>
       ~RamRefused(t.id, UserServers(t.id) \ WithId(id), ram)
  /\ servers' = Updated(id, [GetServer(id) EXCEPT !.ram = Stored(ram)])
  /\ UNCHANGED <<now, users, tokens, progress, running, disk, reqs, faults>>

UpdateStartup(t, id, ram) ==
  /\ MayUse(t, id)
  /\ ~IsRunning(id)
  /\ t.role # "admin" =>
       /\ Exists(t.id)
       /\ ~RamRefused(t.id, UserServers(t.id) \ WithId(id), ram)
  /\ servers' = Updated(id, [GetServer(id) EXCEPT !.ram = Stored(ram)])
  /\ UNCHANGED <<now, users, tokens, progress, running, disk, reqs, faults>>

-----------------------------------------------------------------------------
(* DELETE /api/server/:id *)

\* Up to the await of fs.remove; without an owner there is nothing to await.
BeginDelete(id) ==
  /\ running' = Stopped(id)
  /\ LET owner == GetServer(id).owner IN
     \/ /\ Exists(owner)
        /\ Begin([kind |-> "delete", stage |-> "remove", dir |-> <<owner, id>>])
        /\ UNCHANGED servers
     \/ /\ ~Exists(owner)
        /\ servers' = Without(id)
        /\ UNCHANGED reqs
  /\ UNCHANGED <<now, users, tokens, progress, disk, faults>>

DeleteServer(t, id) == MayUse(t, id) /\ BeginDelete(id)

\* Mutant: the path lacks the id, and every server of the owner goes.
RemoveAllFiles(n) ==
  /\ Waiting(n, "delete", "remove")
  /\ disk' = [d \in Dirs |-> IF d[1] = Owner(n) THEN "none" ELSE disk[d]]
  /\ Continue(n, "record")
  /\ UNCHANGED <<now, users, tokens, servers, progress, running, faults>>

RemoveFiles(n) ==
  /\ Waiting(n, "delete", "remove")
  /\ disk' = [disk EXCEPT ![reqs[n].dir] = "none"]
  /\ Continue(n, "record")
  /\ UNCHANGED <<now, users, tokens, servers, progress, running, faults>>

\* The rejection ends the handler before it removes the record.
RemoveFilesFails(n) ==
  /\ Waiting(n, "delete", "remove") /\ Fault
  /\ disk' = [disk EXCEPT ![reqs[n].dir] = IF @ = "none" THEN @ ELSE "partial"]
  /\ End(n)
  /\ UNCHANGED <<now, users, tokens, servers, progress, running>>

DeleteRecord(n) ==
  /\ Waiting(n, "delete", "record")
  /\ servers' = Without(Id(n))
  /\ End(n)
  /\ UNCHANGED <<now, users, tokens, progress, running, disk, faults>>

-----------------------------------------------------------------------------
(* The process ends and starts again with what its files hold. *)

Restart ==
  /\ Fault
  /\ progress' = {} /\ running' = {}
  /\ reqs' = [n \in Slots |-> Idle]
  /\ disk' = [d \in Dirs |-> IF disk[d] = "filling" THEN "partial" ELSE disk[d]]
  /\ UNCHANGED <<now, users, tokens, servers>>

-----------------------------------------------------------------------------
(* The specification *)

Init ==
  /\ now = 1
  /\ users = [u \in Users |-> NewAccount("none")]
  /\ tokens = {} /\ servers = {} /\ progress = {} /\ running = {}
  /\ disk = [d \in Dirs |-> "none"]
  /\ reqs = [n \in Slots |-> Idle]
  /\ faults = 0

\* What follows an await, once the file operation has ended.
Proceed(n) ==
  \/ EnsureDir(n) \/ EnsureDirFails(n)
  \/ Extracted(n) \/ ExtractFails(n)
  \/ RemoveFiles(n) \/ RemoveFilesFails(n) \/ DeleteRecord(n)

ServerRequest(t, id) ==
  \/ StartServer(t, id)
  \/ StopServer(t, id)
  \/ \E ram \in RamInputs : UpdateStartup(t, id, ram)
  \/ DeleteServer(t, id)

UserRequest(t) ==
  \/ \E ram \in RamInputs : CreateServer(t, ram)
  \/ \E id \in Ids : ServerRequest(t, id)

\* Everything but a restart.
Serve ==
  \/ Tick
  \/ \E u \in Users : Register(u) \/ Login(u)
  \/ \E t \in tokens : UserRequest(t)
  \/ \E n \in Slots : ReportProgress(n) \/ Proceed(n)

Next == Serve \/ Restart

Spec == Init /\ [][Next]_vars

\* File operations end, so a handler that waits for one goes on.  Clients and
\* failures owe nothing.
Fairness == \A n \in Slots : WF_vars(Proceed(n))
FairSpec == Spec /\ Fairness

-----------------------------------------------------------------------------
(* Properties *)

\* Every variable holds what its handlers read and write; no two records have
\* one place in the array, and runningVMs has one machine for a key.
TypeOK ==
  /\ now \in 1 .. MaxNow + 1
  /\ users \in [Users -> Account]
  /\ tokens \subseteq Token
  /\ servers \subseteq Server
  /\ \A s, t \in servers : s.pos = t.pos => s = t
  /\ progress \subseteq Ids
  /\ running \subseteq VM
  /\ \A v, w \in running : v.id = w.id => v = w
  /\ disk \in [Dirs -> Contents]
  /\ reqs \in [Slots -> Request]
  /\ faults \in 0 .. MaxFaults

\* An account of role user never has more servers than its limit: the handler
\* of create counts and adds with no await in between, and counts records of
\* every status.
ServerLimit ==
  \A u \in Users :
    users[u].role = "user" =>
      Cardinality(UserServers(u)) <= UserLimits(u).maxServers

\* A machine that still has its record runs with the memory and in the
\* directory the record names: startup refuses while the machine runs.
RunningAsRecorded ==
  \A v \in running :
    WithId(v.id) # {} => /\ v.owner = GetServer(v.id).owner
                         /\ v.ram = MemorySize(GetServer(v.id).ram)

\* creation-progress reports a server complete when it has no entry.  Without
\* failures its record is then ready and its directory holds every file,
\* unless the server is being deleted.
CompleteMeansUsable ==
  \A s \in servers :
    (faults = 0 /\ ReportsComplete(s.id) /\ ~Busy("delete", s.id)) =>
      s.status = "ready" /\ disk[<<s.owner, s.id>>] = "full"

\* A progress entry without a creation in flight is left by a failure only.
NoStaleProgress ==
  \A id \in progress : Busy("create", id) \/ faults > 0

\* No request of an account of role user takes the RAM of its servers over its
\* limit, whatever an administrator has made of them before.
UsersKeepRamLimit ==
  [][\A t \in tokens :
       LET total == TotalRam(UserServers(t.id)) IN
       (/\ t.role = "user"
        /\ total' > total
        /\ total' > UserLimits(t.id).maxRam) => ~UserRequest(t)]_vars

\* The end of a deletion removes no record of another account than the one
\* whose files it removed.
DeletesOnlyItsOwner ==
  [][\A n \in Slots :
       DeleteRecord(n) => \A s \in servers \ servers' : s.owner = Owner(n)]_vars

\* A directory that is complete loses files only to the deletion of its server.
FilesPersist ==
  [][\A d \in Dirs :
       (disk[d] = "full" /\ disk'[d] # "full") =>
         \E n \in Slots : reqs[n].kind = "delete" /\ reqs[n].dir = d]_vars

\* A record in status creating becomes ready or goes, unless something failed.
CreationEnds ==
  \A id \in Ids :
    (\E s \in servers : s.id = id /\ s.status = "creating") ~>
      ((\A s \in servers : s.id = id => s.status = "ready") \/ faults > 0)

\* A deletion that was accepted removes the record, unless something failed.
DeletionEnds ==
  \A id \in Ids :
    Busy("delete", id) ~> WithId(id) = {} \/ faults > 0

\* What the comment "Stop if running" before a deletion promises: no machine
\* runs without a record.
NoOrphanVM == \A v \in running : WithId(v.id) # {}

=============================================================================
