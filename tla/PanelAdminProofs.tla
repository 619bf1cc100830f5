-------------------------- MODULE PanelAdminProofs --------------------------
(***************************************************************************)
(* Proofs about PanelAdmin: what the administrator's routes and the        *)
(* requests of the owners keep true together, for any accounts and bounds. *)
(***************************************************************************)
EXTENDS PanelAdmin, PanelProofs

-----------------------------------------------------------------------------
(* Types *)

\* An account that an administrator has changed.
LEMMA UpdateUserTypeOK ==
  ASSUME TypeOK, NEW u \in Users, NEW suspend \in {"keep", "yes", "no"},
         NEW role \in Roles \cup {users[u].role},
         NEW limits \in LimitInputs \cup {users[u].limits},
         UpdateUser(u, role, suspend, limits)
  PROVE  TypeOK'
<1> DEFINE s == suspend = "yes" \/ (suspend = "keep" /\ users[u].suspended)
           new == [role |-> role, suspended |-> s, limits |-> limits]
<1>1. users[u] \in Account
  BY DEF TypeOK
<1>2. limits \in Limits /\ role \in Roles \cup {"none", "deleted"}
  BY <1>1, AdminAssumption DEF Account
<1>3. s \in BOOLEAN
  OBVIOUS
<1> HIDE DEF s
<1>4. new \in Account
  BY <1>2, <1>3 DEF Account
<1>5. users' = [users EXCEPT ![u] = new]
  BY DEF UpdateUser, s
<1>6. users' \in [Users -> Account]
  BY <1>4, <1>5 DEF TypeOK
<1>7. running' \subseteq running
  BY DEF UpdateUser
<1> QED
  BY <1>6, <1>7 DEF TypeOK, UpdateUser

\* updateServer, when the new record takes the place of the old one.
LEMMA UpdatedTypeOK ==
  ASSUME TypeOK, NEW id \in Ids, WithId(id) # {}, NEW new \in Server,
         new.pos = GetServer(id).pos, servers' = Updated(id, new),
         running' \subseteq running,
         UNCHANGED <<now, users, tokens, progress, disk, reqs, faults>>
  PROVE  TypeOK'
<1>1. ServersOK(servers')
  BY UpdatedOK
<1> QED
  BY <1>1 DEF TypeOK, ServersOK

\* The steps of the deletion of an account remove records, machines and files.
LEMMA PurgeTypeOK ==
  ASSUME TypeOK, \/ \E t \in tokens, u \in Users : DeleteUser(t, u)
                 \/ PurgeServer \/ PurgeHome \/ PurgeFails
  PROVE  TypeOK'
<1>1. servers' \subseteq servers /\ running' \subseteq running
  BY DEF DeleteUser, PurgeServer, PurgeHome, PurgeFails, PurgeFrom, Stopped
<1>2. users' \in [Users -> Account]
  <2>1. NewAccount("deleted") \in Account
    BY DEF NewAccount, Account, NoLimits, Limits
  <2> QED
    BY <2>1 DEF TypeOK, DeleteUser, PurgeServer, PurgeHome, PurgeFails
<1>3. disk' \in [Dirs -> Contents]
  BY DEF TypeOK, Contents, DeleteUser, PurgeServer, PurgeHome, PurgeFails
<1>4. faults' \in 0 .. MaxFaults
  BY PanelAssumption DEF TypeOK, Fault, DeleteUser, PurgeServer, PurgeHome, PurgeFails
<1>5. UNCHANGED <<now, tokens, progress, reqs>>
  BY DEF DeleteUser, PurgeServer, PurgeHome, PurgeFails
<1> QED
  BY <1>1, <1>2, <1>3, <1>4, <1>5 DEF TypeOK

-----------------------------------------------------------------------------
(* The invariant *)

SuspendedInv == \A v \in running, s \in servers : s.id = v.id => ~s.suspended

\* Who deletes an account is an administrator by its token, and another account.
PurgeInv ==
  purge # NoPurge => \E t \in tokens : t.role = "admin" /\ t.id # purge.user

AdminInv == TypeOK /\ IdsInv /\ SuspendedInv /\ PurgeInv

\* The steps that Panel has as well.
PanelStep ==
  \/ Serve /\ UNCHANGED <<purge, refused>>
  \/ Restart /\ purge' = NoPurge /\ UNCHANGED refused

\* Panel gives an account to who has none, and takes nothing from the others.
LEMMA PanelAccounts ==
  ASSUME TypeOK, Next
  PROVE  /\ \A u \in Users : users'[u].suspended => users[u].suspended
         /\ Admins \subseteq Admins'
         /\ tokens \subseteq tokens'
<1>1. CASE UNCHANGED <<users, tokens>>
  BY <1>1 DEF Admins
<1>2. ASSUME NEW u \in Users, Register(u)
      PROVE  /\ \A w \in Users : users'[w].suspended => users[w].suspended
             /\ Admins \subseteq Admins'
             /\ tokens \subseteq tokens'
  <2>1. PICK role : users' = [users EXCEPT ![u] = NewAccount(role)]
    BY <1>2 DEF Register
  <2>2. ~NewAccount(role).suspended /\ users[u].role # "admin"
    BY <1>2 DEF NewAccount, Register
  <2>3. tokens \subseteq tokens'
    BY <1>2 DEF Register
  <2> QED
    BY <2>1, <2>2, <2>3 DEF TypeOK, Admins
<1>3. ASSUME NEW u \in Users, Login(u)
      PROVE  /\ \A w \in Users : users'[w].suspended => users[w].suspended
             /\ Admins \subseteq Admins'
             /\ tokens \subseteq tokens'
  BY <1>3 DEF Login, Admins
<1>4. ASSUME ~(\E u \in Users : Register(u) \/ Login(u))
      PROVE  UNCHANGED <<users, tokens>>
  BY <1>4 DEF Next, Serve, Tick, UserRequest, CreateServer, ServerRequest, StartServer,
     StopServer, UpdateStartup, DeleteServer, BeginDelete, ReportProgress, Proceed,
     EnsureDir, EnsureDirFails, Extracted, ExtractFails, FinishCreate, RemoveFiles,
     RemoveFilesFails, DeleteRecord, Restart
<1> QED
  BY <1>1, <1>2, <1>3, <1>4

\* A step of Panel starts no suspended server and suspends none that runs.
LEMMA PanelStepInv ==
  ASSUME OneCreatePerMs, AdminInv, PanelStep
  PROVE  AdminInv' /\ RecordsStep /\ MachinesStep
<1>1. TypeOK'
  BY StepTypeOK DEF AdminInv, PanelStep, Next
<1>2. IdsInv' /\ RecordsStep /\ MachinesStep
  BY <1>1, RecordStep DEF AdminInv, PanelStep, Next
<1>3. SuspendedInv'
  <2> SUFFICES ASSUME NEW v \in running', NEW s \in servers', s.id = v.id
               PROVE  ~s.suspended
    BY DEF SuspendedInv
  <2>1. CASE v \in running
    <3>1. v.id # now
      BY <2>1, IdsTyped DEF IdsInv, AdminInv
    <3> QED
      BY <1>2, <2>1, <3>1 DEF RecordsStep, SuspendedInv, AdminInv
  <2>2. CASE v \notin running
    BY <1>2, <2>2 DEF MachinesStep, IdsInv, AdminInv
  <2> QED
    BY <2>1, <2>2
<1>4. PurgeInv'
  <2>1. tokens \subseteq tokens' /\ (purge' = purge \/ purge' = NoPurge)
    BY PanelAccounts DEF AdminInv, PanelStep, Next
  <2> QED
    BY <2>1 DEF PurgeInv, AdminInv
<1> QED
  BY <1>1, <1>2, <1>3, <1>4 DEF AdminInv

\* A step that only takes records and machines away.
LEMMA TakeAwayInv ==
  ASSUME AdminInv, TypeOK', UNCHANGED <<now, reqs>>,
         servers' \subseteq servers, running' \subseteq running
  PROVE  IdsInv' /\ SuspendedInv'
<1>1. IdsInv'
  BY SameIds DEF AdminInv
<1> QED
  BY <1>1 DEF SuspendedInv, AdminInv

LEMMA SuspendServerInv ==
  ASSUME AdminInv, NEW id \in Ids, NEW suspend \in BOOLEAN, SuspendServer(id, suspend)
  PROVE  TypeOK' /\ IdsInv' /\ SuspendedInv'
<1> DEFINE old == GetServer(id)
           new == [old EXCEPT !.suspended = suspend]
<1>1. /\ WithId(id) # {} /\ servers' = Updated(id, new)
      /\ running' = IF suspend THEN Stopped(id) ELSE running
      /\ UNCHANGED <<now, users, tokens, progress, disk, reqs, faults>>
  BY DEF SuspendServer
<1>2. old \in servers /\ old \in Server /\ old.id = id
  BY <1>1, GetServerFinds DEF WithId, TypeOK, AdminInv
<1>3. new \in Server /\ new.pos = old.pos /\ new.id = id /\ (new.suspended <=> suspend)
  BY <1>2 DEF Server
<1> HIDE DEF new
<1>4. running' \subseteq running
  BY <1>1 DEF Stopped
<1>5. TypeOK'
  BY <1>1, <1>3, <1>4, UpdatedTypeOK DEF AdminInv
<1>6. /\ servers' = (servers \ {old}) \cup {new}
      /\ \A s, t \in servers' : s.id = t.id => s = t
      /\ \A s \in servers' : s.id < now'
  BY <1>1, <1>3, UpdatedIds DEF AdminInv
<1>7. IdsInv'
  BY <1>1, <1>4, <1>6 DEF IdsInv, AdminInv, Id
<1>8. SuspendedInv'
  <2> SUFFICES ASSUME NEW v \in running', NEW s \in servers', s.id = v.id
               PROVE  ~s.suspended
    BY DEF SuspendedInv
  <2>1. CASE s = new
    BY <1>1, <1>3, <2>1 DEF Stopped
  <2>2. CASE s # new
    BY <1>4, <1>6, <2>2 DEF SuspendedInv, AdminInv
  <2> QED
    BY <2>1, <2>2
<1> QED
  BY <1>5, <1>7, <1>8

LEMMA AdminUpdateInv ==
  ASSUME AdminInv, NEW id \in Ids, NEW ram \in Nat, NEW owner \in Users,
         AdminUpdateServer(id, ram, owner)
  PROVE  TypeOK' /\ IdsInv' /\ SuspendedInv'
<1> DEFINE old == GetServer(id)
           new == [old EXCEPT !.ram = ram, !.owner = owner]
<1>1. /\ WithId(id) # {} /\ servers' = Updated(id, new) /\ running' = running
      /\ UNCHANGED <<now, users, tokens, progress, disk, reqs, faults>>
  BY DEF AdminUpdateServer
<1>2. old \in servers /\ old \in Server /\ old.id = id
  BY <1>1, GetServerFinds DEF WithId, TypeOK, AdminInv
<1>3. /\ new \in Server /\ new.pos = old.pos /\ new.id = id
      /\ new.suspended = old.suspended
  BY <1>2 DEF Server
<1> HIDE DEF new
<1>4. TypeOK'
  BY <1>1, <1>3, UpdatedTypeOK DEF AdminInv
<1>5. /\ servers' = (servers \ {old}) \cup {new}
      /\ \A s, t \in servers' : s.id = t.id => s = t
      /\ \A s \in servers' : s.id < now'
  BY <1>1, <1>3, UpdatedIds DEF AdminInv
<1>6. IdsInv'
  BY <1>1, <1>5 DEF IdsInv, AdminInv, Id
<1>7. SuspendedInv'
  <2> SUFFICES ASSUME NEW v \in running, NEW s \in servers', s.id = v.id
               PROVE  ~s.suspended
    BY <1>1 DEF SuspendedInv
  <2>1. CASE s = new
    BY <1>2, <1>3, <2>1 DEF SuspendedInv, AdminInv
  <2>2. CASE s # new
    BY <1>5, <2>2 DEF SuspendedInv, AdminInv
  <2> QED
    BY <2>1, <2>2
<1> QED
  BY <1>4, <1>6, <1>7

\* A synchronous route of an administrator.
LEMMA SyncRouteInv ==
  ASSUME AdminInv, NEW t \in tokens, SyncRoute(t)
  PROVE  TypeOK' /\ IdsInv' /\ SuspendedInv'
<1>1. ASSUME NEW u \in Users, NEW suspend \in {"keep", "yes", "no"},
             NEW role \in Roles \cup {users[u].role},
             NEW limits \in LimitInputs \cup {users[u].limits},
             UpdateUser(u, role, suspend, limits)
      PROVE  TypeOK' /\ IdsInv' /\ SuspendedInv'
  <2>1. TypeOK'
    BY <1>1, UpdateUserTypeOK DEF AdminInv
  <2>2. UNCHANGED <<now, reqs, servers>> /\ running' \subseteq running
    BY <1>1 DEF UpdateUser
  <2> QED
    BY <2>1, <2>2, TakeAwayInv
<1>2. ASSUME NEW id \in Ids, NEW suspend \in BOOLEAN, SuspendServer(id, suspend)
      PROVE  TypeOK' /\ IdsInv' /\ SuspendedInv'
  BY <1>2, SuspendServerInv
<1>3. ASSUME NEW id \in Ids, NEW owner \in Users,
             NEW ram \in {Stored(r) : r \in RamInputs} \cup {s.ram : s \in WithId(id)},
             AdminUpdateServer(id, ram, owner)
      PROVE  TypeOK' /\ IdsInv' /\ SuspendedInv'
  <2>1. ram \in Nat
    BY StoredNat DEF AdminInv, TypeOK, Server, WithId
  <2> QED
    BY <1>3, <2>1, AdminUpdateInv
<1>4. ASSUME NEW id \in Ids, ForceStop(id)
      PROVE  TypeOK' /\ IdsInv' /\ SuspendedInv'
  <2>1. /\ running' \subseteq running
        /\ UNCHANGED <<now, users, tokens, servers, progress, disk, reqs, faults>>
    BY <1>4 DEF ForceStop, Stopped
  <2>2. TypeOK'
    BY <2>1 DEF TypeOK, AdminInv
  <2> QED
    BY <2>1, <2>2, TakeAwayInv
<1>5. ASSUME NEW id \in Ids, AdminDeleteServer(id)
      PROVE  TypeOK' /\ IdsInv' /\ SuspendedInv'
  <2>1. TypeOK' /\ IdsInv'
    BY <1>5, BeginDeleteTypeOK, BeginDeleteRecord DEF AdminDeleteServer, AdminInv
  <2>2. servers' \subseteq servers /\ running' \subseteq running
    BY <1>5 DEF AdminDeleteServer, BeginDelete, Without, Stopped
  <2> QED
    BY <2>1, <2>2 DEF SuspendedInv, AdminInv
<1> QED
  BY <1>1, <1>2, <1>3, <1>4, <1>5 DEF SyncRoute

\* The deletion of an account.
LEMMA PurgeStepInv ==
  ASSUME AdminInv, \/ \E t \in tokens, u \in Users : RequireAdmin(t) /\ DeleteUser(t, u)
                   \/ PurgeServer \/ PurgeHome \/ PurgeFails
  PROVE  AdminInv'
<1>1. TypeOK'
  BY PurgeTypeOK DEF AdminInv
<1>2. /\ UNCHANGED <<now, reqs, tokens>>
      /\ servers' \subseteq servers /\ running' \subseteq running
  BY DEF DeleteUser, PurgeServer, PurgeHome, PurgeFails, PurgeFrom, Stopped
<1>3. IdsInv' /\ SuspendedInv'
  BY <1>1, <1>2, TakeAwayInv
<1>4. PurgeInv'
  <2>1. ASSUME NEW t \in tokens, NEW u \in Users, RequireAdmin(t), DeleteUser(t, u)
        PROVE  PurgeInv'
    BY <1>2, <2>1 DEF PurgeInv, RequireAdmin, DeleteUser, PurgeFrom
  <2>2. CASE PurgeServer
    <3>1. purge # NoPurge /\ purge'.user = purge.user
      BY <2>2 DEF PurgeServer, PurgeFrom, NoPurge
    <3> QED
      BY <1>2, <3>1 DEF PurgeInv, AdminInv
  <2>3. CASE PurgeHome \/ PurgeFails
    BY <2>3 DEF PurgeHome, PurgeFails, PurgeInv
  <2> QED
    BY <2>1, <2>2, <2>3
<1> QED
  BY <1>1, <1>3, <1>4 DEF AdminInv

LEMMA StepAdminInv ==
  ASSUME OneCreatePerMs, AdminInv, [AdminNext]_adminVars
  PROVE  AdminInv'
<1>1. CASE UNCHANGED <<vars, purge>>
  <2>1. TypeOK'
    BY <1>1, StepTypeOK DEF AdminInv
  <2>2. UNCHANGED <<now, reqs, servers, running, tokens, purge>>
    BY <1>1 DEF vars
  <2>3. IdsInv' /\ SuspendedInv'
    BY <2>1, <2>2, TakeAwayInv
  <2> QED
    BY <2>1, <2>2, <2>3 DEF AdminInv, PurgeInv
<1>2. CASE PanelStep
  BY <1>2, PanelStepInv
<1>3. ASSUME NEW t \in tokens, RequireAdmin(t), SyncRoute(t), UNCHANGED <<purge, refused>>
      PROVE  AdminInv'
  <2>1. TypeOK' /\ IdsInv' /\ SuspendedInv'
    BY <1>3, SyncRouteInv
  <2>2. tokens' = tokens
    BY <1>3 DEF SyncRoute, UpdateUser, SuspendServer, AdminUpdateServer, ForceStop,
       AdminDeleteServer, BeginDelete
  <2> QED
    BY <1>3, <2>1, <2>2 DEF AdminInv, PurgeInv
<1>4. CASE \/ \E t \in tokens, u \in Users : RequireAdmin(t) /\ DeleteUser(t, u)
           \/ PurgeServer \/ PurgeHome \/ PurgeFails
  BY <1>4, PurgeStepInv
<1>5. [AdminNext]_adminVars =>
        \/ UNCHANGED <<vars, purge>>
        \/ PanelStep
        \/ \E t \in tokens : RequireAdmin(t) /\ SyncRoute(t) /\ UNCHANGED <<purge, refused>>
        \/ \E t \in tokens, u \in Users : RequireAdmin(t) /\ DeleteUser(t, u)
        \/ PurgeServer \/ PurgeHome \/ PurgeFails
  BY DEF AdminNext, adminVars, PanelStep, AdminRequest, Refuse, ProceedPurge
<1> QED
  BY <1>1, <1>2, <1>3, <1>4, <1>5

LEMMA AdminAlways ==
  ASSUME OneCreatePerMs
  PROVE  AdminSpec => []AdminInv
<1>1. AdminInit => AdminInv
  <2> SUFFICES ASSUME AdminInit PROVE AdminInv
    OBVIOUS
  <2>1. TypeOK /\ IdsInv
    BY InitTypeOK, InitRecordInv DEF AdminInit
  <2>2. SuspendedInv /\ PurgeInv
    BY DEF AdminInit, Init, SuspendedInv, PurgeInv
  <2> QED
    BY <2>1, <2>2 DEF AdminInv
<1>2. AdminInv /\ [AdminNext]_adminVars => AdminInv'
  BY StepAdminInv
<1> QED
  BY <1>1, <1>2, PTL DEF AdminSpec

-----------------------------------------------------------------------------
(* The theorems *)

\* Where no two creations share an id, a server that is suspended does not run:
\* neither a start of its owner nor a suspension, transfer or change by an
\* administrator leaves the two together, in whatever order they come.
THEOREM AdminSuspendedServerStopped ==
  ASSUME OneCreatePerMs
  PROVE  AdminSpec => []SuspendedServerStopped
<1>1. AdminInv => SuspendedServerStopped
  <2> SUFFICES ASSUME AdminInv, NEW v \in running, WithId(v.id) # {}
               PROVE  ~GetServer(v.id).suspended
    BY DEF SuspendedServerStopped
  <2>1. GetServer(v.id) \in servers /\ GetServer(v.id).id = v.id
    BY GetServerFinds DEF WithId, AdminInv
  <2> QED
    BY <2>1 DEF SuspendedInv, AdminInv
<1> QED
  BY <1>1, AdminAlways, PTL

\* The last administrator goes only while there is a token that says admin of an
\* account that is none any more: nobody takes the role from itself or deletes
\* itself, not even where a deletion ends after its administrator has changed.
THEOREM AdminLastByStaleToken ==
  ASSUME OneCreatePerMs
  PROVE  AdminSpec => OnlyStaleTokenRemovesLastAdmin
<1>1. AdminInv /\ [AdminNext]_adminVars =>
        [(Admins # {} /\ Admins' = {}) =>
           \E t \in tokens : t.role = "admin" /\ t.id \notin Admins]_adminVars
  <2> SUFFICES ASSUME AdminInv, AdminNext, Admins # {}, Admins' = {}
               PROVE  \E t \in tokens : t.role = "admin" /\ t.id \notin Admins
    OBVIOUS
  <2>1. users' # users
    BY DEF Admins
  <2>2. ~PanelStep
    BY PanelAccounts DEF PanelStep, Next, AdminInv
  <2>3. ASSUME NEW t \in tokens, RequireAdmin(t), SyncRoute(t)
        PROVE  t.role = "admin" /\ t.id \notin Admins
    <3>1. PICK u \in Users, suspend \in {"keep", "yes", "no"} :
          \E role \in Roles \cup {users[u].role}, limits \in LimitInputs \cup {users[u].limits} :
            MayGiveRole(t, u, role) /\ UpdateUser(u, role, suspend, limits)
      BY <2>1, <2>3 DEF SyncRoute, SuspendServer, AdminUpdateServer, ForceStop,
         AdminDeleteServer, BeginDelete
    <3>2. PICK role, limits :
            MayGiveRole(t, u, role) /\ UpdateUser(u, role, suspend, limits)
      BY <3>1
    <3>3. /\ users'[u].role = role /\ \A w \in Users \ {u} : users'[w] = users[w]
          /\ u = t.id => role = "admin"
      BY <3>2 DEF UpdateUser, MayGiveRole, AdminInv, TypeOK
    <3>4. Admins \subseteq {u} /\ u # t.id
      BY <3>3 DEF Admins
    <3> QED
      BY <2>3, <3>4 DEF RequireAdmin
  <2>4. ASSUME PurgeHome
        PROVE  \E t \in tokens : t.role = "admin" /\ t.id \notin Admins
    <3>1. purge # NoPurge /\ \A w \in Users \ {purge.user} : users'[w] = users[w]
      BY <2>4 DEF PurgeHome, NoPurge, AdminInv, TypeOK
    <3>2. Admins \subseteq {purge.user}
      BY <3>1 DEF Admins
    <3> QED
      BY <3>1, <3>2 DEF PurgeInv, AdminInv
  <2>5. \/ PanelStep \/ PurgeHome
        \/ \E t \in tokens : RequireAdmin(t) /\ SyncRoute(t)
    BY <2>1 DEF AdminNext, PanelStep, AdminRequest, Refuse, ProceedPurge, DeleteUser,
       PurgeServer, PurgeFails, vars
  <2> QED
    BY <2>2, <2>3, <2>4, <2>5
<1> QED
  BY <1>1, AdminAlways, PTL DEF AdminSpec, OnlyStaleTokenRemovesLastAdmin

\* The one record with the id says whom a machine runs for.
LEMMA RunsWhere ==
  TypeOK /\ IdsInv =>
    \A id \in Ids :
      /\ RunsForSuspended(id) <=> \E s \in servers, v \in running :
                                    s.id = id /\ v.id = id /\ users[s.owner].suspended
      /\ \A s \in servers : s.id = id => GetServer(id) = s
<1> SUFFICES ASSUME TypeOK, IdsInv, NEW id \in Ids
             PROVE  /\ RunsForSuspended(id) <=> \E s \in servers, v \in running :
                         s.id = id /\ v.id = id /\ users[s.owner].suspended
                    /\ \A s \in servers : s.id = id => GetServer(id) = s
  OBVIOUS
<1>1. \A s \in servers : s.id = id => GetServer(id) = s
  BY OneRecord
<1>2. WithId(id) # {} => GetServer(id) \in servers /\ GetServer(id).id = id
  BY GetServerFinds DEF WithId
<1> QED
  BY <1>1, <1>2 DEF RunsForSuspended, IsRunning, WithId

LEMMA RunsWhereNext ==
  (TypeOK /\ IdsInv =>
     \A id \in Ids :
       /\ RunsForSuspended(id) <=> \E s \in servers, v \in running :
                                     s.id = id /\ v.id = id /\ users[s.owner].suspended
       /\ \A s \in servers : s.id = id => GetServer(id) = s)'
BY RunsWhere, PTL

\* A step that neither starts a machine, changes an owner nor suspends an
\* account makes none run for a suspended account.
LEMMA NoneForSuspended ==
  ASSUME AdminInv, TypeOK', NEW id \in Ids,
         NEW s \in servers', NEW v \in running', s.id = id, v.id = id,
         users'[s.owner].suspended, v \in running,
         \E r \in servers : s.id = r.id /\ s.owner = r.owner,
         users'[s.owner].suspended => users[s.owner].suspended
  PROVE  RunsForSuspended(id)
BY RunsWhere DEF AdminInv

\* A machine comes to run for a suspended account by the transfer of its server
\* only: start looks at the account, suspending it stops its machines, and no
\* other route changes an owner or brings a record back.
THEOREM AdminSuspendedRunsByTransfer ==
  ASSUME OneCreatePerMs
  PROVE  AdminSpec => SuspendedRunsByTransferOnly
<1>1. AdminInv /\ AdminInv' /\ [AdminNext]_adminVars =>
        [\A id \in Ids :
           (~RunsForSuspended(id) /\ RunsForSuspended(id)') =>
             GetServer(id).owner # GetServer(id)'.owner]_adminVars
  <2> SUFFICES ASSUME AdminInv, AdminInv', AdminNext, NEW id \in Ids,
                      ~RunsForSuspended(id), RunsForSuspended(id)'
               PROVE  GetServer(id).owner # GetServer(id)'.owner
    OBVIOUS
  <2>1. PICK s \in servers', v \in running' :
          s.id = id /\ v.id = id /\ users'[s.owner].suspended
    BY RunsWhereNext DEF AdminInv
  <2>2. /\ GetServer(id)' = s /\ s.owner \in Users
        /\ \A r \in servers : r.id = id => GetServer(id) = r
    BY <2>1, RunsWhere, RunsWhereNext DEF AdminInv, TypeOK, Server
  <2>3. ASSUME v \in running, \E r \in servers : s.id = r.id /\ s.owner = r.owner,
               users'[s.owner].suspended => users[s.owner].suspended
        PROVE  FALSE
    BY <2>1, <2>3, NoneForSuspended DEF AdminInv
  <2>4. ~PanelStep
    <3> SUFFICES ASSUME PanelStep PROVE FALSE
      OBVIOUS
    <3>1. RecordsStep /\ MachinesStep
      BY PanelStepInv
    <3>2. users'[s.owner].suspended => users[s.owner].suspended
      BY <2>2, PanelAccounts DEF AdminInv, PanelStep, Next
    <3>3. CASE v \in running
      <4>1. v.id # now
        BY <3>3, IdsTyped DEF IdsInv, AdminInv
      <4>2. \E r \in servers : s.id = r.id /\ s.owner = r.owner
        BY <2>1, <4>1, <3>1 DEF RecordsStep
      <4> QED
        BY <2>3, <3>2, <3>3, <4>2
    <3>4. CASE v \notin running
      BY <2>1, <3>1, <3>4 DEF MachinesStep, IdsInv, AdminInv
    <3> QED
      BY <3>3, <3>4
  <2>5. ASSUME servers' \subseteq servers, running' \subseteq running,
               \A u \in Users : users'[u].suspended => users[u].suspended
        PROVE  FALSE
    BY <2>2, <2>3, <2>5
  <2>6. ASSUME \/ \E t \in tokens, u \in Users : DeleteUser(t, u)
               \/ PurgeServer \/ PurgeHome \/ PurgeFails
        PROVE  FALSE
    <3>1. servers' \subseteq servers /\ running' \subseteq running
      BY <2>6 DEF DeleteUser, PurgeServer, PurgeHome, PurgeFails, PurgeFrom, Stopped
    <3>2. \A u \in Users : users'[u].suspended => users[u].suspended
      BY <2>6 DEF DeleteUser, PurgeServer, PurgeHome, PurgeFails, NewAccount, AdminInv, TypeOK
    <3> QED
      BY <2>5, <3>1, <3>2
  <2>7. ASSUME NEW u \in Users, NEW suspend, NEW role, NEW limits,
               UpdateUser(u, role, suspend, limits)
        PROVE  FALSE
    <3>1. servers' = servers /\ v \in running /\ \A w \in Users \ {u} : users'[w] = users[w]
      BY <2>7 DEF UpdateUser, AdminInv, TypeOK
    <3>2. CASE suspend = "yes" /\ s.owner = u
      BY <2>1, <2>7, <3>1, <3>2 DEF UpdateUser, MachinesOf, UserServers
    <3>3. CASE suspend # "yes" /\ s.owner = u
      <4>1. users'[u].suspended => users[u].suspended
        BY <2>7, <3>3 DEF UpdateUser, AdminInv, TypeOK
      <4> QED
        BY <2>3, <3>1, <3>3, <4>1
    <3>4. CASE s.owner # u
      BY <2>2, <2>3, <3>1, <3>4
    <3> QED
      BY <3>2, <3>3, <3>4
  <2>8. ASSUME NEW key \in Ids, NEW ram, NEW owner, AdminUpdateServer(key, ram, owner)
        PROVE  GetServer(id).owner # s.owner
    <3> DEFINE old == GetServer(key)
               new == [old EXCEPT !.ram = ram, !.owner = owner]
    <3>1. /\ old \in servers /\ old.id = key /\ old \in Server
          /\ servers' = (servers \ {old}) \cup {new}
          /\ v \in running /\ users' = users
      BY <2>8, GetServerFinds DEF AdminUpdateServer, Updated, WithId, AdminInv, TypeOK
    <3>2. new.id = old.id
      BY <3>1 DEF Server
    <3> HIDE DEF new
    <3>3. s = new
      BY <2>3, <3>1
    <3>4. id = key /\ GetServer(id) = old
      BY <2>1, <3>1, <3>2, <3>3
    <3> QED
      BY <2>1, <2>3, <3>1, <3>4
  <2>9. ASSUME NEW key \in Ids, NEW suspend \in BOOLEAN, SuspendServer(key, suspend)
        PROVE  FALSE
    <3> DEFINE old == GetServer(key)
               new == [old EXCEPT !.suspended = suspend]
    <3>1. /\ old \in servers /\ old \in Server /\ users' = users
          /\ servers' = (servers \ {old}) \cup {new} /\ running' \subseteq running
      BY <2>9, GetServerFinds DEF SuspendServer, Updated, WithId, AdminInv, TypeOK, Stopped
    <3>2. new.id = old.id /\ new.owner = old.owner
      BY <3>1 DEF Server
    <3> HIDE DEF new, old
    <3>3. \E r \in servers : s.id = r.id /\ s.owner = r.owner
      BY <3>1, <3>2
    <3> QED
      BY <2>3, <3>1, <3>3
  <2>10. ASSUME NEW key \in Ids, ForceStop(key) \/ AdminDeleteServer(key)
         PROVE  FALSE
    <3>1. servers' \subseteq servers /\ running' \subseteq running /\ users' = users
      BY <2>10 DEF ForceStop, AdminDeleteServer, BeginDelete, Without, Stopped
    <3> QED
      BY <2>5, <3>1
  <2>11. ASSUME NEW t \in tokens, SyncRoute(t)
         PROVE  GetServer(id).owner # s.owner
    BY <2>7, <2>8, <2>9, <2>10, <2>11 DEF SyncRoute
  <2>12. CASE UNCHANGED vars
    <3>1. UNCHANGED <<servers, running, users>>
      BY <2>12 DEF vars
    <3> QED
      BY <2>5, <3>1
  <2> QED
    BY <2>2, <2>4, <2>6, <2>11, <2>12
    DEF AdminNext, PanelStep, AdminRequest, Refuse, ProceedPurge
<1>2. SuspendedRunsByTransferOnly <=>
        [][\A id \in Ids :
             (~RunsForSuspended(id) /\ RunsForSuspended(id)') =>
               GetServer(id).owner # GetServer(id)'.owner]_adminVars
  BY DEF SuspendedRunsByTransferOnly
<1> QED
  BY <1>1, <1>2, AdminAlways, PTL DEF AdminSpec
=============================================================================
