------------------------------ MODULE PanelAdmin ------------------------------
(***************************************************************************)
(* The administrator's routes of src/panel/server.js, next to everything   *)
(* Panel does: accounts are changed, suspended and deleted, servers are    *)
(* suspended, changed, stopped and deleted, while their owners go on       *)
(* sending requests.                                                       *)
(*                                                                         *)
(* The routes are mounted behind requireAdmin alone.  It reads req.user,   *)
(* which only requireAuth sets, so the source as it is refuses everyone.   *)
(* AdminAuthFirst = TRUE puts requireAuth before it, as every other route  *)
(* has it, so that the handlers behind it can be checked as well.          *)
(***************************************************************************)
EXTENDS Panel

CONSTANTS
  AdminAuthFirst,  \* FALSE: the routes as server.js mounts them
  LimitInputs      \* the limits an administrator gives an account

ASSUME AdminAssumption ==
  /\ AdminAuthFirst \in BOOLEAN
  /\ LimitInputs \subseteq Limits

VARIABLES
  purge,   \* the deletion of an account in flight; one at most is modelled
  refused  \* TRUE: requireAdmin has answered an administrator with 403

adminVars == <<vars, purge, refused>>

\* left: the servers the loop of the handler still has to remove, the one it
\* waits for included.
NoPurge == [stage |-> "idle"]
Purge == [stage : {"servers", "home"}, user : Users, left : SUBSET Server]

-----------------------------------------------------------------------------
(* requireAdmin *)

RequireAdmin(t) == AdminAuthFirst /\ t.role = "admin"

Refuse(t) ==
  /\ ~RequireAdmin(t)
  /\ refused' = (refused \/ t.role = "admin")
  /\ UNCHANGED <<vars, purge>>

-----------------------------------------------------------------------------
(* The synchronous routes *)

NoMachines(S) == {}   \* Mutant: a suspended account keeps its machines.
MachinesOf(S) == {v \in running : \E s \in S : s.id = v.id}

\* A field the body leaves out keeps its value.  Suspending an account
\* stops its machines.
UpdateUser(u, role, suspend, limits) ==
  /\ Exists(u)
  /\ users' = [users EXCEPT
       ![u] = [role |-> role,
               suspended |-> suspend = "yes" \/ (suspend = "keep" /\ @.suspended),
               limits |-> limits]]
  /\ running' = IF suspend = "yes" THEN running \ MachinesOf(UserServers(u))
                ELSE running
  /\ UNCHANGED <<now, tokens, servers, progress, disk, reqs, faults>>

\* Mutant: a suspended server keeps its machine.
SuspendRunning(id, suspend) ==
  /\ WithId(id) # {}
  /\ servers' = Updated(id, [GetServer(id) EXCEPT !.suspended = suspend])
  /\ UNCHANGED <<now, users, tokens, progress, running, disk, reqs, faults>>

SuspendServer(id, suspend) ==
  /\ WithId(id) # {}
  /\ running' = IF suspend THEN Stopped(id) ELSE running
  /\ servers' = Updated(id, [GetServer(id) EXCEPT !.suspended = suspend])
  /\ UNCHANGED <<now, users, tokens, progress, disk, reqs, faults>>

\* Neither the limits nor a running machine are looked at.
AdminUpdateServer(id, ram, owner) ==
  /\ WithId(id) # {}
  /\ servers' = Updated(id, [GetServer(id) EXCEPT !.ram = ram, !.owner = owner])
  /\ UNCHANGED <<now, users, tokens, progress, running, disk, reqs, faults>>

ForceStop(id) ==
  /\ WithId(id) # {}
  /\ running' = Stopped(id)
  /\ UNCHANGED <<now, users, tokens, servers, progress, disk, reqs, faults>>

AdminDeleteServer(id) == WithId(id) # {} /\ BeginDelete(id)

AnyRole(t, u, role) == TRUE   \* Mutant: an administrator may step down.

\* 'Cannot remove your own admin role'
MayGiveRole(t, u, role) == u = t.id => role = "admin"

SyncRoute(t) ==
  \/ \E u \in Users, suspend \in {"keep", "yes", "no"} :
     \E role \in Roles \cup {users[u].role},
        limits \in LimitInputs \cup {users[u].limits} :
       MayGiveRole(t, u, role) /\ UpdateUser(u, role, suspend, limits)
  \/ \E id \in Ids :
       \/ \E suspend \in BOOLEAN : SuspendServer(id, suspend)
       \/ \E ram \in {Stored(r) : r \in RamInputs} \cup {s.ram : s \in WithId(id)},
             owner \in Users : AdminUpdateServer(id, ram, owner)
       \/ ForceStop(id)
       \/ AdminDeleteServer(id)

-----------------------------------------------------------------------------
(* DELETE /api/admin/user/:id *)

FirstOf(S) == CHOOSE s \in S : \A t \in S : s.pos <= t.pos

\* The loop over the captured servers: stop the machine of the next one and
\* wait for its files, or go on to the records and the home directory.
PurgeFrom(u, left) ==
  /\ purge' = [stage |-> IF left = {} THEN "home" ELSE "servers",
               user |-> u, left |-> left]
  /\ IF left = {}
     THEN servers' = servers \ UserServers(u) /\ UNCHANGED running
     ELSE running' = Stopped(FirstOf(left).id) /\ UNCHANGED servers

DeleteUser(t, u) ==
  /\ purge = NoPurge
  /\ Exists(u) /\ u # t.id
  /\ PurgeFrom(u, UserServers(u))
  /\ UNCHANGED <<now, users, tokens, progress, disk, reqs, faults>>

PurgeServer ==
  /\ purge.stage = "servers"
  /\ LET s == FirstOf(purge.left) IN
     /\ disk' = [disk EXCEPT ![<<purge.user, s.id>>] = "none"]
     /\ PurgeFrom(purge.user, purge.left \ {s})
  /\ UNCHANGED <<now, users, tokens, progress, reqs, faults>>

PurgeHome ==
  /\ purge.stage = "home"
  /\ disk' = [d \in Dirs |-> IF d[1] = purge.user THEN "none" ELSE disk[d]]
  /\ users' = [users EXCEPT ![purge.user] = NewAccount("deleted")]
  /\ purge' = NoPurge
  /\ UNCHANGED <<now, tokens, servers, progress, running, reqs, faults>>

\* A removal that fails ends the handler where it is.
PurgeFails ==
  /\ purge # NoPurge /\ Fault
  /\ purge' = NoPurge
  /\ UNCHANGED <<now, users, tokens, servers, progress, running, disk, reqs>>

-----------------------------------------------------------------------------
(* The specification *)

AdminInit == Init /\ purge = NoPurge /\ refused = FALSE

AdminRequest(t) ==
  \/ Refuse(t)
  \/ RequireAdmin(t) /\ SyncRoute(t) /\ UNCHANGED <<purge, refused>>
  \/ RequireAdmin(t) /\ (\E u \in Users : DeleteUser(t, u)) /\ UNCHANGED refused

ProceedPurge == (PurgeServer \/ PurgeHome \/ PurgeFails) /\ UNCHANGED refused

AdminNext ==
  \/ Serve /\ UNCHANGED <<purge, refused>>
  \/ Restart /\ purge' = NoPurge /\ UNCHANGED refused
  \/ \E t \in tokens : AdminRequest(t)
  \/ ProceedPurge

AdminSpec == AdminInit /\ [][AdminNext]_adminVars

-----------------------------------------------------------------------------
(* Properties *)

\* A suspended server does not run: start refuses it, and suspending it stops
\* its machine, whatever its owner's requests do in between.
SuspendedServerStopped ==
  \A v \in running : WithId(v.id) # {} => ~GetServer(v.id).suspended

\* A machine comes to run for a suspended account in one way only, by the
\* transfer of a running server to that account.
RunsForSuspended(id) ==
  WithId(id) # {} /\ IsRunning(id) /\ users[GetServer(id).owner].suspended

SuspendedRunsByTransferOnly ==
  [][\A id \in Ids :
       (~RunsForSuspended(id) /\ RunsForSuspended(id)') =>
         GetServer(id).owner # GetServer(id)'.owner]_adminVars

\* No administrator takes the role from itself or deletes itself, so the last
\* one goes only where some token says admin of an account that is none by now:
\* a token keeps the role it was issued with.
Admins == {u \in Users : users[u].role = "admin"}

OnlyStaleTokenRemovesLastAdmin ==
  [][(Admins # {} /\ Admins' = {}) =>
       \E t \in tokens : t.role = "admin" /\ t.id \notin Admins]_adminVars

\* requireAdmin answers 'Admin access required' to those who are not
\* administrators, and to nobody else.
AdminsNotRefused == ~refused
=============================================================================
