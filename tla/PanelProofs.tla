----------------------------- MODULE PanelProofs -----------------------------
(***************************************************************************)
(* Proofs about Panel, for any accounts, sizes, limits and bounds.         *)
(***************************************************************************)
EXTENDS Panel, FiniteSetTheorems, WellFoundedInduction, TLAPS

-----------------------------------------------------------------------------
(* Lemmas about the operators of db.js *)

\* The ordering of the naturals is well founded, so a set of them has a least.
LEMMA LeastNatural ==
  ASSUME NEW S, S \subseteq Nat, S # {}
  PROVE  \E m \in S : \A k \in S : m <= k
<1> DEFINE R == OpToRel(<, Nat)
<1>1. IsWellFoundedOn(R, Nat)
  BY NatLessThanWellFounded
<1> HIDE DEF R
<1>2. PICK x \in S : \A y \in S : ~ (<<y, x>> \in R)
  BY <1>1, WFMin
<1> USE DEF R
<1>3. \A y \in S : ~ (y < x)
  BY <1>2 DEF OpToRel
<1> QED
  BY <1>3

\* getServer finds the first record with the id when there is one.
LEMMA GetServerFinds ==
  ASSUME TypeOK, NEW id, WithId(id) # {}
  PROVE  /\ GetServer(id) \in WithId(id)
         /\ \A t \in WithId(id) : GetServer(id).pos <= t.pos
<1> DEFINE P == {s.pos : s \in WithId(id)}
<1>1. WithId(id) \subseteq Server
  BY DEF TypeOK, WithId
<1>2. \A s \in Server : s.pos \in Nat
  BY PanelAssumption DEF Server
<1>3. P \subseteq Nat /\ P # {}
  BY <1>1, <1>2
<1>4. PICK p \in P : \A q \in P : p <= q
  BY <1>3, LeastNatural
<1>5. PICK s \in WithId(id) : s.pos = p
  OBVIOUS
<1>6. \A t \in WithId(id) : s.pos <= t.pos
  BY <1>4, <1>5
<1> QED
  BY <1>5, <1>6 DEF GetServer

\* What the type invariant says of the array of records.
ServersOK(S) ==
  /\ S \subseteq Server
  /\ \A s, t \in S : s.pos = t.pos => s = t

\* updateServer keeps the array an array: one record changes in its place.
LEMMA UpdatedOK ==
  ASSUME TypeOK, NEW id, WithId(id) # {},
         NEW new \in Server, new.pos = GetServer(id).pos
  PROVE  ServersOK(Updated(id, new))
<1>1. GetServer(id) \in servers
  BY GetServerFinds DEF WithId
<1>2. ServersOK(servers)
  BY DEF TypeOK, ServersOK
<1> HIDE DEF TypeOK
<1> QED
  BY <1>1, <1>2 DEF ServersOK, Updated

LEMMA WithoutOK ==
  ASSUME TypeOK, NEW id
  PROVE  ServersOK(Without(id))
  BY DEF TypeOK, ServersOK, Without

-----------------------------------------------------------------------------
(* Lemmas about the handlers in flight *)

LEMMA BeginOK ==
  ASSUME TypeOK, NEW r \in Request, Begin(r)
  PROVE  reqs' \in [Slots -> Request]
  BY DEF TypeOK, Begin

LEMMA EndOK ==
  ASSUME TypeOK, NEW n \in Slots, End(n)
  PROVE  reqs' \in [Slots -> Request]
<1>1. Idle \in Request
  BY DEF Request
<1> QED
  BY <1>1 DEF TypeOK, End

\* A handler of a creation or a deletion that waits has captured a directory.
LEMMA WaitingOK ==
  ASSUME TypeOK, NEW n \in Slots
  PROVE  /\ reqs[n].kind = "create" => reqs[n] \in CreateRequest
         /\ reqs[n].kind = "delete" => reqs[n] \in DeleteRequest
         /\ reqs[n].kind \in {"create", "delete"} =>
              reqs[n].dir \in Dirs /\ Owner(n) \in Users /\ Id(n) \in Ids
<1>1. reqs[n] \in Request
  BY DEF TypeOK
<1>2. /\ reqs[n].kind = "create" => reqs[n] \in CreateRequest
      /\ reqs[n].kind = "delete" => reqs[n] \in DeleteRequest
  BY <1>1 DEF Request, CreateRequest, DeleteRequest, Idle
<1>3. reqs[n].kind \in {"create", "delete"} => reqs[n].dir \in Dirs
  BY <1>2 DEF CreateRequest, DeleteRequest
<1>4. reqs[n].dir \in Dirs => Owner(n) \in Users /\ Id(n) \in Ids
  BY DEF Dirs, Owner, Id
<1> QED
  BY <1>2, <1>3, <1>4

LEMMA ContinueOK ==
  ASSUME TypeOK, NEW n \in Slots, NEW stage, Continue(n, stage),
         \/ reqs[n].kind = "create" /\ stage = "extract"
         \/ reqs[n].kind = "delete" /\ stage = "record"
  PROVE  reqs' \in [Slots -> Request]
<1>1. [reqs[n] EXCEPT !.stage = stage] \in Request
  <2>1. CASE reqs[n].kind = "create" /\ stage = "extract"
    BY <2>1, WaitingOK DEF CreateRequest, Request
  <2>2. CASE reqs[n].kind = "delete" /\ stage = "record"
    BY <2>2, WaitingOK DEF DeleteRequest, Request
  <2> QED
    BY <2>1, <2>2
<1>2. reqs' = [reqs EXCEPT ![n] = [reqs[n] EXCEPT !.stage = stage]]
  BY DEF Continue
<1> QED
  BY <1>1, <1>2 DEF TypeOK

-----------------------------------------------------------------------------
(* Type correctness *)

LEMMA InitTypeOK == Init => TypeOK
<1> SUFFICES ASSUME Init PROVE TypeOK
  OBVIOUS
<1>1. users \in [Users -> Account]
  BY DEF Init, NewAccount, Account, NoLimits, Limits
<1>2. reqs \in [Slots -> Request]
  BY DEF Init, Request
<1>3. disk \in [Dirs -> Contents]
  BY DEF Init, Contents
<1>4. now \in 1 .. MaxNow + 1 /\ faults \in 0 .. MaxFaults
  BY PanelAssumption DEF Init
<1>5. /\ tokens \subseteq Token /\ servers \subseteq Server
      /\ progress \subseteq Ids /\ running \subseteq VM
      /\ \A s, t \in servers : s.pos = t.pos => s = t
      /\ \A v, w \in running : v.id = w.id => v = w
  BY DEF Init
<1> QED
  BY <1>1, <1>2, <1>3, <1>4, <1>5 DEF TypeOK

\* An account is made, or signs in.
LEMMA AccountTypeOK ==
  ASSUME TypeOK, NEW u \in Users, Register(u) \/ Login(u)
  PROVE  TypeOK'
<1>1. CASE Register(u)
  <2>1. PICK role \in Roles :
          /\ users' = [users EXCEPT ![u] = NewAccount(role)]
          /\ tokens' = tokens \cup {[id |-> u, role |-> role]}
    BY <1>1 DEF Register, Roles
  <2>2. NewAccount(role) \in Account
    BY DEF NewAccount, Account, NoLimits, Limits
  <2>3. [id |-> u, role |-> role] \in Token
    BY DEF Token
  <2> QED
    BY <1>1, <2>1, <2>2, <2>3 DEF TypeOK, Register
<1>2. CASE Login(u)
  <2>1. [id |-> u, role |-> users[u].role] \in Token
    BY <1>2 DEF Token, Login, Exists
  <2> QED
    BY <1>2, <2>1 DEF TypeOK, Login
<1> QED
  BY <1>1, <1>2

\* parseInt stores a natural number, or null, which counts as 0.
LEMMA StoredNat ==
  ASSUME NEW ram \in RamInputs
  PROVE  Stored(ram) \in Nat
  BY PanelAssumption DEF Stored, NaN

LEMMA CreateServerTypeOK ==
  ASSUME TypeOK, NEW t \in tokens, NEW ram \in RamInputs, CreateServer(t, ram)
  PROVE  TypeOK'
<1>1. t.id \in Users /\ now \in Ids
  BY PanelAssumption DEF TypeOK, Token, CreateServer, Ids
<1>2. PICK p \in 1 .. MaxRecords :
        /\ IsNextPos(p)
        /\ servers' = servers \cup
             {[pos |-> p, id |-> now, owner |-> t.id, ram |-> Stored(ram),
               status |-> "creating", suspended |-> FALSE]}
  BY DEF CreateServer
<1> DEFINE new == [pos |-> p, id |-> now, owner |-> t.id, ram |-> Stored(ram),
                   status |-> "creating", suspended |-> FALSE]
<1>3. new \in Server /\ new.pos = p
  BY <1>1, StoredNat DEF Server
<1>4. servers' = servers \cup {new}
  BY <1>2
<1> HIDE DEF new
<1>5. ServersOK(servers')
  <2>1. \A s \in servers : s.pos < p
    BY <1>2 DEF IsNextPos
  <2>2. \A s \in servers : s.pos \in Nat /\ s.pos # p
    BY <2>1, PanelAssumption DEF TypeOK, Server
  <2> QED
    BY <1>3, <1>4, <2>2 DEF TypeOK, ServersOK
<1>6. reqs' \in [Slots -> Request]
  <2>1. [kind |-> "create", stage |-> "mkdir", dir |-> <<t.id, now>>] \in Request
    BY <1>1 DEF Request, CreateRequest, Dirs
  <2> QED
    BY <2>1, BeginOK DEF CreateServer
<1>7. now' \in 1 .. MaxNow + 1
  BY PanelAssumption DEF TypeOK, CreateServer
<1> QED
  BY <1>1, <1>5, <1>6, <1>7 DEF TypeOK, ServersOK, CreateServer

LEMMA FinishCreateTypeOK ==
  ASSUME TypeOK, NEW n \in Slots, reqs[n].kind = "create", FinishCreate(n),
         disk' \in [Dirs -> Contents], faults' \in 0 .. MaxFaults
  PROVE  TypeOK'
<1>1. ServersOK(servers')
  <2>1. CASE WithId(Id(n)) = {}
    BY <2>1 DEF FinishCreate, TypeOK, ServersOK
  <2>2. CASE WithId(Id(n)) # {}
    <3> DEFINE old == GetServer(Id(n))
               new == [old EXCEPT !.status = "ready"]
    <3>1. old \in Server
      BY <2>2, GetServerFinds DEF WithId, TypeOK
    <3>2. new \in Server /\ new.pos = old.pos
      BY <3>1 DEF Server
    <3>3. servers' = Updated(Id(n), new)
      BY <2>2 DEF FinishCreate
    <3> QED
      BY <2>2, <3>2, <3>3, UpdatedOK
  <2> QED
    BY <2>1, <2>2
<1>2. reqs' \in [Slots -> Request]
  BY EndOK DEF FinishCreate
<1> QED
  BY <1>1, <1>2 DEF TypeOK, ServersOK, FinishCreate

LEMMA CreationTypeOK ==
  ASSUME TypeOK, NEW n \in Slots,
         \/ EnsureDir(n) \/ EnsureDirFails(n) \/ ReportProgress(n)
         \/ Extracted(n) \/ ExtractFails(n)
  PROVE  TypeOK'
<1>1. CASE EnsureDir(n)
  <2>1. disk' \in [Dirs -> Contents]
    BY <1>1 DEF TypeOK, EnsureDir, Contents
  <2>2. reqs' \in [Slots -> Request]
    BY <1>1, ContinueOK DEF EnsureDir, Waiting
  <2> QED
    BY <1>1, <2>1, <2>2 DEF TypeOK, EnsureDir
<1>2. CASE EnsureDirFails(n)
  <2>1. reqs' \in [Slots -> Request] /\ faults' \in 0 .. MaxFaults
    BY <1>2, EndOK, PanelAssumption DEF EnsureDirFails, Fault, TypeOK
  <2> QED
    BY <1>2, <2>1 DEF TypeOK, EnsureDirFails
<1>3. CASE ReportProgress(n)
  <2>1. Id(n) \in Ids
    BY <1>3, WaitingOK DEF ReportProgress, Waiting
  <2> QED
    BY <1>3, <2>1 DEF TypeOK, ReportProgress
<1>4. CASE Extracted(n)
  <2>1. reqs[n].dir \in Dirs /\ reqs[n].kind = "create"
    BY <1>4, WaitingOK DEF Extracted, Waiting
  <2>2. disk' \in [Dirs -> Contents]
    BY <1>4, <2>1 DEF TypeOK, Extracted, Contents
  <2> QED
    BY <1>4, <2>1, <2>2, FinishCreateTypeOK DEF Extracted, TypeOK
<1>5. CASE ExtractFails(n)
  <2>1. disk' \in [Dirs -> Contents]
    BY <1>5 DEF TypeOK, ExtractFails, Contents
  <2>2. faults' \in 0 .. MaxFaults /\ reqs[n].kind = "create"
    BY <1>5, PanelAssumption DEF ExtractFails, Fault, TypeOK, Waiting
  <2> QED
    BY <1>5, <2>1, <2>2, FinishCreateTypeOK DEF ExtractFails
<1> QED
  BY <1>1, <1>2, <1>3, <1>4, <1>5

\* What begins the deletion of a server, for its owner and for an administrator.
LEMMA BeginDeleteTypeOK ==
  ASSUME TypeOK, NEW id \in Ids, WithId(id) # {}, BeginDelete(id)
  PROVE  TypeOK'
<1>1. GetServer(id).owner \in Users
  BY GetServerFinds DEF WithId, TypeOK, Server
<1>2. [kind |-> "delete", stage |-> "remove",
       dir |-> <<GetServer(id).owner, id>>] \in Request
  BY <1>1 DEF Request, DeleteRequest, Dirs
<1>3. reqs' \in [Slots -> Request]
  BY <1>2, BeginOK DEF BeginDelete, TypeOK
<1>4. ServersOK(servers')
  BY WithoutOK DEF BeginDelete, TypeOK, ServersOK
<1>5. running' \subseteq running
  BY DEF BeginDelete, Stopped
<1> QED
  BY <1>3, <1>4, <1>5 DEF TypeOK, ServersOK, BeginDelete

LEMMA RequestTypeOK ==
  ASSUME TypeOK, NEW t \in tokens, NEW id \in Ids, ServerRequest(t, id)
  PROVE  TypeOK'
<1>1. ASSUME MayUse(t, id)
      PROVE  GetServer(id) \in Server /\ WithId(id) # {}
  BY <1>1, GetServerFinds DEF MayUse, WithId, TypeOK
<1>2. CASE StartServer(t, id)
  <2> DEFINE s == GetServer(id)
             v == [id |-> id, owner |-> s.owner, ram |-> MemorySize(s.ram)]
  <2>1. v \in VM /\ v.id = id
    BY <1>1, <1>2, PanelAssumption DEF StartServer, Server, VM, MemorySize
  <2>2. /\ running' = running \cup {v}
        /\ ~IsRunning(id)
    BY <1>2 DEF StartServer
  <2> HIDE DEF v
  <2>3. running' \subseteq VM /\ \A w, x \in running' : w.id = x.id => w = x
    BY <2>1, <2>2 DEF TypeOK, IsRunning
  <2> QED
    BY <1>2, <2>3 DEF TypeOK, StartServer
<1>3. CASE StopServer(t, id)
  BY <1>3 DEF TypeOK, StopServer, Stopped
<1>4. CASE \E ram \in RamInputs : UpdateStartup(t, id, ram)
  <2>1. PICK ram \in RamInputs : UpdateStartup(t, id, ram)
    BY <1>4
  <2> DEFINE old == GetServer(id)
             new == [old EXCEPT !.ram = Stored(ram)]
  <2>2. old \in Server /\ WithId(id) # {}
    BY <1>1, <2>1 DEF UpdateStartup
  <2>3. new \in Server /\ new.pos = old.pos
    BY <2>2, StoredNat DEF Server
  <2>4. servers' = Updated(id, new)
    BY <2>1 DEF UpdateStartup
  <2>5. ServersOK(servers')
    BY <2>2, <2>3, <2>4, UpdatedOK
  <2> QED
    BY <2>1, <2>5 DEF TypeOK, ServersOK, UpdateStartup
<1>5. CASE DeleteServer(t, id)
  BY <1>1, <1>5, BeginDeleteTypeOK DEF DeleteServer
<1> QED
  BY <1>2, <1>3, <1>4, <1>5 DEF ServerRequest

LEMMA DeletionTypeOK ==
  ASSUME TypeOK, NEW n \in Slots,
         RemoveFiles(n) \/ RemoveFilesFails(n) \/ DeleteRecord(n)
  PROVE  TypeOK'
<1>1. CASE RemoveFiles(n)
  <2>1. disk' \in [Dirs -> Contents]
    BY <1>1 DEF TypeOK, RemoveFiles, Contents
  <2>2. reqs' \in [Slots -> Request]
    BY <1>1, ContinueOK DEF RemoveFiles, Waiting
  <2> QED
    BY <1>1, <2>1, <2>2 DEF TypeOK, RemoveFiles
<1>2. CASE RemoveFilesFails(n)
  <2>1. disk' \in [Dirs -> Contents]
    BY <1>2 DEF TypeOK, RemoveFilesFails, Contents
  <2>2. reqs' \in [Slots -> Request] /\ faults' \in 0 .. MaxFaults
    BY <1>2, EndOK, PanelAssumption DEF RemoveFilesFails, Fault, TypeOK
  <2> QED
    BY <1>2, <2>1, <2>2 DEF TypeOK, RemoveFilesFails
<1>3. CASE DeleteRecord(n)
  <2>1. reqs' \in [Slots -> Request] /\ ServersOK(servers')
    BY <1>3, EndOK, WithoutOK DEF DeleteRecord
  <2> QED
    BY <1>3, <2>1 DEF TypeOK, ServersOK, DeleteRecord
<1> QED
  BY <1>1, <1>2, <1>3

LEMMA RestartTypeOK == ASSUME TypeOK, Restart PROVE TypeOK'
<1>1. disk' \in [Dirs -> Contents]
  BY DEF TypeOK, Restart, Contents
<1>2. reqs' \in [Slots -> Request]
  BY DEF Restart, Request
<1>3. faults' \in 0 .. MaxFaults
  BY PanelAssumption DEF Restart, Fault, TypeOK
<1> QED
  BY <1>1, <1>2, <1>3 DEF TypeOK, Restart

LEMMA StepTypeOK == TypeOK /\ [Next]_vars => TypeOK'
<1> SUFFICES ASSUME TypeOK, [Next]_vars PROVE TypeOK'
  OBVIOUS
<1>1. CASE UNCHANGED vars
  BY <1>1 DEF vars, TypeOK
<1>2. CASE Tick
  <2>1. now' \in 1 .. MaxNow + 1
    BY <1>2, PanelAssumption DEF Tick, TypeOK
  <2> QED
    BY <1>2, <2>1 DEF Tick, TypeOK
<1>3. ASSUME NEW u \in Users, Register(u) \/ Login(u) PROVE TypeOK'
  BY <1>3, AccountTypeOK
<1>4. ASSUME NEW t \in tokens, UserRequest(t) PROVE TypeOK'
  BY <1>4, CreateServerTypeOK, RequestTypeOK DEF UserRequest
<1>5. ASSUME NEW n \in Slots, ReportProgress(n) \/ Proceed(n) PROVE TypeOK'
  BY <1>5, CreationTypeOK, DeletionTypeOK DEF Proceed
<1>6. CASE Restart
  BY <1>6, RestartTypeOK
<1> QED
  BY <1>1, <1>2, <1>3, <1>4, <1>5, <1>6 DEF Next, Serve

\* Every variable keeps its type, no two records share a place in the array
\* and runningVMs holds one machine for a key.
THEOREM PanelTypeCorrect == Spec => []TypeOK
  BY InitTypeOK, StepTypeOK, PTL DEF Spec

-----------------------------------------------------------------------------
(* The limit on servers *)

\* The inductive invariant.  A token of this module keeps the role of its
\* account, so the limit binds every account of role user; and no record
\* stands for an account that is still to register.
LimitInv ==
  /\ TypeOK
  /\ IsFiniteSet(servers)
  /\ \A t \in tokens : users[t.id].role = t.role
  /\ \A s \in servers : Exists(s.owner)
  /\ ServerLimit

LEMMA UserServersFinite ==
  ASSUME IsFiniteSet(servers), NEW u
  PROVE  IsFiniteSet(UserServers(u)) /\ Cardinality(UserServers(u)) \in Nat
  BY FS_Subset, FS_CardinalityType DEF UserServers

\* An element more is at most one more.
LEMMA AddCount ==
  ASSUME NEW S, IsFiniteSet(S), NEW x
  PROVE  /\ IsFiniteSet(S \cup {x})
         /\ Cardinality(S \cup {x}) \in Nat
         /\ Cardinality(S \cup {x}) <= Cardinality(S) + 1
<1>1. IsFiniteSet(S \cup {x}) /\ Cardinality(S) \in Nat
  BY FS_AddElement, FS_CardinalityType
<1>2. Cardinality(S \cup {x}) =
        IF x \in S THEN Cardinality(S) ELSE Cardinality(S) + 1
  BY FS_AddElement
<1>3. Cardinality(S \cup {x}) \in Nat
  BY <1>1, FS_CardinalityType
<1> QED
  BY <1>1, <1>2, <1>3

\* A step that gives nobody more servers and changes no account keeps to it.
LEMMA FewerServers ==
  ASSUME LimitInv, TypeOK', UNCHANGED <<users, tokens>>,
         IsFiniteSet(servers'), \A s \in servers' : Exists(s.owner),
         \A u \in Users : Cardinality(UserServers(u)') <= Cardinality(UserServers(u))
  PROVE  LimitInv'
<1>1. \A u \in Users : UserLimits(u)' = UserLimits(u) /\ Exists(u)' = Exists(u)
  BY DEF UserLimits, Exists
<1>2. \A u \in Users : UserLimits(u).maxServers \in Nat
  BY PanelAssumption DEF UserLimits, LimitInv, TypeOK, Account, Limits
<1>3. \A u \in Users : /\ Cardinality(UserServers(u)) \in Nat
                       /\ Cardinality(UserServers(u)') \in Nat
  BY UserServersFinite, FS_Subset, FS_CardinalityType DEF LimitInv, UserServers
<1>4. ServerLimit'
  BY <1>1, <1>2, <1>3 DEF LimitInv, ServerLimit
<1>5. \A s \in servers' : Exists(s.owner)'
  BY DEF Exists
<1> QED
  BY <1>4, <1>5 DEF LimitInv

LEMMA SubsetKeepsLimit ==
  ASSUME LimitInv, TypeOK', UNCHANGED <<users, tokens>>, servers' \subseteq servers
  PROVE  LimitInv'
<1>1. IsFiniteSet(servers')
  BY FS_Subset DEF LimitInv
<1>2. \A u \in Users : Cardinality(UserServers(u)') <= Cardinality(UserServers(u))
  <2> TAKE u \in Users
  <2>1. UserServers(u)' \in SUBSET UserServers(u)
    BY DEF UserServers
  <2> QED
    BY <2>1, UserServersFinite, FS_Subset DEF LimitInv
<1>3. \A s \in servers' : Exists(s.owner)
  BY DEF LimitInv
<1> QED
  BY <1>1, <1>2, <1>3, FewerServers

\* updateServer changes nothing about who owns what.
LEMMA UpdateKeepsLimit ==
  ASSUME LimitInv, TypeOK', UNCHANGED <<users, tokens>>,
         NEW id, WithId(id) # {}, NEW new, new.owner = GetServer(id).owner,
         servers' = Updated(id, new)
  PROVE  LimitInv'
<1> DEFINE old == GetServer(id)
<1>1. old \in servers
  BY GetServerFinds DEF WithId, LimitInv
<1>2. servers' = (servers \ {old}) \cup {new}
  BY DEF Updated
<1>3. new.owner = old.owner
  OBVIOUS
<1> HIDE DEF old
<1>4. IsFiniteSet(servers')
  <2>1. IsFiniteSet(servers \ {old})
    BY FS_RemoveElement DEF LimitInv
  <2> QED
    BY <1>2, <2>1, AddCount
<1>5. \A s \in servers' : Exists(s.owner)
  BY <1>1, <1>2, <1>3 DEF LimitInv
<1>6. \A u \in Users : Cardinality(UserServers(u)') <= Cardinality(UserServers(u))
  <2> TAKE u \in Users
  <2>1. IsFiniteSet(UserServers(u)) /\ Cardinality(UserServers(u)) \in Nat
    BY UserServersFinite DEF LimitInv
  <2>2. CASE old.owner # u
    <3>1. UserServers(u)' = UserServers(u)
      BY <1>1, <1>2, <1>3, <2>2 DEF UserServers
    <3> QED
      BY <3>1, <2>1
  <2>3. CASE old.owner = u
    <3>1. UserServers(u)' = (UserServers(u) \ {old}) \cup {new}
      BY <1>1, <1>2, <1>3, <2>3 DEF UserServers
    <3>2. old \in UserServers(u)
      BY <1>1, <2>3 DEF UserServers
    <3>3. /\ IsFiniteSet(UserServers(u) \ {old})
          /\ Cardinality(UserServers(u) \ {old}) = Cardinality(UserServers(u)) - 1
      BY <2>1, <3>2, FS_RemoveElement
    <3>4. /\ Cardinality((UserServers(u) \ {old}) \cup {new}) \in Nat
          /\ Cardinality((UserServers(u) \ {old}) \cup {new})
               <= Cardinality(UserServers(u) \ {old}) + 1
      BY <3>3, AddCount
    <3> QED
      BY <2>1, <3>1, <3>3, <3>4
  <2> QED
    BY <2>2, <2>3
<1> QED
  BY <1>4, <1>5, <1>6, FewerServers

\* create counts the servers before it adds one, in the same action.
LEMMA CreateKeepsLimit ==
  ASSUME LimitInv, TypeOK', NEW t \in tokens, NEW ram, CreateServer(t, ram)
  PROVE  LimitInv'
<1>1. PICK new : servers' = servers \cup {new} /\ new.owner = t.id
  <2>1. PICK p \in 1 .. MaxRecords : servers' = servers \cup
          {[pos |-> p, id |-> now, owner |-> t.id, ram |-> Stored(ram),
            status |-> "creating", suspended |-> FALSE]}
    BY DEF CreateServer
  <2> DEFINE rec == [pos |-> p, id |-> now, owner |-> t.id, ram |-> Stored(ram),
                     status |-> "creating", suspended |-> FALSE]
  <2>2. servers' = servers \cup {rec} /\ rec.owner = t.id
    BY <2>1
  <2> HIDE DEF rec
  <2> QED
    BY <2>2
<1>2. UNCHANGED <<users, tokens>> /\ Exists(t.id)
  BY DEF CreateServer
<1>3. IsFiniteSet(servers')
  BY <1>1, AddCount DEF LimitInv
<1>4. \A s \in servers' : Exists(s.owner)'
  BY <1>1, <1>2 DEF LimitInv, Exists
<1>5. ServerLimit'
  <2> SUFFICES ASSUME NEW u \in Users, users[u].role = "user"
               PROVE  Cardinality(UserServers(u)') <= UserLimits(u).maxServers
    BY <1>2 DEF ServerLimit, UserLimits
  <2>1. IsFiniteSet(UserServers(u)) /\ Cardinality(UserServers(u)) \in Nat
    BY UserServersFinite DEF LimitInv
  <2>2. UserLimits(u).maxServers \in Nat
    BY PanelAssumption DEF UserLimits, LimitInv, TypeOK, Account, Limits
  <2>3. CASE u # t.id
    <3>1. UserServers(u)' = UserServers(u)
      BY <1>1, <2>3 DEF UserServers
    <3> QED
      BY <3>1 DEF LimitInv, ServerLimit
  <2>4. CASE u = t.id
    <3>1. t.role = "user"
      BY <2>4 DEF LimitInv
    <3>2. Cardinality(UserServers(u)) < UserLimits(u).maxServers
      BY <2>1, <2>2, <2>4, <3>1 DEF CreateServer, TooManyServers
    <3>3. UserServers(u)' = UserServers(u) \cup {new}
      BY <1>1, <2>4 DEF UserServers
    <3>4. /\ Cardinality(UserServers(u) \cup {new}) \in Nat
          /\ Cardinality(UserServers(u) \cup {new}) <= Cardinality(UserServers(u)) + 1
      BY <2>1, AddCount
    <3> QED
      BY <2>1, <2>2, <3>2, <3>3, <3>4
  <2> QED
    BY <2>3, <2>4
<1> QED
  BY <1>2, <1>3, <1>4, <1>5 DEF LimitInv

\* An account that registers has no servers yet.
LEMMA RegisterKeepsLimit ==
  ASSUME LimitInv, TypeOK', NEW u \in Users, Register(u)
  PROVE  LimitInv'
<1>1. PICK role \in Roles :
        /\ users' = [users EXCEPT ![u] = NewAccount(role)]
        /\ tokens' = tokens \cup {[id |-> u, role |-> role]}
  BY DEF Register, Roles
<1>2. /\ users'[u] = NewAccount(role)
      /\ \A v \in Users \ {u} : users'[v] = users[v]
  BY <1>1 DEF LimitInv, TypeOK
<1>3. ~Exists(u) /\ UNCHANGED servers
  BY DEF Register, Exists, Roles
<1>4. \A t \in tokens : t.id # u /\ t.id \in Users
  BY <1>3 DEF LimitInv, TypeOK, Token, Exists
<1>5. \A t \in tokens' : users'[t.id].role = t.role
  BY <1>1, <1>2, <1>4 DEF LimitInv, NewAccount
<1>6. \A s \in servers : s.owner \in Users \ {u}
  BY <1>3 DEF LimitInv, TypeOK, Server
<1>7. \A s \in servers' : Exists(s.owner)'
  BY <1>2, <1>3, <1>6 DEF LimitInv, Exists
<1>8. ServerLimit'
  <2> SUFFICES ASSUME NEW v \in Users, users'[v].role = "user"
               PROVE  Cardinality(UserServers(v)') <= UserLimits(v)'.maxServers
    BY DEF ServerLimit
  <2>1. UserServers(v)' = UserServers(v)
    BY <1>3 DEF UserServers
  <2>2. CASE v # u
    BY <1>2, <2>1, <2>2 DEF LimitInv, ServerLimit, UserLimits
  <2>3. CASE v = u
    <3>1. UserServers(v) = {}
      BY <1>6, <2>3 DEF UserServers
    <3>2. UserLimits(v)'.maxServers \in Nat
      BY PanelAssumption DEF UserLimits, TypeOK, Account, Limits
    <3> QED
      BY <2>1, <3>1, <3>2, FS_EmptySet
  <2> QED
    BY <2>2, <2>3
<1> QED
  BY <1>3, <1>5, <1>7, <1>8 DEF LimitInv

LEMMA InitLimitInv == Init => LimitInv
<1> SUFFICES ASSUME Init PROVE LimitInv
  OBVIOUS
<1>1. TypeOK /\ servers = {} /\ tokens = {}
  BY InitTypeOK DEF Init
<1>2. IsFiniteSet(servers)
  BY <1>1, FS_EmptySet
<1>3. \A u \in Users : users[u].role = "none"
  BY DEF Init, NewAccount
<1> QED
  BY <1>1, <1>2, <1>3 DEF LimitInv, ServerLimit

LEMMA StepLimitInv == LimitInv /\ [Next]_vars => LimitInv'
<1> SUFFICES ASSUME LimitInv, [Next]_vars PROVE LimitInv'
  OBVIOUS
<1>1. TypeOK /\ TypeOK'
  BY StepTypeOK DEF LimitInv
<1>2. CASE UNCHANGED vars \/ Tick \/ Restart
  BY <1>1, <1>2, SubsetKeepsLimit DEF vars, Tick, Restart
<1>3. ASSUME NEW u \in Users, Register(u) PROVE LimitInv'
  BY <1>1, <1>3, RegisterKeepsLimit
<1>4. ASSUME NEW u \in Users, Login(u) PROVE LimitInv'
  <2>1. \A t \in tokens' : users'[t.id].role = t.role
    BY <1>4 DEF Login, LimitInv
  <2> QED
    BY <1>1, <1>4, <2>1
    DEF Login, LimitInv, ServerLimit, UserServers, UserLimits, Exists
<1>5. ASSUME NEW t \in tokens, NEW ram \in RamInputs, CreateServer(t, ram)
      PROVE  LimitInv'
  BY <1>1, <1>5, CreateKeepsLimit
<1>6. ASSUME NEW t \in tokens, NEW id \in Ids, ServerRequest(t, id)
      PROVE  LimitInv'
  <2>1. CASE StartServer(t, id) \/ StopServer(t, id)
    BY <1>1, <2>1, SubsetKeepsLimit DEF StartServer, StopServer
  <2>2. CASE DeleteServer(t, id)
    <3>1. servers' \subseteq servers
      BY <2>2 DEF DeleteServer, BeginDelete, Without
    <3> QED
      BY <1>1, <2>2, <3>1, SubsetKeepsLimit DEF DeleteServer, BeginDelete
  <2>3. ASSUME NEW ram \in RamInputs, UpdateStartup(t, id, ram)
        PROVE  LimitInv'
    <3>1. WithId(id) # {} /\ GetServer(id) \in Server
      BY <1>1, <2>3, GetServerFinds DEF UpdateStartup, MayUse, WithId, TypeOK
    <3> DEFINE new == [GetServer(id) EXCEPT !.ram = Stored(ram)]
    <3>2. new.owner = GetServer(id).owner /\ servers' = Updated(id, new)
      BY <2>3, <3>1 DEF UpdateStartup, Server
    <3> HIDE DEF new
    <3>3. UNCHANGED <<users, tokens>>
      BY <2>3 DEF UpdateStartup
    <3> QED
      BY <1>1, <3>1, <3>2, <3>3, UpdateKeepsLimit
  <2> QED
    BY <1>6, <2>1, <2>2, <2>3 DEF ServerRequest
<1>7. ASSUME NEW n \in Slots, FinishCreate(n) PROVE LimitInv'
  <2>1. UNCHANGED <<users, tokens>>
    BY <1>7 DEF FinishCreate
  <2>2. CASE WithId(Id(n)) = {}
    BY <1>1, <1>7, <2>1, <2>2, SubsetKeepsLimit DEF FinishCreate
  <2>3. CASE WithId(Id(n)) # {}
    <3> DEFINE new == [GetServer(Id(n)) EXCEPT !.status = "ready"]
    <3>1. GetServer(Id(n)) \in Server
      BY <1>1, <2>3, GetServerFinds DEF WithId, TypeOK
    <3>2. new.owner = GetServer(Id(n)).owner /\ servers' = Updated(Id(n), new)
      BY <1>7, <2>3, <3>1 DEF FinishCreate, Server
    <3> HIDE DEF new
    <3> QED
      BY <1>1, <2>1, <2>3, <3>2, UpdateKeepsLimit
  <2> QED
    BY <2>2, <2>3
<1>8. ASSUME NEW n \in Slots, ReportProgress(n) \/ Proceed(n) PROVE LimitInv'
  <2>1. CASE Extracted(n) \/ ExtractFails(n)
    BY <1>7, <2>1 DEF Extracted, ExtractFails
  <2>2. CASE \/ EnsureDir(n) \/ EnsureDirFails(n) \/ ReportProgress(n)
             \/ RemoveFiles(n) \/ RemoveFilesFails(n)
    BY <1>1, <2>2, SubsetKeepsLimit
    DEF EnsureDir, EnsureDirFails, ReportProgress, RemoveFiles, RemoveFilesFails
  <2>3. CASE DeleteRecord(n)
    BY <1>1, <2>3, SubsetKeepsLimit DEF DeleteRecord, Without
  <2> QED
    BY <1>8, <2>1, <2>2, <2>3 DEF Proceed
<1> QED
  BY <1>2, <1>3, <1>4, <1>5, <1>6, <1>8 DEF Next, Serve, UserRequest

\* An account of role user never has more servers than its limit.
THEOREM PanelServerLimit == Spec => []ServerLimit
  BY InitLimitInv, StepLimitInv, PTL DEF Spec, LimitInv

-----------------------------------------------------------------------------
(* Records and machines, where no two creations share a millisecond.       *)

\* An id is issued once.
IdsInv ==
  /\ \A s, t \in servers : s.id = t.id => s = t
  /\ \A s \in servers : s.id < now
  /\ \A v \in running : v.id < now
  /\ \A n \in Slots : reqs[n].kind \in {"create", "delete"} => Id(n) < now

\* What a step makes of the records: it keeps one, changes one in place, its size
\* only while no machine runs from it, or adds one with an id that is new.
RecordsStep ==
  \A s \in servers' :
    \/ s \in servers
    \/ /\ running' = running
       /\ \E r \in servers : /\ s.id = r.id /\ s.owner = r.owner
                             /\ s.suspended = r.suspended
                             /\ s.ram = r.ram \/ ~IsRunning(r.id)
    \/ running' = running /\ s.id = now /\ ~s.suspended

\* And of the machines: one that is new was started as its record says.
MachinesStep ==
  \A v \in running' :
    \/ v \in running
    \/ /\ servers' = servers /\ users' = users
       /\ \E s \in servers : /\ s.id = v.id /\ s.owner = v.owner
                             /\ v.ram = MemorySize(s.ram) /\ ~s.suspended
                             /\ ~users[s.owner].suspended

MachinesInv ==
  \A v \in running, s \in servers :
    s.id = v.id => v.owner = s.owner /\ v.ram = MemorySize(s.ram)

LEMMA IdsTyped ==
  ASSUME TypeOK
  PROVE  /\ now \in Nat
         /\ \A s \in servers : s.id \in Nat /\ s.id \in Ids
         /\ \A v \in running : v.id \in Nat
         /\ \A n \in Slots : reqs[n].kind \in {"create", "delete"} => Id(n) \in Nat
<1>1. now \in Nat /\ Ids \subseteq Nat
  BY PanelAssumption DEF TypeOK, Ids
<1> QED
  BY <1>1, WaitingOK DEF TypeOK, Server, VM

\* The only record with its id.
LEMMA OneRecord ==
  ASSUME TypeOK, IdsInv, NEW s \in servers
  PROVE  WithId(s.id) = {s} /\ GetServer(s.id) = s
<1>1. WithId(s.id) = {s}
  BY DEF IdsInv, WithId
<1> QED
  BY <1>1, GetServerFinds

LEMMA BeginStep ==
  ASSUME TypeOK, NEW r, Begin(r)
  PROVE  \E n \in Slots : /\ reqs[n] = Idle /\ reqs'[n] = r
                          /\ \A m \in Slots \ {n} : reqs'[m] = reqs[m]
BY DEF Begin, TypeOK

\* A step that leaves the requests as they are, or ends or continues them.
LEMMA SameIds ==
  ASSUME TypeOK, IdsInv, TypeOK', now' \in {now, now + 1},
         servers' \subseteq servers, running' \subseteq running,
         \A n \in Slots : \/ reqs'[n] = reqs[n] \/ reqs'[n] = Idle
                          \/ reqs'[n].kind = reqs[n].kind /\ reqs'[n].dir = reqs[n].dir
  PROVE  IdsInv' /\ RecordsStep /\ MachinesStep
<1>1. now \in Nat /\ now' >= now
  BY IdsTyped
<1>2. \A n \in Slots : reqs'[n].kind \in {"create", "delete"} => Id(n)' < now'
  <2> SUFFICES ASSUME NEW n \in Slots, reqs'[n].kind \in {"create", "delete"}
               PROVE  Id(n)' < now'
    OBVIOUS
  <2>1. reqs'[n].dir = reqs[n].dir /\ reqs[n].kind \in {"create", "delete"}
    BY DEF Idle
  <2>2. Id(n)' = Id(n) /\ Id(n) \in Nat /\ Id(n) < now
    BY <2>1, IdsTyped DEF Id, IdsInv
  <2> QED
    BY <1>1, <2>2
<1>3. \A s \in servers' : s.id < now'
  BY <1>1, IdsTyped DEF IdsInv
<1>4. \A v \in running' : v.id < now'
  BY <1>1, IdsTyped DEF IdsInv
<1>5. \A s, t \in servers' : s.id = t.id => s = t
  BY DEF IdsInv
<1> QED
  BY <1>2, <1>3, <1>4, <1>5 DEF IdsInv, RecordsStep, MachinesStep

\* updateServer, on the one record with the id.
LEMMA UpdatedIds ==
  ASSUME TypeOK, IdsInv, NEW id, WithId(id) # {}, NEW new,
         new.id = id, servers' = Updated(id, new), now' = now
  PROVE  /\ GetServer(id) \in servers /\ GetServer(id).id = id
         /\ servers' = (servers \ {GetServer(id)}) \cup {new}
         /\ \A s, t \in servers' : s.id = t.id => s = t
         /\ \A s \in servers' : s.id < now'
<1>1. GetServer(id) \in servers /\ GetServer(id).id = id
  BY GetServerFinds DEF WithId
<1> DEFINE old == GetServer(id)
<1>2. servers' = (servers \ {old}) \cup {new}
  BY DEF Updated
<1>3. \A s \in servers \ {old} : s.id # id
  BY <1>1 DEF IdsInv
<1> HIDE DEF old
<1>4. \A s, t \in servers' : s.id = t.id => s = t
  BY <1>2, <1>3 DEF IdsInv
<1>5. \A s \in servers' : s.id < now'
  BY <1>1, <1>2 DEF IdsInv, old
<1> QED
  BY <1>1, <1>2, <1>4, <1>5 DEF old

LEMMA CreateRecord ==
  ASSUME TypeOK, IdsInv, OneCreatePerMs, NEW t \in tokens, NEW ram \in RamInputs,
         CreateServer(t, ram)
  PROVE  IdsInv' /\ RecordsStep /\ MachinesStep
<1>1. PICK p \in 1 .. MaxRecords : servers' = servers \cup
        {[pos |-> p, id |-> now, owner |-> t.id, ram |-> Stored(ram),
          status |-> "creating", suspended |-> FALSE]}
  BY DEF CreateServer
<1> DEFINE new == [pos |-> p, id |-> now, owner |-> t.id, ram |-> Stored(ram),
                   status |-> "creating", suspended |-> FALSE]
<1>2. servers' = servers \cup {new} /\ new.id = now /\ ~new.suspended
  BY <1>1
<1> HIDE DEF new
<1>3. now' = now + 1 /\ now \in Nat /\ running' = running
  BY IdsTyped DEF CreateServer
<1>4. PICK n \in Slots : /\ reqs'[n] = [kind |-> "create", stage |-> "mkdir",
                                        dir |-> <<t.id, now>>]
                         /\ \A m \in Slots \ {n} : reqs'[m] = reqs[m]
  BY BeginStep DEF CreateServer
<1>5. Id(n)' = now
  BY <1>4 DEF Id
<1>6. \A m \in Slots : reqs'[m].kind \in {"create", "delete"} => Id(m)' < now'
  <2> SUFFICES ASSUME NEW m \in Slots, reqs'[m].kind \in {"create", "delete"}
               PROVE  Id(m)' < now'
    OBVIOUS
  <2>1. CASE m = n
    BY <1>3, <1>5, <2>1
  <2>2. CASE m # n
    <3>1. Id(m)' = Id(m) /\ Id(m) \in Nat /\ Id(m) < now
      BY <1>4, <2>2, IdsTyped DEF Id, IdsInv
    <3> QED
      BY <1>3, <3>1
  <2> QED
    BY <2>1, <2>2
<1>7. \A s \in servers : s.id < now /\ s.id \in Nat
  BY IdsTyped DEF IdsInv
<1>8. \A s \in servers' : s.id < now'
  BY <1>2, <1>3, <1>7
<1>9. \A s, r \in servers' : s.id = r.id => s = r
  BY <1>2, <1>3, <1>7 DEF IdsInv
<1>10. \A v \in running' : v.id < now'
  BY <1>3, IdsTyped DEF IdsInv
<1> QED
  BY <1>2, <1>3, <1>6, <1>8, <1>9, <1>10 DEF IdsInv, RecordsStep, MachinesStep

\* The end of a creation changes the status of the record, if there still is one.
LEMMA FinishRecord ==
  ASSUME TypeOK, IdsInv, NEW n \in Slots, reqs[n].kind = "create", FinishCreate(n)
  PROVE  IdsInv' /\ RecordsStep /\ MachinesStep
<1>1. /\ now' = now /\ running' = running
      /\ \A m \in Slots : reqs'[m] = reqs[m] \/ reqs'[m] = Idle
  BY DEF FinishCreate, End, TypeOK
<1>2. \A m \in Slots : reqs'[m].kind \in {"create", "delete"} => Id(m)' < now'
  BY <1>1 DEF Id, Idle, IdsInv
<1>3. CASE WithId(Id(n)) = {}
  BY <1>1, <1>2, <1>3 DEF FinishCreate, IdsInv, RecordsStep, MachinesStep
<1>4. CASE WithId(Id(n)) # {}
  <2> DEFINE old == GetServer(Id(n))
             new == [old EXCEPT !.status = "ready"]
  <2>1. old \in servers /\ old \in Server /\ old.id = Id(n)
    BY <1>4, GetServerFinds DEF WithId, TypeOK
  <2>2. /\ new.id = old.id /\ new.owner = old.owner
        /\ new.ram = old.ram /\ new.suspended = old.suspended
    BY <2>1 DEF Server
  <2>3. servers' = Updated(Id(n), new)
    BY <1>4 DEF FinishCreate
  <2> HIDE DEF new
  <2>4. /\ servers' = (servers \ {old}) \cup {new}
        /\ \A s, t \in servers' : s.id = t.id => s = t
        /\ \A s \in servers' : s.id < now'
    BY <1>1, <1>4, <2>1, <2>2, <2>3, UpdatedIds
  <2> HIDE DEF old
  <2>5. RecordsStep
    BY <1>1, <2>1, <2>2, <2>4 DEF RecordsStep
  <2> QED
    BY <1>1, <1>2, <2>4, <2>5 DEF IdsInv, MachinesStep
<1> QED
  BY <1>3, <1>4

LEMMA BeginDeleteRecord ==
  ASSUME TypeOK, IdsInv, TypeOK', NEW id, WithId(id) # {}, BeginDelete(id)
  PROVE  IdsInv' /\ RecordsStep /\ MachinesStep
<1>1. /\ now' = now /\ running' \subseteq running /\ servers' \subseteq servers
      /\ \/ reqs' = reqs
         \/ Begin([kind |-> "delete", stage |-> "remove",
                   dir |-> <<GetServer(id).owner, id>>])
  BY DEF BeginDelete, Stopped, Without
<1>2. CASE reqs' = reqs
  BY <1>1, <1>2, SameIds
<1>3. CASE Begin([kind |-> "delete", stage |-> "remove",
                  dir |-> <<GetServer(id).owner, id>>])
  <2>1. PICK n \in Slots : /\ reqs'[n].dir = <<GetServer(id).owner, id>>
                           /\ \A m \in Slots \ {n} : reqs'[m] = reqs[m]
    BY <1>3, BeginStep
  <2>2. Id(n)' = id /\ id < now
    BY <2>1, GetServerFinds DEF Id, IdsInv, WithId
  <2>3. \A m \in Slots : reqs'[m].kind \in {"create", "delete"} => Id(m)' < now'
    BY <1>1, <2>1, <2>2 DEF Id, IdsInv
  <2> QED
    BY <1>1, <2>3 DEF IdsInv, RecordsStep, MachinesStep
<1> QED
  BY <1>1, <1>2, <1>3

LEMMA RequestRecord ==
  ASSUME TypeOK, IdsInv, TypeOK', NEW t \in tokens, NEW id \in Ids, ServerRequest(t, id)
  PROVE  IdsInv' /\ RecordsStep /\ MachinesStep
<1>1. MayUse(t, id) => GetServer(id) \in servers /\ GetServer(id).id = id /\ WithId(id) # {}
  BY GetServerFinds DEF MayUse, WithId
<1>2. CASE StartServer(t, id)
  <2> DEFINE s == GetServer(id)
             v == [id |-> id, owner |-> s.owner, ram |-> MemorySize(s.ram)]
  <2>1. /\ s \in servers /\ s.id = id /\ ~s.suspended /\ ~users[s.owner].suspended
        /\ UNCHANGED <<now, users, servers, reqs>> /\ running' = running \cup {v}
    BY <1>1, <1>2 DEF StartServer
  <2>2. v.id = id /\ v.owner = s.owner /\ v.ram = MemorySize(s.ram)
    OBVIOUS
  <2> HIDE DEF v, s
  <2>3. IdsInv'
    BY <2>1, <2>2 DEF IdsInv, Id
  <2>4. RecordsStep /\ MachinesStep
    BY <2>1, <2>2 DEF RecordsStep, MachinesStep
  <2> QED
    BY <2>3, <2>4
<1>3. CASE StopServer(t, id)
  BY <1>3, SameIds DEF StopServer, Stopped
<1>4. ASSUME NEW ram \in RamInputs, UpdateStartup(t, id, ram)
      PROVE  IdsInv' /\ RecordsStep /\ MachinesStep
  <2> DEFINE old == GetServer(id)
             new == [old EXCEPT !.ram = Stored(ram)]
  <2>1. /\ old \in servers /\ old.id = id /\ old \in Server /\ WithId(id) # {}
        /\ UNCHANGED <<now, users, running, reqs>> /\ ~IsRunning(id)
        /\ servers' = Updated(id, new)
    BY <1>1, <1>4 DEF UpdateStartup, TypeOK
  <2>2. new.id = old.id /\ new.owner = old.owner /\ new.suspended = old.suspended
    BY <2>1 DEF Server
  <2> HIDE DEF new
  <2>3. /\ servers' = (servers \ {old}) \cup {new}
        /\ \A s, r \in servers' : s.id = r.id => s = r
        /\ \A s \in servers' : s.id < now'
    BY <2>1, <2>2, UpdatedIds
  <2> HIDE DEF old
  <2>4. RecordsStep
    BY <2>1, <2>2, <2>3 DEF RecordsStep
  <2> QED
    BY <2>1, <2>3, <2>4 DEF IdsInv, MachinesStep, Id
<1>5. CASE DeleteServer(t, id)
  BY <1>1, <1>5, BeginDeleteRecord DEF DeleteServer
<1> QED
  BY <1>1, <1>2, <1>3, <1>4, <1>5 DEF ServerRequest

LEMMA RecordStep ==
  ASSUME TypeOK, IdsInv, TypeOK', OneCreatePerMs, Next
  PROVE  IdsInv' /\ RecordsStep /\ MachinesStep
<1>1. CASE Tick
  BY <1>1, SameIds DEF Tick
<1>2. ASSUME NEW u \in Users, Register(u) \/ Login(u)
      PROVE  IdsInv' /\ RecordsStep /\ MachinesStep
  BY <1>2, SameIds DEF Register, Login
<1>3. ASSUME NEW t \in tokens, UserRequest(t)
      PROVE  IdsInv' /\ RecordsStep /\ MachinesStep
  BY <1>3, CreateRecord, RequestRecord DEF UserRequest
<1>4. ASSUME NEW n \in Slots, ReportProgress(n) \/ Proceed(n)
      PROVE  IdsInv' /\ RecordsStep /\ MachinesStep
  <2>1. CASE Extracted(n) \/ ExtractFails(n)
    BY <2>1, FinishRecord DEF Extracted, ExtractFails, Waiting
  <2>2. CASE EnsureDir(n) \/ RemoveFiles(n)
    <3>1. reqs[n] \in Request /\ reqs[n].kind \in {"create", "delete"}
      BY <2>2 DEF EnsureDir, RemoveFiles, Waiting, TypeOK
    <3>2. PICK stage \in {"extract", "record"} :
            reqs' = [reqs EXCEPT ![n] = [reqs[n] EXCEPT !.stage = stage]]
      BY <2>2 DEF EnsureDir, RemoveFiles, Continue
    <3>3. LET k == [reqs[n] EXCEPT !.stage = stage]
          IN k.kind = reqs[n].kind /\ k.dir = reqs[n].dir
      BY <3>1, WaitingOK DEF CreateRequest, DeleteRequest
    <3>4. /\ UNCHANGED <<now, servers, running>>
          /\ \A m \in Slots : \/ reqs'[m] = reqs[m]
                              \/ /\ reqs'[m].kind = reqs[m].kind
                                 /\ reqs'[m].dir = reqs[m].dir
      BY <2>2, <3>2, <3>3 DEF EnsureDir, RemoveFiles, TypeOK
    <3> QED
      BY <3>4, SameIds
  <2>3. CASE EnsureDirFails(n) \/ RemoveFilesFails(n) \/ DeleteRecord(n) \/ ReportProgress(n)
    <3>1. /\ now' = now /\ servers' \subseteq servers /\ running' = running
          /\ \A m \in Slots : reqs'[m] = reqs[m] \/ reqs'[m] = Idle
      BY <2>3 DEF EnsureDirFails, RemoveFilesFails, DeleteRecord, ReportProgress, End, TypeOK,
         Without
    <3> QED
      BY <3>1, SameIds
  <2> QED
    BY <1>4, <2>1, <2>2, <2>3 DEF Proceed
<1>5. CASE Restart
  <2>1. UNCHANGED <<now, servers>> /\ running' = {} /\ \A m \in Slots : reqs'[m] = Idle
    BY <1>5 DEF Restart
  <2> QED
    BY <2>1, SameIds
<1> QED
  BY <1>1, <1>2, <1>3, <1>4, <1>5 DEF Next, Serve

LEMMA MachinesKept ==
  ASSUME TypeOK, IdsInv, MachinesInv, RecordsStep, MachinesStep
  PROVE  MachinesInv'
<1> SUFFICES ASSUME NEW v \in running', NEW s \in servers', s.id = v.id
             PROVE  v.owner = s.owner /\ v.ram = MemorySize(s.ram)
  BY DEF MachinesInv
<1>1. CASE v \in running
  <2>1. v.id # now
    BY <1>1, IdsTyped DEF IdsInv
  <2>2. IsRunning(v.id)
    BY <1>1 DEF IsRunning
  <2> QED
    BY <1>1, <2>1, <2>2 DEF RecordsStep, MachinesInv
<1>2. CASE v \notin running
  BY <1>2 DEF MachinesStep, IdsInv
<1> QED
  BY <1>1, <1>2

LEMMA StepRecordInv ==
  ASSUME OneCreatePerMs, TypeOK, IdsInv, MachinesInv, [Next]_vars
  PROVE  TypeOK' /\ IdsInv' /\ MachinesInv'
<1>1. TypeOK'
  BY StepTypeOK
<1>2. CASE UNCHANGED vars
  BY <1>1, <1>2 DEF vars, IdsInv, MachinesInv, Id
<1>3. CASE Next
  BY <1>1, <1>3, RecordStep, MachinesKept
<1> QED
  BY <1>1, <1>2, <1>3

LEMMA InitRecordInv == Init => IdsInv /\ MachinesInv
BY DEF Init, IdsInv, MachinesInv, Idle

\* A machine runs with the memory and in the directory of its record for as long
\* as there is one, where no two creations share an id: create, startup, start
\* and the end of a creation never disagree about a server that runs.
THEOREM PanelRunsAsRecorded ==
  ASSUME OneCreatePerMs
  PROVE  Spec => []RunningAsRecorded
<1>1. TypeOK /\ IdsInv /\ MachinesInv => RunningAsRecorded
  <2> SUFFICES ASSUME TypeOK, IdsInv, MachinesInv, NEW v \in running, WithId(v.id) # {}
               PROVE  /\ v.owner = GetServer(v.id).owner
                      /\ v.ram = MemorySize(GetServer(v.id).ram)
    BY DEF RunningAsRecorded
  <2>1. GetServer(v.id) \in servers /\ GetServer(v.id).id = v.id
    BY GetServerFinds DEF WithId
  <2> QED
    BY <2>1 DEF MachinesInv
<1>2. Init => TypeOK /\ IdsInv /\ MachinesInv
  BY InitTypeOK, InitRecordInv
<1>3. TypeOK /\ IdsInv /\ MachinesInv /\ [Next]_vars => TypeOK' /\ IdsInv' /\ MachinesInv'
  BY StepRecordInv
<1> QED
  BY <1>1, <1>2, <1>3, PTL DEF Spec

-----------------------------------------------------------------------------
(* Progress and files, where no two creations share a millisecond.         *)

Usable(s) == s.status = "ready" /\ disk[<<s.owner, s.id>>] = "full"

Creates(n, s) ==
  /\ reqs[n].kind = "create" /\ reqs[n].dir = <<s.owner, s.id>> /\ s.id \in progress
  /\ reqs[n].stage = "mkdir" => disk[<<s.owner, s.id>>] = "none"
  /\ reqs[n].stage = "extract" => disk[<<s.owner, s.id>>] = "filling"

\* A record is being deleted, usable, or being created.
RecordSound(s) ==
  Busy("delete", s.id) \/ Usable(s) \/ \E n \in Slots : Creates(n, s)

\* The handlers: one creation for an id, and each is for the owner in the record.
HandlersInv ==
  /\ \A m, n \in Slots :
       reqs[m].kind = "create" /\ reqs[n].kind = "create" /\ Id(m) = Id(n) => m = n
  /\ \A n \in Slots, s \in servers :
       reqs[n].kind \in {"create", "delete"} /\ Id(n) = s.id
         => reqs[n].dir = <<s.owner, s.id>>

\* No directory is used before its id is issued.
DirsInv == \A d \in Dirs : disk[d] # "none" => d[2] < now

SoundInv == faults = 0 => \A s \in servers : RecordSound(s)

ProgressInv == NoStaleProgress /\ HandlersInv /\ DirsInv /\ SoundInv

\* What SameIds asks of the handlers, with records that keep id and owner.
LEMMA SameHandlers ==
  ASSUME HandlersInv,
         \A n \in Slots : \/ reqs'[n] = reqs[n] \/ reqs'[n] = Idle
                          \/ reqs'[n].kind = reqs[n].kind /\ reqs'[n].dir = reqs[n].dir,
         \A s \in servers' : \E r \in servers : s.id = r.id /\ s.owner = r.owner
  PROVE  HandlersInv'
<1>1. \A n \in Slots : reqs'[n].kind \in {"create", "delete"} =>
        /\ reqs'[n].kind = reqs[n].kind /\ reqs'[n].dir = reqs[n].dir /\ Id(n)' = Id(n)
  BY DEF Idle, Id
<1>2. \A m, n \in Slots :
        reqs'[m].kind = "create" /\ reqs'[n].kind = "create" /\ Id(m)' = Id(n)' => m = n
  <2> SUFFICES ASSUME NEW m \in Slots, NEW n \in Slots, Id(m)' = Id(n)',
                      reqs'[m].kind = "create", reqs'[n].kind = "create"
               PROVE  m = n
    BY DEF Id
  <2>1. reqs[m].kind = "create" /\ reqs[n].kind = "create" /\ Id(m) = Id(n)
    BY <1>1
  <2> QED
    BY <2>1 DEF HandlersInv
<1>3. ASSUME NEW n \in Slots, NEW s \in servers', reqs'[n].kind \in {"create", "delete"},
             Id(n)' = s.id
      PROVE  reqs'[n].dir = <<s.owner, s.id>>
  <2>1. PICK r \in servers : s.id = r.id /\ s.owner = r.owner
    OBVIOUS
  <2>2. /\ reqs[n].kind \in {"create", "delete"} /\ Id(n) = r.id
        /\ reqs'[n].dir = reqs[n].dir
    BY <1>1, <1>3, <2>1
  <2> QED
    BY <2>1, <2>2 DEF HandlersInv
<1> QED
  BY <1>2, <1>3 DEF HandlersInv, Id

LEMMA SameDirs ==
  ASSUME TypeOK, DirsInv, now' \in {now, now + 1},
         \A d \in Dirs : disk'[d] # "none" => disk[d] # "none" \/ d[2] < now
  PROVE  DirsInv'
<1>1. now \in Nat /\ \A d \in Dirs : d[2] \in Nat
  BY IdsTyped, PanelAssumption DEF Dirs, Ids
<1> QED
  BY <1>1 DEF DirsInv

\* A step that has nothing to do with creations and deletions.
LEMMA QuietProgress ==
  ASSUME TypeOK, ProgressInv, now' \in {now, now + 1},
         UNCHANGED <<progress, disk, reqs, faults>>,
         \A s \in servers' : \E r \in servers : /\ s.id = r.id /\ s.owner = r.owner
                                                /\ s.status = r.status
  PROVE  ProgressInv'
<1>1. HandlersInv'
  BY SameHandlers DEF ProgressInv
<1>2. DirsInv'
  BY SameDirs DEF ProgressInv
<1>3. NoStaleProgress'
  BY DEF ProgressInv, NoStaleProgress, Busy, Id
<1>4. SoundInv'
  <2> SUFFICES ASSUME faults = 0, NEW s \in servers' PROVE RecordSound(s)'
    BY DEF SoundInv
  <2>1. PICK r \in servers : s.id = r.id /\ s.owner = r.owner /\ s.status = r.status
    OBVIOUS
  <2>2. RecordSound(r)
    BY DEF ProgressInv, SoundInv
  <2>3. \A n \in Slots : Id(n)' = Id(n)
    BY DEF Id
  <2> QED
    BY <2>1, <2>2, <2>3 DEF RecordSound, Busy, Usable, Creates
<1> QED
  BY <1>1, <1>2, <1>3, <1>4 DEF ProgressInv

LEMMA CreateProgress ==
  ASSUME TypeOK, IdsInv, ProgressInv, OneCreatePerMs, NEW t \in tokens, NEW ram \in RamInputs,
         CreateServer(t, ram)
  PROVE  ProgressInv'
<1>1. PICK p \in 1 .. MaxRecords : servers' = servers \cup
        {[pos |-> p, id |-> now, owner |-> t.id, ram |-> Stored(ram),
          status |-> "creating", suspended |-> FALSE]}
  BY DEF CreateServer
<1> DEFINE new == [pos |-> p, id |-> now, owner |-> t.id, ram |-> Stored(ram),
                   status |-> "creating", suspended |-> FALSE]
<1>2. servers' = servers \cup {new} /\ new.id = now /\ new.owner = t.id
  BY <1>1
<1> HIDE DEF new
<1>3. /\ now' = now + 1 /\ now \in Nat /\ UNCHANGED <<disk, faults>>
      /\ progress' = progress \cup {now} /\ <<t.id, now>> \in Dirs
  BY IdsTyped, PanelAssumption DEF CreateServer, Dirs, Ids, TypeOK, Token
<1>4. PICK n \in Slots : /\ reqs[n] = Idle
                         /\ reqs'[n] = [kind |-> "create", stage |-> "mkdir",
                                        dir |-> <<t.id, now>>]
                         /\ \A m \in Slots \ {n} : reqs'[m] = reqs[m]
  BY BeginStep DEF CreateServer
<1>5. /\ Id(n)' = now /\ reqs'[n].kind = "create" /\ reqs'[n].stage = "mkdir"
      /\ reqs'[n].dir = <<t.id, now>> /\ reqs[n].kind = "idle"
  BY <1>4 DEF Id, Idle
<1>6. \A m \in Slots \ {n} : Id(m)' = Id(m)
  BY <1>4 DEF Id
<1>7. \A m \in Slots : reqs[m].kind \in {"create", "delete"} => Id(m) # now
  BY <1>3, IdsTyped DEF IdsInv
<1>8. \A s \in servers : s.id # now
  BY <1>3, IdsTyped DEF IdsInv
<1>9. HandlersInv'
  <2>1. \A k, m \in Slots :
          reqs'[k].kind = "create" /\ reqs'[m].kind = "create" /\ Id(k)' = Id(m)' => k = m
    BY <1>4, <1>5, <1>6, <1>7 DEF ProgressInv, HandlersInv
  <2>2. ASSUME NEW m \in Slots, NEW s \in servers', reqs'[m].kind \in {"create", "delete"},
               Id(m)' = s.id
        PROVE  reqs'[m].dir = <<s.owner, s.id>>
    <3>1. CASE m = n
      BY <1>2, <1>5, <1>8, <2>2, <3>1
    <3>2. CASE m # n
      BY <1>2, <1>4, <1>6, <1>7, <2>2, <3>2 DEF ProgressInv, HandlersInv
    <3> QED
      BY <3>1, <3>2
  <2> QED
    BY <2>1, <2>2 DEF HandlersInv
<1>10. DirsInv'
  BY <1>3, SameDirs DEF ProgressInv
<1>11. \A k : \A id : Busy(k, id) /\ k # "idle" => Busy(k, id)'
  BY <1>4, <1>5, <1>6 DEF Busy
<1>12. NoStaleProgress'
  BY <1>3, <1>5, <1>11 DEF ProgressInv, NoStaleProgress, Busy
<1>13. SoundInv'
  <2> SUFFICES ASSUME faults = 0, NEW s \in servers' PROVE RecordSound(s)'
    BY <1>3 DEF SoundInv
  <2>1. CASE s = new
    <3>1. disk[<<t.id, now>>] = "none"
      BY <1>3 DEF ProgressInv, DirsInv
    <3>2. Creates(n, s)'
      BY <1>2, <1>3, <1>5, <2>1, <3>1 DEF Creates
    <3> QED
      BY <3>2 DEF RecordSound
  <2>2. CASE s \in servers
    <3>1. RecordSound(s)
      BY <2>2 DEF ProgressInv, SoundInv
    <3>2. ASSUME NEW m \in Slots, Creates(m, s) PROVE Creates(m, s)'
      <4>1. m # n
        BY <1>5, <3>2 DEF Creates
      <4> QED
        BY <1>3, <1>4, <3>2, <4>1 DEF Creates
    <3>3. Usable(s) => Usable(s)'
      BY <1>3 DEF Usable
    <3> QED
      BY <1>11, <3>1, <3>2, <3>3 DEF RecordSound
  <2> QED
    BY <1>2, <2>1, <2>2
<1> QED
  BY <1>9, <1>10, <1>12, <1>13 DEF ProgressInv

\* A handler goes on to its next stage.
LEMMA ContinueStep ==
  ASSUME TypeOK, NEW n \in Slots, reqs[n].kind \in {"create", "delete"}, NEW stage,
         Continue(n, stage)
  PROVE  /\ reqs'[n].kind = reqs[n].kind /\ reqs'[n].dir = reqs[n].dir
         /\ reqs'[n].stage = stage
         /\ \A m \in Slots \ {n} : reqs'[m] = reqs[m]
         /\ \A m \in Slots : Id(m)' = Id(m) /\ reqs'[m].kind = reqs[m].kind
         /\ \A k, id : Busy(k, id) <=> Busy(k, id)'
<1> DEFINE k == [reqs[n] EXCEPT !.stage = stage]
<1>1. reqs[n] \in CreateRequest \/ reqs[n] \in DeleteRequest
  BY WaitingOK
<1>2. k.kind = reqs[n].kind /\ k.dir = reqs[n].dir /\ k.stage = stage
  BY <1>1 DEF CreateRequest, DeleteRequest
<1>3. reqs' = [reqs EXCEPT ![n] = k]
  BY DEF Continue
<1> HIDE DEF k
<1>4. reqs'[n] = k /\ \A m \in Slots \ {n} : reqs'[m] = reqs[m]
  BY <1>3 DEF TypeOK
<1>5. \A m \in Slots : Id(m)' = Id(m) /\ reqs'[m].kind = reqs[m].kind
  BY <1>2, <1>4 DEF Id
<1> QED
  BY <1>2, <1>4, <1>5 DEF Busy

LEMMA EnsureDirProgress ==
  ASSUME TypeOK, IdsInv, ProgressInv, NEW n \in Slots, EnsureDir(n)
  PROVE  ProgressInv'
<1>1. /\ reqs[n].kind = "create" /\ reqs[n].stage = "mkdir" /\ reqs[n].dir \in Dirs
      /\ UNCHANGED <<now, servers, progress, faults>>
      /\ disk' = [disk EXCEPT ![reqs[n].dir] = IF @ = "none" THEN "filling" ELSE @]
  BY WaitingOK DEF EnsureDir, Waiting
<1>2. /\ reqs'[n].kind = "create" /\ reqs'[n].dir = reqs[n].dir /\ reqs'[n].stage = "extract"
      /\ \A m \in Slots \ {n} : reqs'[m] = reqs[m]
      /\ \A m \in Slots : Id(m)' = Id(m) /\ reqs'[m].kind = reqs[m].kind
      /\ \A k, id : Busy(k, id) <=> Busy(k, id)'
  BY <1>1, ContinueStep DEF EnsureDir
<1>3. /\ disk'[reqs[n].dir] = IF disk[reqs[n].dir] = "none" THEN "filling"
                              ELSE disk[reqs[n].dir]
      /\ \A d \in Dirs : d # reqs[n].dir => disk'[d] = disk[d]
  BY <1>1 DEF TypeOK
<1>4. reqs[n].dir[2] < now
  BY <1>1 DEF IdsInv, Id
<1>5. HandlersInv'
  BY <1>1, <1>2, SameHandlers DEF ProgressInv
<1>6. DirsInv'
  BY <1>1, <1>3, <1>4, SameDirs DEF ProgressInv
<1>7. NoStaleProgress'
  BY <1>1, <1>2 DEF ProgressInv, NoStaleProgress
<1>8. SoundInv'
  <2> SUFFICES ASSUME faults = 0, NEW s \in servers PROVE RecordSound(s)'
    BY <1>1 DEF SoundInv
  <2>1. RecordSound(s) /\ <<s.owner, s.id>> \in Dirs
    BY DEF ProgressInv, SoundInv, TypeOK, Server, Dirs
  <2>2. Usable(s) => Usable(s)'
    BY <1>3, <2>1 DEF Usable
  <2>3. ASSUME NEW m \in Slots, Creates(m, s) PROVE Creates(m, s)'
    <3>1. CASE m = n
      BY <1>1, <1>2, <1>3, <2>3, <3>1 DEF Creates
    <3>2. CASE m # n
      <4>1. reqs[m].kind = "create" /\ reqs[m].dir = <<s.owner, s.id>> /\ Id(m) = s.id
        BY <2>3 DEF Creates, Id
      <4>2. Id(n) # s.id
        BY <1>1, <3>2, <4>1 DEF ProgressInv, HandlersInv
      <4>3. reqs[n].dir # <<s.owner, s.id>>
        BY <4>2 DEF Id
      <4>4. disk'[<<s.owner, s.id>>] = disk[<<s.owner, s.id>>]
        BY <1>3, <2>1, <4>3
      <4> QED
        BY <1>1, <1>2, <2>3, <3>2, <4>4 DEF Creates
    <3> QED
      BY <3>1, <3>2
  <2> QED
    BY <1>2, <2>1, <2>2, <2>3 DEF RecordSound
<1> QED
  BY <1>5, <1>6, <1>7, <1>8 DEF ProgressInv

\* The end of a handler.
LEMMA EndStep ==
  ASSUME TypeOK, NEW n \in Slots, End(n)
  PROVE  /\ reqs'[n] = Idle /\ reqs'[n].kind = "idle"
         /\ \A m \in Slots \ {n} : reqs'[m] = reqs[m] /\ Id(m)' = Id(m)
BY DEF End, TypeOK, Idle, Id

\* The end of a creation changes the status of its record and nothing else.
LEMMA FinishKeeps ==
  ASSUME TypeOK, IdsInv, NEW n \in Slots, FinishCreate(n)
  PROVE  \A s \in servers' : \E r \in servers :
           /\ s.id = r.id /\ s.owner = r.owner
           /\ s.status = IF s.id = Id(n) THEN "ready" ELSE r.status
<1>1. CASE WithId(Id(n)) = {}
  BY <1>1 DEF FinishCreate, WithId
<1>2. CASE WithId(Id(n)) # {}
  <2> DEFINE old == GetServer(Id(n))
             new == [old EXCEPT !.status = "ready"]
  <2>1. old \in servers /\ old \in Server /\ old.id = Id(n)
    BY <1>2, GetServerFinds DEF WithId, TypeOK
  <2>2. new.id = old.id /\ new.owner = old.owner /\ new.status = "ready"
    BY <2>1 DEF Server
  <2>3. servers' = (servers \ {old}) \cup {new}
    BY <1>2 DEF FinishCreate, Updated
  <2> HIDE DEF new, old
  <2>4. \A r \in servers \ {old} : r.id # Id(n)
    BY <2>1 DEF IdsInv
  <2> QED
    BY <2>1, <2>2, <2>3, <2>4
<1> QED
  BY <1>1, <1>2

LEMMA ExtractedProgress ==
  ASSUME TypeOK, IdsInv, ProgressInv, NEW n \in Slots, Extracted(n)
  PROVE  ProgressInv'
<1>1. /\ reqs[n].kind = "create" /\ reqs[n].stage = "extract" /\ reqs[n].dir \in Dirs
      /\ reqs[n].dir[2] = Id(n) /\ Id(n) < now
      /\ UNCHANGED <<now, faults>> /\ progress' = progress \ {Id(n)}
      /\ FinishCreate(n)
  BY WaitingOK DEF Extracted, FinishCreate, Waiting, Id, IdsInv
<1>2. /\ reqs'[n].kind = "idle" /\ reqs'[n] = Idle
      /\ \A m \in Slots \ {n} : reqs'[m] = reqs[m] /\ Id(m)' = Id(m)
  BY <1>1, EndStep DEF FinishCreate
<1>3. /\ disk[reqs[n].dir] = "full" => disk'[reqs[n].dir] = "full"
      /\ disk[reqs[n].dir] = "filling" => disk'[reqs[n].dir] = "full"
      /\ \A d \in Dirs : d # reqs[n].dir => disk'[d] = disk[d]
  <2>1. PICK c \in CASE disk[reqs[n].dir] = "none"    -> {"none", "partial"}
                     [] disk[reqs[n].dir] = "filling" -> {"full"}
                     [] OTHER                         -> {disk[reqs[n].dir]} :
          disk' = [disk EXCEPT ![reqs[n].dir] = c]
    BY DEF Extracted
  <2>2. /\ disk'[reqs[n].dir] = c
        /\ \A d \in Dirs : d # reqs[n].dir => disk'[d] = disk[d]
    BY <1>1, <2>1 DEF TypeOK
  <2>3. /\ disk[reqs[n].dir] = "filling" => c = "full"
        /\ disk[reqs[n].dir] = "full" => c = "full"
    BY <2>1
  <2> QED
    BY <2>2, <2>3
<1>4. \A s \in servers' : \E r \in servers :
        /\ s.id = r.id /\ s.owner = r.owner
        /\ s.status = IF s.id = Id(n) THEN "ready" ELSE r.status
  BY <1>1, FinishKeeps
<1>5. HandlersInv'
  BY <1>2, <1>4, SameHandlers DEF ProgressInv
<1>6. DirsInv'
  BY <1>1, <1>3, SameDirs DEF ProgressInv
<1>7. \A id : Busy("delete", id) => Busy("delete", id)'
  BY <1>1, <1>2 DEF Busy
<1>8. NoStaleProgress'
  BY <1>1, <1>2 DEF ProgressInv, NoStaleProgress, Busy
<1>9. SoundInv'
  <2> SUFFICES ASSUME faults = 0, NEW s \in servers' PROVE RecordSound(s)'
    BY <1>1 DEF SoundInv
  <2>1. PICK r \in servers : /\ s.id = r.id /\ s.owner = r.owner
                             /\ s.status = IF s.id = Id(n) THEN "ready" ELSE r.status
    BY <1>4
  <2>2. RecordSound(r) /\ <<r.owner, r.id>> \in Dirs
    BY DEF ProgressInv, SoundInv, TypeOK, Server, Dirs
  <2>3. Usable(r) => Usable(s)'
    BY <1>3, <2>1, <2>2 DEF Usable
  <2>4. ASSUME NEW m \in Slots, Creates(m, r) PROVE Usable(s)' \/ Creates(m, s)'
    <3>1. CASE m = n
      <4>1. reqs[n].dir = <<r.owner, r.id>> /\ disk[<<r.owner, r.id>>] = "filling" /\ Id(n) = r.id
        BY <1>1, <2>4, <3>1 DEF Creates, Id
      <4> QED
        BY <1>3, <2>1, <4>1 DEF Usable
    <3>2. CASE m # n
      <4>1. reqs[m].kind = "create" /\ reqs[m].dir = <<r.owner, r.id>> /\ Id(m) = r.id
        BY <2>4 DEF Creates, Id
      <4>2. Id(n) # r.id
        BY <1>1, <3>2, <4>1 DEF ProgressInv, HandlersInv
      <4>3. disk'[<<r.owner, r.id>>] = disk[<<r.owner, r.id>>]
        BY <1>1, <1>3, <2>2, <4>2
      <4> QED
        BY <1>1, <1>2, <2>1, <2>4, <3>2, <4>2, <4>3 DEF Creates
    <3> QED
      BY <3>1, <3>2
  <2> QED
    BY <1>7, <2>1, <2>2, <2>3, <2>4 DEF RecordSound
<1> QED
  BY <1>5, <1>6, <1>8, <1>9 DEF ProgressInv

\* The start of a deletion: its handler is for the owner in the record.
LEMMA DeleteProgress ==
  ASSUME TypeOK, IdsInv, ProgressInv, NEW id \in Ids, WithId(id) # {}, BeginDelete(id)
  PROVE  ProgressInv'
<1>1. UNCHANGED <<now, progress, disk, faults>>
  BY DEF BeginDelete
<1>2. CASE reqs' = reqs /\ servers' \subseteq servers
  BY <1>1, <1>2, QuietProgress
<1> DEFINE k == [kind |-> "delete", stage |-> "remove", dir |-> <<GetServer(id).owner, id>>]
<1>3. CASE Begin(k) /\ servers' = servers
  <2>1. PICK n \in Slots : /\ reqs[n] = Idle /\ reqs'[n] = k
                           /\ \A m \in Slots \ {n} : reqs'[m] = reqs[m]
    BY <1>3, BeginStep
  <2>2. /\ reqs'[n].kind = "delete" /\ reqs'[n].dir = <<GetServer(id).owner, id>>
        /\ Id(n)' = id /\ reqs[n].kind = "idle"
        /\ \A m \in Slots \ {n} : Id(m)' = Id(m)
    BY <2>1 DEF Id, Idle
  <2>3. \A s \in servers : s.id = id => GetServer(id) = s
    BY OneRecord
  <2>4. HandlersInv'
    <3>1. ASSUME NEW m \in Slots, NEW s \in servers, reqs'[m].kind \in {"create", "delete"},
                 Id(m)' = s.id
          PROVE  reqs'[m].dir = <<s.owner, s.id>>
      <4>1. CASE m = n
        BY <2>2, <2>3, <3>1, <4>1
      <4>2. CASE m # n
        BY <2>1, <2>2, <3>1, <4>2 DEF ProgressInv, HandlersInv
      <4> QED
        BY <4>1, <4>2
    <3>2. \A j, m \in Slots :
            reqs'[j].kind = "create" /\ reqs'[m].kind = "create" /\ Id(j)' = Id(m)' => j = m
      BY <2>1, <2>2 DEF ProgressInv, HandlersInv
    <3> QED
      BY <1>3, <3>1, <3>2 DEF HandlersInv
  <2>5. DirsInv'
    BY <1>1, SameDirs DEF ProgressInv
  <2>6. \A j, i : Busy(j, i) /\ j # "idle" => Busy(j, i)'
    BY <2>1, <2>2 DEF Busy
  <2>7. NoStaleProgress'
    BY <1>1, <2>6 DEF ProgressInv, NoStaleProgress
  <2>8. SoundInv'
    <3> SUFFICES ASSUME faults = 0, NEW s \in servers PROVE RecordSound(s)'
      BY <1>1, <1>3 DEF SoundInv
    <3>1. RecordSound(s)
      BY DEF ProgressInv, SoundInv
    <3>2. \A m \in Slots : Creates(m, s) => Creates(m, s)'
      BY <1>1, <2>1, <2>2 DEF Creates
    <3> QED
      BY <1>1, <2>6, <3>1, <3>2 DEF RecordSound, Usable
  <2> QED
    BY <2>4, <2>5, <2>7, <2>8 DEF ProgressInv
<1> QED
  BY <1>2, <1>3 DEF BeginDelete, Without

LEMMA RemoveProgress ==
  ASSUME TypeOK, IdsInv, ProgressInv, NEW n \in Slots, RemoveFiles(n)
  PROVE  ProgressInv'
<1>1. /\ reqs[n].kind = "delete" /\ reqs[n].dir \in Dirs
      /\ UNCHANGED <<now, servers, progress, faults>>
      /\ disk' = [disk EXCEPT ![reqs[n].dir] = "none"]
  BY WaitingOK DEF RemoveFiles, Waiting
<1>2. /\ reqs'[n].kind = "delete" /\ reqs'[n].dir = reqs[n].dir
      /\ \A m \in Slots \ {n} : reqs'[m] = reqs[m]
      /\ \A m \in Slots : Id(m)' = Id(m) /\ reqs'[m].kind = reqs[m].kind
      /\ \A k, id : Busy(k, id) <=> Busy(k, id)'
  BY <1>1, ContinueStep DEF RemoveFiles
<1>3. /\ disk'[reqs[n].dir] = "none"
      /\ \A d \in Dirs : d # reqs[n].dir => disk'[d] = disk[d]
  BY <1>1 DEF TypeOK
<1>4. HandlersInv'
  BY <1>1, <1>2, SameHandlers DEF ProgressInv
<1>5. DirsInv'
  BY <1>1, <1>3, SameDirs DEF ProgressInv
<1>6. NoStaleProgress'
  BY <1>1, <1>2 DEF ProgressInv, NoStaleProgress
<1>7. SoundInv'
  <2> SUFFICES ASSUME faults = 0, NEW s \in servers PROVE RecordSound(s)'
    BY <1>1 DEF SoundInv
  <2>1. RecordSound(s) /\ <<s.owner, s.id>> \in Dirs
    BY DEF ProgressInv, SoundInv, TypeOK, Server, Dirs
  <2>2. CASE reqs[n].dir = <<s.owner, s.id>>
    <3>1. Busy("delete", s.id)
      BY <1>1, <2>2 DEF Busy, Id
    <3> QED
      BY <1>2, <3>1 DEF RecordSound
  <2>3. CASE reqs[n].dir # <<s.owner, s.id>>
    <3>1. disk'[<<s.owner, s.id>>] = disk[<<s.owner, s.id>>]
      BY <1>3, <2>1, <2>3
    <3>2. \A m \in Slots : Creates(m, s) => Creates(m, s)'
      BY <1>1, <1>2, <3>1 DEF Creates
    <3> QED
      BY <1>2, <2>1, <3>1, <3>2 DEF RecordSound, Usable
  <2> QED
    BY <2>2, <2>3
<1> QED
  BY <1>4, <1>5, <1>6, <1>7 DEF ProgressInv

LEMMA DeleteRecordProgress ==
  ASSUME TypeOK, ProgressInv, NEW n \in Slots, DeleteRecord(n)
  PROVE  ProgressInv'
<1>1. /\ reqs[n].kind = "delete" /\ UNCHANGED <<now, progress, disk, faults>>
      /\ servers' = {s \in servers : s.id # Id(n)}
  BY DEF DeleteRecord, Waiting, Without, WithId
<1>2. /\ reqs'[n] = Idle
      /\ \A m \in Slots \ {n} : reqs'[m] = reqs[m] /\ Id(m)' = Id(m)
  BY EndStep DEF DeleteRecord
<1>3. HandlersInv'
  BY <1>1, <1>2, SameHandlers DEF ProgressInv
<1>4. DirsInv'
  BY <1>1, SameDirs DEF ProgressInv
<1>5. NoStaleProgress'
  BY <1>1, <1>2 DEF ProgressInv, NoStaleProgress, Busy
<1>6. SoundInv'
  <2> SUFFICES ASSUME faults = 0, NEW s \in servers, s.id # Id(n) PROVE RecordSound(s)'
    BY <1>1 DEF SoundInv
  <2>1. RecordSound(s)
    BY DEF ProgressInv, SoundInv
  <2>2. Busy("delete", s.id) => Busy("delete", s.id)'
    BY <1>2 DEF Busy
  <2>3. \A m \in Slots : Creates(m, s) => Creates(m, s)'
    BY <1>1, <1>2 DEF Creates
  <2> QED
    BY <1>1, <2>1, <2>2, <2>3 DEF RecordSound, Usable
<1> QED
  BY <1>3, <1>4, <1>5, <1>6 DEF ProgressInv

LEMMA ReportProgressKept ==
  ASSUME TypeOK, ProgressInv, NEW n \in Slots, ReportProgress(n)
  PROVE  ProgressInv'
<1>1. /\ reqs[n].kind = "create" /\ progress' = progress \cup {Id(n)}
      /\ UNCHANGED <<now, servers, disk, reqs, faults>>
  BY DEF ReportProgress, Waiting
<1>2. \A m \in Slots : Id(m)' = Id(m)
  BY <1>1 DEF Id
<1>3. HandlersInv'
  BY <1>1, SameHandlers DEF ProgressInv
<1>4. DirsInv'
  BY <1>1, SameDirs DEF ProgressInv
<1>5. NoStaleProgress'
  BY <1>1, <1>2 DEF ProgressInv, NoStaleProgress, Busy
<1>6. SoundInv'
  BY <1>1, <1>2 DEF ProgressInv, SoundInv, RecordSound, Busy, Usable, Creates
<1> QED
  BY <1>3, <1>4, <1>5, <1>6 DEF ProgressInv

\* Behind a failure only the handlers and the directories matter.
LEMMA FaultProgress ==
  ASSUME TypeOK, IdsInv, ProgressInv, TypeOK', faults' = faults + 1, now' = now,
         \A n \in Slots : reqs'[n] = reqs[n] \/ reqs'[n] = Idle,
         \A s \in servers' : \E r \in servers : s.id = r.id /\ s.owner = r.owner,
         \A d \in Dirs : disk'[d] # "none" => disk[d] # "none" \/ d[2] < now
  PROVE  ProgressInv'
<1>1. faults \in Nat /\ faults' # 0 /\ faults' > 0
  BY PanelAssumption DEF TypeOK
<1>2. HandlersInv'
  BY SameHandlers DEF ProgressInv
<1>3. DirsInv'
  BY SameDirs DEF ProgressInv
<1>4. NoStaleProgress' /\ SoundInv'
  BY <1>1 DEF NoStaleProgress, SoundInv
<1> QED
  BY <1>2, <1>3, <1>4 DEF ProgressInv

LEMMA AccountProgress ==
  ASSUME TypeOK, IdsInv, ProgressInv, Tick \/ \E u \in Users : Register(u) \/ Login(u)
  PROVE  ProgressInv'
<1>1. /\ now' \in {now, now + 1}
      /\ UNCHANGED <<servers, progress, disk, reqs, faults>>
  BY DEF Tick, Register, Login
<1> QED
  BY <1>1, QuietProgress

LEMMA RequestProgress ==
  ASSUME TypeOK, IdsInv, ProgressInv, NEW t \in tokens, NEW id \in Ids, ServerRequest(t, id)
  PROVE  ProgressInv'
<1>1. CASE StartServer(t, id) \/ StopServer(t, id)
  <2>1. UNCHANGED <<now, servers, progress, disk, reqs, faults>>
    BY <1>1 DEF StartServer, StopServer
  <2> QED
    BY <2>1, QuietProgress
<1>2. ASSUME NEW ram \in RamInputs, UpdateStartup(t, id, ram)
      PROVE  ProgressInv'
  <2> DEFINE old == GetServer(id)
             new == [old EXCEPT !.ram = Stored(ram)]
  <2>1. /\ servers' = (servers \ {old}) \cup {new}
        /\ UNCHANGED <<now, progress, disk, reqs, faults>> /\ WithId(id) # {}
    BY <1>2 DEF UpdateStartup, MayUse, Updated
  <2>2. old \in servers /\ old \in Server
    BY <2>1, GetServerFinds DEF WithId, TypeOK
  <2>3. new.id = old.id /\ new.owner = old.owner /\ new.status = old.status
    BY <2>2 DEF Server
  <2> HIDE DEF new, old
  <2>4. \A s \in servers' : \E r \in servers : /\ s.id = r.id /\ s.owner = r.owner
                                               /\ s.status = r.status
    BY <2>1, <2>2, <2>3
  <2> QED
    BY <2>1, <2>4, QuietProgress
<1>3. CASE DeleteServer(t, id)
  BY <1>3, DeleteProgress DEF DeleteServer, MayUse
<1> QED
  BY <1>1, <1>2, <1>3 DEF ServerRequest

\* The failures: a handler or all of them end, and no directory becomes one.
LEMMA FailureProgress ==
  ASSUME TypeOK, IdsInv, ProgressInv, TypeOK',
         Restart \/ \E n \in Slots : EnsureDirFails(n) \/ ExtractFails(n) \/ RemoveFilesFails(n)
  PROVE  ProgressInv'
<1>1. CASE Restart
  <2>1. /\ faults' = faults + 1 /\ now' = now /\ servers' = servers
        /\ \A n \in Slots : reqs'[n] = Idle
        /\ \A d \in Dirs : disk'[d] # "none" => disk[d] # "none"
    BY <1>1 DEF Restart, Fault
  <2> QED
    BY <2>1, FaultProgress
<1>2. ASSUME NEW n \in Slots, EnsureDirFails(n)
      PROVE  ProgressInv'
  <2>1. faults' = faults + 1 /\ UNCHANGED <<now, servers, disk>> /\ End(n)
    BY <1>2 DEF EnsureDirFails, Fault
  <2>2. \A m \in Slots : reqs'[m] = reqs[m] \/ reqs'[m] = Idle
    BY <2>1, EndStep
  <2> QED
    BY <2>1, <2>2, FaultProgress
<1>3. ASSUME NEW n \in Slots, ExtractFails(n)
      PROVE  ProgressInv'
  <2>1. /\ faults' = faults + 1 /\ now' = now /\ End(n) /\ FinishCreate(n)
        /\ reqs[n].kind = "create" /\ reqs[n].dir \in Dirs
        /\ disk' = [disk EXCEPT ![reqs[n].dir] = IF @ = "filling" THEN "partial" ELSE @]
    BY <1>3, WaitingOK DEF ExtractFails, FinishCreate, Fault, Waiting
  <2>2. \A m \in Slots : reqs'[m] = reqs[m] \/ reqs'[m] = Idle
    BY <2>1, EndStep
  <2>3. \A d \in Dirs : disk'[d] # "none" => disk[d] # "none"
    BY <2>1 DEF TypeOK
  <2>4. \A s \in servers' : \E r \in servers : s.id = r.id /\ s.owner = r.owner
    BY <2>1, FinishKeeps
  <2> QED
    BY <2>1, <2>2, <2>3, <2>4, FaultProgress
<1>4. ASSUME NEW n \in Slots, RemoveFilesFails(n)
      PROVE  ProgressInv'
  <2>1. /\ faults' = faults + 1 /\ now' = now /\ servers' = servers /\ End(n)
        /\ reqs[n].kind = "delete" /\ reqs[n].dir \in Dirs
        /\ disk' = [disk EXCEPT ![reqs[n].dir] = IF @ = "none" THEN @ ELSE "partial"]
    BY <1>4, WaitingOK DEF RemoveFilesFails, Fault, Waiting
  <2>2. \A m \in Slots : reqs'[m] = reqs[m] \/ reqs'[m] = Idle
    BY <2>1, EndStep
  <2>3. \A d \in Dirs : disk'[d] # "none" => disk[d] # "none"
    BY <2>1 DEF TypeOK
  <2> QED
    BY <2>1, <2>2, <2>3, FaultProgress
<1> QED
  BY <1>1, <1>2, <1>3, <1>4

LEMMA NextProgress ==
  ASSUME TypeOK, IdsInv, ProgressInv, TypeOK', OneCreatePerMs, Next
  PROVE  ProgressInv'
<1>1. CASE Tick \/ \E u \in Users : Register(u) \/ Login(u)
  BY <1>1, AccountProgress
<1>2. ASSUME NEW t \in tokens, UserRequest(t)
      PROVE  ProgressInv'
  BY <1>2, CreateProgress, RequestProgress DEF UserRequest
<1>3. ASSUME NEW n \in Slots, ReportProgress(n) \/ Proceed(n)
      PROVE  ProgressInv'
  BY <1>3, ReportProgressKept, EnsureDirProgress, ExtractedProgress, RemoveProgress,
     DeleteRecordProgress, FailureProgress DEF Proceed
<1>4. CASE Restart
  BY <1>4, FailureProgress
<1> QED
  BY <1>1, <1>2, <1>3, <1>4 DEF Next, Serve

LEMMA InitProgressInv == Init => ProgressInv
<1> SUFFICES ASSUME Init PROVE ProgressInv
  OBVIOUS
<1>1. \A n \in Slots : reqs[n].kind = "idle"
  BY DEF Init, Idle
<1> QED
  BY <1>1 DEF Init, ProgressInv, NoStaleProgress, HandlersInv, DirsInv, SoundInv

\* What holds of every state that no two creations of one millisecond lead to.
OneCreateInv == TypeOK /\ IdsInv /\ MachinesInv /\ ProgressInv

LEMMA StepOneCreateInv ==
  ASSUME OneCreatePerMs, OneCreateInv, [Next]_vars
  PROVE  OneCreateInv'
<1>1. TypeOK' /\ IdsInv' /\ MachinesInv'
  BY StepRecordInv DEF OneCreateInv
<1>2. CASE UNCHANGED vars
  <2>1. UNCHANGED <<now, servers, progress, disk, reqs, faults>>
    BY <1>2 DEF vars
  <2>2. ProgressInv'
    BY <2>1, QuietProgress DEF OneCreateInv
  <2> QED
    BY <1>1, <2>2 DEF OneCreateInv
<1>3. CASE Next
  BY <1>1, <1>3, NextProgress DEF OneCreateInv
<1> QED
  BY <1>2, <1>3

LEMMA OneCreateAlways ==
  ASSUME OneCreatePerMs
  PROVE  Spec => []OneCreateInv
<1>1. Init => OneCreateInv
  BY InitTypeOK, InitRecordInv, InitProgressInv DEF OneCreateInv
<1>2. OneCreateInv /\ [Next]_vars => OneCreateInv'
  BY StepOneCreateInv
<1> QED
  BY <1>1, <1>2, PTL DEF Spec

\* Where no two creations share an id, an entry of creationProgress belongs to a
\* creation in flight, unless something has failed: reports of the extraction
\* come before its end, and the end deletes the entry.
THEOREM PanelNoStaleProgress ==
  ASSUME OneCreatePerMs
  PROVE  Spec => []NoStaleProgress
<1>1. OneCreateInv => NoStaleProgress
  BY DEF OneCreateInv, ProgressInv
<1> QED
  BY <1>1, OneCreateAlways, PTL

\* Where no two creations share an id and nothing has failed, a server that
\* creation-progress reports complete has all its files and is ready, unless it
\* is being deleted.
THEOREM PanelCompleteMeansUsable ==
  ASSUME OneCreatePerMs
  PROVE  Spec => []CompleteMeansUsable
<1>1. OneCreateInv => CompleteMeansUsable
  BY DEF OneCreateInv, ProgressInv, SoundInv, RecordSound, Usable, Creates,
     CompleteMeansUsable, ReportsComplete
<1> QED
  BY <1>1, OneCreateAlways, PTL

\* Where no two creations share an id, the end of a deletion removes the record
\* of the account whose files it removed, and no other: nothing changes the
\* owner of a record while its files go.
THEOREM PanelDeletesOnlyItsOwner ==
  ASSUME OneCreatePerMs
  PROVE  Spec => DeletesOnlyItsOwner
<1>1. OneCreateInv /\ [Next]_vars =>
        [\A n \in Slots :
           DeleteRecord(n) => \A s \in servers \ servers' : s.owner = Owner(n)]_vars
  <2> SUFFICES ASSUME OneCreateInv, NEW n \in Slots, DeleteRecord(n),
                      NEW s \in servers \ servers'
               PROVE  s.owner = Owner(n)
    OBVIOUS
  <2>1. reqs[n].kind = "delete" /\ s.id = Id(n)
    BY DEF DeleteRecord, Waiting, Without, WithId
  <2> QED
    BY <2>1 DEF OneCreateInv, ProgressInv, HandlersInv, Owner
<1> QED
  BY <1>1, OneCreateAlways, PTL DEF Spec, DeletesOnlyItsOwner

\* A directory that is complete loses files only to a deletion of its server, for
\* whatever ids and whatever fails: a restart or a failed extraction touches only
\* what is still being unpacked.
THEOREM PanelFilesPersist == Spec => FilesPersist
<1>1. TypeOK /\ [Next]_vars =>
        [\A d \in Dirs :
           (disk[d] = "full" /\ disk'[d] # "full") =>
             \E n \in Slots : reqs[n].kind = "delete" /\ reqs[n].dir = d]_vars
  <2> SUFFICES ASSUME TypeOK, Next, NEW d \in Dirs, disk[d] = "full", disk'[d] # "full"
               PROVE  \E n \in Slots : reqs[n].kind = "delete" /\ reqs[n].dir = d
    OBVIOUS
  <2>1. disk' # disk
    OBVIOUS
  <2>2. ~Restart
    BY DEF Restart
  <2>3. PICK n \in Slots : \/ EnsureDir(n) \/ Extracted(n) \/ ExtractFails(n)
                           \/ RemoveFiles(n) \/ RemoveFilesFails(n)
    BY <2>1, <2>2 DEF Next, Serve, Tick, Register, Login, UserRequest, CreateServer,
       ServerRequest, StartServer, StopServer, UpdateStartup, DeleteServer, BeginDelete,
       ReportProgress, Proceed, EnsureDirFails, DeleteRecord
  <2>4. reqs[n].dir = d /\ ~EnsureDir(n) /\ ~Extracted(n) /\ ~ExtractFails(n)
    BY <2>3 DEF EnsureDir, Extracted, ExtractFails, RemoveFiles, RemoveFilesFails, TypeOK
  <2> QED
    BY <2>3, <2>4 DEF RemoveFiles, RemoveFilesFails, Waiting
<1> QED
  BY <1>1, PanelTypeCorrect, PTL DEF Spec, FilesPersist

-----------------------------------------------------------------------------
(* The sum of the sizes of some servers: TotalRam takes them one by one in  *)
(* the order of CHOOSE, and the order does not matter.                      *)

\* The server that the fold takes first.
Any(S) == CHOOSE x \in S : TRUE

\* The sums of all subsets of S, as the fold of TotalRam computes them.
IsSums(g, S) ==
  g = [s \in SUBSET S |-> IF s = {} THEN 0 ELSE LET x == Any(s) IN x.ram + g[s \ {x}]]

Sums(S) == CHOOSE g : IsSums(g, S)

\* TotalRam is the sum that Sums has for the whole set.
LEMMA TotalIs ==
  ASSUME NEW S
  PROVE  TotalRam(S) = Sums(S)[S]
BY DEF TotalRam, MapThenSumSet, MapThenFoldSet, Sums, IsSums, Any

\* Each sum is that of one server and the others.
LEMMA SumsOf ==
  ASSUME NEW S, NEW g, IsSums(g, S), NEW U \in SUBSET S
  PROVE  g[U] = IF U = {} THEN 0 ELSE Any(U).ram + g[U \ {Any(U)}]
BY DEF IsSums

\* CHOOSE takes a member of a set that has one.
LEMMA AnyIn ==
  ASSUME NEW S, S # {}
  PROVE  Any(S) \in S
BY DEF Any

\* A smaller set.
LEMMA Smaller ==
  ASSUME NEW S, IsFiniteSet(S), NEW x \in S
  PROVE  /\ IsFiniteSet(S \ {x})
         /\ Cardinality(S) \in Nat /\ Cardinality(S \ {x}) \in Nat
         /\ Cardinality(S \ {x}) < Cardinality(S)
<1>1. IsFiniteSet(S \ {x}) /\ Cardinality(S \ {x}) = Cardinality(S) - 1
  BY FS_RemoveElement
<1>2. Cardinality(S) \in Nat /\ Cardinality(S \ {x}) \in Nat
  BY <1>1, FS_CardinalityType
<1> QED
  BY <1>1, <1>2

\* There is one sum only of a set, whatever it is a subset of.
LEMMA SumsUnique ==
  ASSUME NEW S, NEW T, NEW g, NEW h, IsSums(g, S), IsSums(h, T), NEW V, IsFiniteSet(V),
         V \subseteq S, V \subseteq T
  PROVE  g[V] = h[V]
<1> DEFINE Bad == {U \in SUBSET V : g[U] # h[U]}
           Sizes == {Cardinality(U) : U \in Bad}
<1>1. \A U \in SUBSET V : IsFiniteSet(U) /\ Cardinality(U) \in Nat
  BY FS_Subset, FS_CardinalityType
<1>2. SUFFICES ASSUME Bad # {}
               PROVE  FALSE
  OBVIOUS
<1>3. Sizes \subseteq Nat /\ Sizes # {}
  BY <1>1, <1>2
<1>4. PICK m \in Sizes : \A k \in Sizes : m <= k
  BY <1>3, LeastNatural
<1>5. PICK U \in Bad : Cardinality(U) = m
  BY <1>4
<1>6. U \subseteq V /\ U \in SUBSET S /\ U \in SUBSET T /\ g[U] # h[U] /\ IsFiniteSet(U)
  BY <1>1, <1>5
<1> DEFINE y == Any(U)
           R == U \ {y}
<1>7. /\ g[U] = IF U = {} THEN 0 ELSE y.ram + g[R]
      /\ h[U] = IF U = {} THEN 0 ELSE y.ram + h[R]
  BY <1>6, SumsOf
<1>8. U # {}
  BY <1>6, <1>7
<1>9. y \in U
  BY <1>8, AnyIn
<1>10. Cardinality(R) < Cardinality(U) /\ Cardinality(R) \in Nat /\ Cardinality(U) \in Nat
  BY <1>6, <1>9, Smaller
<1>11. R \notin Bad
  BY <1>4, <1>5, <1>10
<1>12. g[R] = h[R]
  BY <1>6, <1>11
<1> QED
  BY <1>6, <1>7, <1>8, <1>12

\* And there is one: the sums of the smaller sets make that of a set.
LEMMA SumsExist ==
  ASSUME NEW S, IsFiniteSet(S)
  PROVE  IsSums(Sums(S), S)
<1> DEFINE Bad == {U \in SUBSET S : ~IsSums(Sums(U), U)}
           Sizes == {Cardinality(U) : U \in Bad}
<1>1. \A U \in SUBSET S : IsFiniteSet(U) /\ Cardinality(U) \in Nat
  BY FS_Subset, FS_CardinalityType
<1>2. SUFFICES ASSUME Bad # {}
               PROVE  FALSE
  OBVIOUS
<1>3. Sizes \subseteq Nat /\ Sizes # {}
  BY <1>1, <1>2
<1>4. PICK m \in Sizes : \A k \in Sizes : m <= k
  BY <1>3, LeastNatural
<1>5. PICK T \in Bad : Cardinality(T) = m
  BY <1>4
<1>6. T \subseteq S /\ ~IsSums(Sums(T), T) /\ IsFiniteSet(T)
  BY <1>1, <1>5
<1>7. ASSUME NEW U \in SUBSET T, U # T
      PROVE  IsSums(Sums(U), U)
  <2>1. PICK x \in T : x \notin U
    BY <1>7
  <2>2. U \in SUBSET (T \ {x})
    BY <2>1
  <2>3. /\ Cardinality(T \ {x}) < Cardinality(T) /\ IsFiniteSet(T \ {x})
        /\ Cardinality(T \ {x}) \in Nat /\ Cardinality(T) \in Nat
    BY <1>6, <2>1, Smaller
  <2>4. Cardinality(U) <= Cardinality(T \ {x}) /\ Cardinality(U) \in Nat
    BY <1>1, <1>6, <2>2, <2>3, FS_Subset
  <2>5. U \notin Bad
    BY <1>4, <1>5, <2>3, <2>4
  <2> QED
    BY <1>6, <2>5
<1> DEFINE Rest(U) == U \ {Any(U)}
           h == [U \in SUBSET T |-> IF U = {} THEN 0 ELSE Any(U).ram + Sums(Rest(U))[Rest(U)]]
<1>8. ASSUME NEW U \in SUBSET T, U # {}
      PROVE  h[Rest(U)] = Sums(Rest(U))[Rest(U)]
  <2> DEFINE V == Rest(U)
             W == Rest(V)
  <2>1. Any(U) \in U
    BY <1>8, AnyIn
  <2>2. V \in SUBSET T /\ V # T
    BY <2>1
  <2>3. IsSums(Sums(V), V)
    BY <1>7, <2>2
  <2>4. Sums(V)[V] = IF V = {} THEN 0 ELSE Any(V).ram + Sums(V)[W]
    <3>1. V \in SUBSET V
      OBVIOUS
    <3> HIDE DEF V
    <3> QED
      BY <2>3, <3>1, SumsOf
  <2>5. h[V] = IF V = {} THEN 0 ELSE Any(V).ram + Sums(W)[W]
    BY <2>2
  <2>6. V # {} => Sums(V)[W] = Sums(W)[W]
    <3> SUFFICES ASSUME V # {}
                 PROVE  Sums(V)[W] = Sums(W)[W]
      OBVIOUS
    <3>1. Any(V) \in V
      BY AnyIn
    <3>2. W \in SUBSET T /\ W # T /\ W \subseteq V /\ W \in SUBSET S
      BY <1>6, <2>2, <3>1
    <3>3. IsSums(Sums(W), W) /\ IsFiniteSet(W)
      BY <1>1, <1>7, <3>2
    <3> HIDE DEF V, W
    <3> QED
      BY <2>3, <3>2, <3>3, SumsUnique
  <2> QED
    BY <2>4, <2>5, <2>6
<1>9. IsSums(h, T)
  <2>1. \A U \in SUBSET T :
          (IF U = {} THEN 0 ELSE Any(U).ram + Sums(Rest(U))[Rest(U)])
            = (IF U = {} THEN 0 ELSE Any(U).ram + h[U \ {Any(U)}])
    BY <1>8
  <2>2. h = [U \in SUBSET T |-> IF U = {} THEN 0 ELSE Any(U).ram + h[U \ {Any(U)}]]
    BY <2>1
  <2> HIDE DEF h
  <2> QED
    BY <2>2 DEF IsSums
<1>10. IsSums(Sums(T), T)
  <2> HIDE DEF h
  <2> QED
    BY <1>9 DEF Sums
<1> QED
  BY <1>6, <1>10

\* TotalRam takes any one server first.
LEMMA TotalOf ==
  ASSUME NEW S, IsFiniteSet(S)
  PROVE  TotalRam(S) = IF S = {} THEN 0 ELSE Any(S).ram + TotalRam(S \ {Any(S)})
<1> DEFINE V == S \ {Any(S)}
<1>1. IsFiniteSet(V) /\ V \subseteq S
  BY FS_Subset
<1>2. IsSums(Sums(S), S) /\ IsSums(Sums(V), V)
  BY <1>1, SumsExist
<1>3. Sums(S)[V] = Sums(V)[V]
  BY <1>1, <1>2, SumsUnique
<1>4. Sums(S)[S] = IF S = {} THEN 0 ELSE Any(S).ram + Sums(S)[V]
  <2> DEFINE G == Sums(S)
  <2>1. S \in SUBSET S
    OBVIOUS
  <2>2. IsSums(G, S)
    BY <1>2
  <2> HIDE DEF G
  <2>3. G[S] = IF S = {} THEN 0 ELSE Any(S).ram + G[S \ {Any(S)}]
    BY <2>1, <2>2, SumsOf, Zenon
  <2> QED
    BY <2>3 DEF G
<1> QED
  BY <1>3, <1>4, TotalIs

\* Finitely many servers, whose sizes are numbers.
Sized(S) == IsFiniteSet(S) /\ \A s \in S : s.ram \in Nat

\* The sum of sizes is a size.
LEMMA TotalNat ==
  ASSUME NEW S, Sized(S)
  PROVE  TotalRam(S) \in Nat
<1> DEFINE Bad == {U \in SUBSET S : TotalRam(U) \notin Nat}
           Sizes == {Cardinality(U) : U \in Bad}
<1>1. \A U \in SUBSET S : IsFiniteSet(U) /\ Cardinality(U) \in Nat
  BY FS_Subset, FS_CardinalityType DEF Sized
<1>2. SUFFICES ASSUME Bad # {}
               PROVE  FALSE
  OBVIOUS
<1>3. Sizes \subseteq Nat /\ Sizes # {}
  BY <1>1, <1>2
<1>4. PICK m \in Sizes : \A k \in Sizes : m <= k
  BY <1>3, LeastNatural
<1>5. PICK U \in Bad : Cardinality(U) = m
  BY <1>4
<1>6. U \subseteq S /\ TotalRam(U) \notin Nat /\ IsFiniteSet(U)
  BY <1>1, <1>5
<1>7. TotalRam(U) = IF U = {} THEN 0 ELSE Any(U).ram + TotalRam(U \ {Any(U)})
  BY <1>6, TotalOf
<1>8. U # {}
  BY <1>6, <1>7
<1>9. Any(U) \in U /\ Any(U).ram \in Nat
  BY <1>6, <1>8, AnyIn DEF Sized
<1>10. /\ Cardinality(U \ {Any(U)}) < Cardinality(U)
       /\ Cardinality(U \ {Any(U)}) \in Nat /\ Cardinality(U) \in Nat
  BY <1>6, <1>9, Smaller
<1>11. U \ {Any(U)} \notin Bad
  BY <1>4, <1>5, <1>10
<1>12. TotalRam(U \ {Any(U)}) \in Nat
  BY <1>6, <1>11
<1> QED
  BY <1>6, <1>7, <1>8, <1>9, <1>12

\* A server more adds its size.
LEMMA TotalAdd ==
  ASSUME NEW Z, Sized(Z), NEW S, NEW x, S \subseteq Z, x \in Z, x \notin S
  PROVE  TotalRam(S \cup {x}) = TotalRam(S) + x.ram
<1> DEFINE Adds(U, y) == TotalRam(U \cup {y}) = TotalRam(U) + y.ram
           Bad == {U \in SUBSET Z : \E y \in Z \ U : ~Adds(U, y)}
           Sizes == {Cardinality(U) : U \in Bad}
<1>1. \A U \in SUBSET Z : /\ IsFiniteSet(U) /\ Cardinality(U) \in Nat /\ TotalRam(U) \in Nat
                          /\ \A y \in Z : y.ram \in Nat
  BY FS_Subset, FS_CardinalityType, TotalNat DEF Sized
<1>2. SUFFICES ASSUME Bad # {}
               PROVE  FALSE
  OBVIOUS
<1>3. Sizes \subseteq Nat /\ Sizes # {}
  BY <1>1, <1>2
<1>4. PICK m \in Sizes : \A k \in Sizes : m <= k
  BY <1>3, LeastNatural
<1>5. PICK U \in Bad : Cardinality(U) = m
  BY <1>4
<1>6. PICK y \in Z \ U : ~Adds(U, y)
  BY <1>5
<1>7. U \in SUBSET Z /\ IsFiniteSet(U) /\ U \cup {y} \in SUBSET Z /\ IsFiniteSet(U \cup {y})
  BY <1>1, <1>5, <1>6
<1>8. ASSUME NEW z \in U
      PROVE  \A w \in Z \ (U \ {z}) : Adds(U \ {z}, w)
  <2>1. /\ Cardinality(U \ {z}) < Cardinality(U)
        /\ Cardinality(U \ {z}) \in Nat /\ Cardinality(U) \in Nat
    BY <1>7, Smaller
  <2>2. U \ {z} \notin Bad
    <3> HIDE DEF Bad
    <3> QED
      BY <1>4, <1>5, <2>1
  <2> QED
    BY <1>7, <2>2
<1> DEFINE A == U \cup {y}
           z == Any(A)
<1>9. z \in A /\ TotalRam(A) = z.ram + TotalRam(A \ {z})
  BY <1>7, AnyIn, TotalOf
<1>10. CASE z = y
  <2>1. A \ {z} = U
    BY <1>6, <1>10
  <2>2. y.ram \in Nat /\ TotalRam(U) \in Nat
    BY <1>1, <1>6, <1>7
  <2>3. TotalRam(A) # TotalRam(U) + y.ram /\ TotalRam(A) = y.ram + TotalRam(U)
    BY <1>6, <1>9, <1>10, <2>1
  <2> HIDE DEF A
  <2> QED
    BY <2>2, <2>3
<1>11. CASE z # y
  <2> DEFINE V == U \ {z}
  <2>1. z \in U /\ z \in Z
    BY <1>7, <1>9, <1>11
  <2>2. A \ {z} = V \cup {y} /\ V \cup {z} = U
    BY <1>6, <1>11, <2>1
  <2>3. Adds(V, y) /\ Adds(V, z)
    BY <1>6, <1>8, <2>1
  <2>4. y.ram \in Nat /\ z.ram \in Nat /\ TotalRam(V) \in Nat
    BY <1>1, <1>6, <1>7, <2>1
  <2>5. /\ TotalRam(A) = z.ram + TotalRam(V \cup {y})
        /\ TotalRam(V \cup {y}) = TotalRam(V) + y.ram
        /\ TotalRam(U) = TotalRam(V) + z.ram
    BY <1>9, <2>2, <2>3
  <2>6. TotalRam(A) # TotalRam(U) + y.ram
    BY <1>6
  <2> HIDE DEF A, V, z
  <2> QED
    BY <2>4, <2>5, <2>6
<1> QED
  BY <1>10, <1>11

\* Fewer servers have no larger sum.
LEMMA TotalFewer ==
  ASSUME NEW S, Sized(S), NEW T, T \subseteq S
  PROVE  TotalRam(T) <= TotalRam(S)
<1> DEFINE Bad == {U \in SUBSET S : T \subseteq U /\ ~(TotalRam(T) <= TotalRam(U))}
           Sizes == {Cardinality(U) : U \in Bad}
<1>1. /\ \A U \in SUBSET S : /\ IsFiniteSet(U) /\ Cardinality(U) \in Nat
                             /\ TotalRam(U) \in Nat
      /\ \A x \in S : x.ram \in Nat
  BY FS_Subset, FS_CardinalityType, TotalNat DEF Sized
<1>2. SUFFICES ASSUME Bad # {}
               PROVE  FALSE
  BY <1>1
<1>3. Sizes \subseteq Nat /\ Sizes # {}
  BY <1>1, <1>2
<1>4. PICK m \in Sizes : \A k \in Sizes : m <= k
  BY <1>3, LeastNatural
<1>5. PICK U \in Bad : Cardinality(U) = m
  BY <1>4
<1>6. /\ U \in SUBSET S /\ IsFiniteSet(U) /\ T \subseteq U /\ ~(TotalRam(T) <= TotalRam(U))
      /\ TotalRam(T) \in Nat /\ TotalRam(U) \in Nat
  BY <1>1, <1>5
<1>7. PICK x \in U : x \notin T
  BY <1>6
<1> DEFINE V == U \ {x}
<1>8. V \in SUBSET S /\ T \subseteq V /\ V \cup {x} = U /\ x \in S /\ x \notin V
  BY <1>6, <1>7
<1>9. /\ Cardinality(V) < Cardinality(U)
      /\ Cardinality(V) \in Nat /\ Cardinality(U) \in Nat
  BY <1>6, <1>7, Smaller
<1>10. TotalRam(T) <= TotalRam(V)
  BY <1>4, <1>5, <1>8, <1>9
<1>11. TotalRam(U) = TotalRam(V) + x.ram
  <2> HIDE DEF V
  <2> QED
    BY <1>8, TotalAdd
<1>12. TotalRam(V) \in Nat /\ x.ram \in Nat
  BY <1>1, <1>8
<1> QED
  BY <1>6, <1>10, <1>11, <1>12

-----------------------------------------------------------------------------
(* UsersKeepRamLimit: the size a request was admitted with is the size the  *)
(* sum of its owner's servers grows by.                                     *)

\* The servers of an account are finitely many, and their sizes are numbers.
LEMMA UserServersSized ==
  ASSUME TypeOK, IsFiniteSet(servers), NEW u
  PROVE  Sized(UserServers(u))
<1>1. \A s \in servers : s.ram \in Nat
  BY DEF TypeOK, Server
<1> QED
  BY <1>1, UserServersFinite DEF Sized, UserServers

\* What a size that was not refused does to the sum S of the others.
LEMMA NotRefused ==
  ASSUME TypeOK, NEW t \in tokens, NEW S, TotalRam(S) \in Nat, NEW ram \in RamInputs,
         ~RamRefused(t.id, S, ram)
  PROVE  /\ Stored(ram) \in Nat
         /\ \/ TotalRam(S) + Stored(ram) = TotalRam(S)
            \/ TotalRam(S) + Stored(ram) <= UserLimits(t.id).maxRam
<1>1. UserLimits(t.id).maxRam \in Nat
  BY PanelAssumption DEF UserLimits, TypeOK, Token, Account, Limits
<1>2. Stored(ram) \in Nat
  BY StoredNat
<1>3. CASE ram = NaN
  BY <1>2, <1>3 DEF Stored
<1>4. CASE ram # NaN
  <2>1. Stored(ram) = ram /\ ~(TotalRam(S) + ram > UserLimits(t.id).maxRam)
    BY <1>4 DEF Stored, RamRefused
  <2> QED
    BY <1>1, <1>2, <2>1
<1> QED
  BY <1>3, <1>4

\* A creation that was not refused keeps to the limit.
LEMMA CreateKeepsRam ==
  ASSUME TypeOK, IsFiniteSet(servers), TypeOK', IsFiniteSet(servers'),
         NEW t \in tokens, t.role = "user", NEW ram \in RamInputs, CreateServer(t, ram)
  PROVE  LET total == TotalRam(UserServers(t.id))
         IN  total' <= total \/ total' <= UserLimits(t.id).maxRam
<1> DEFINE S == UserServers(t.id)
           T == UserServers(t.id)'
<1>1. PICK p \in 1 .. MaxRecords :
        /\ \A s \in servers : s.pos < p
        /\ servers' = servers \cup
             {[pos |-> p, id |-> now, owner |-> t.id, ram |-> Stored(ram),
               status |-> "creating", suspended |-> FALSE]}
  BY DEF CreateServer, IsNextPos
<1> DEFINE new == [pos |-> p, id |-> now, owner |-> t.id, ram |-> Stored(ram),
                   status |-> "creating", suspended |-> FALSE]
<1>2. /\ servers' = servers \cup {new} /\ new.owner = t.id /\ new.ram = Stored(ram)
      /\ new.pos = p
  BY <1>1
<1>3. new \notin servers
  <2>1. ~(p < p)
    OBVIOUS
  <2> QED
    BY <1>1, <1>2, <2>1
<1> HIDE DEF new
<1>4. T = S \cup {new} /\ new \notin S
  BY <1>2, <1>3 DEF UserServers
<1>5. Sized(S) /\ Sized(T)
  <2>1. Sized(S)
    BY UserServersSized
  <2>2. \A s \in servers' : s.ram \in Nat
    BY DEF TypeOK, Server
  <2>3. T \in SUBSET servers'
    BY DEF UserServers
  <2>4. IsFiniteSet(T)
    BY <2>3, FS_Subset
  <2> QED
    BY <2>1, <2>2, <2>3, <2>4 DEF Sized
<1>6. ~RamRefused(t.id, S, ram)
  BY DEF CreateServer
<1>7. TotalRam(S) \in Nat
  BY <1>5, TotalNat
<1>8. TotalRam(T) = TotalRam(S) + Stored(ram)
  <2> HIDE DEF S, T
  <2>1. TotalRam(S \cup {new}) = TotalRam(S) + new.ram
    BY <1>4, <1>5, TotalAdd
  <2> QED
    BY <1>2, <1>4, <2>1
<1> HIDE DEF S
<1>9. TotalRam(T) <= TotalRam(S) \/ TotalRam(T) <= UserLimits(t.id).maxRam
  BY <1>6, <1>7, <1>8, NotRefused
<1> QED
  BY <1>9 DEF S

\* And so does a change of the size of a server, whose present size is left
\* out of the sum.
LEMMA UpdateKeepsRam ==
  ASSUME TypeOK, IdsInv, IsFiniteSet(servers), TypeOK', IsFiniteSet(servers'),
         NEW t \in tokens, t.role = "user", NEW id, NEW ram \in RamInputs,
         UpdateStartup(t, id, ram)
  PROVE  LET total == TotalRam(UserServers(t.id))
         IN  total' <= total \/ total' <= UserLimits(t.id).maxRam
<1> DEFINE S == UserServers(t.id)
           T == UserServers(t.id)'
           old == GetServer(id)
           size == Stored(ram)
           new == [old EXCEPT !.ram = size]
           B == S \ {old}
<1>1. /\ WithId(id) # {} /\ old.owner = t.id
      /\ ~RamRefused(t.id, S \ WithId(id), ram)
      /\ servers' = (servers \ {old}) \cup {new}
  BY DEF UpdateStartup, MayUse, Updated
<1>2. old \in servers /\ old.id = id
  BY <1>1, GetServerFinds DEF WithId
<1>3. WithId(id) = {old}
  <2> HIDE DEF old
  <2> QED
    BY <1>2, OneRecord
<1>4. old \in Server
  BY <1>2 DEF TypeOK
<1> HIDE DEF old
<1>5. size \in Nat
  BY StoredNat
<1> HIDE DEF size
<1>6. new.pos = old.pos /\ new.owner = old.owner /\ new.ram = size
  BY <1>4 DEF Server
<1> HIDE DEF new
<1>7. new \notin servers \ {old}
  BY <1>2, <1>6 DEF TypeOK
<1>8. T = B \cup {new} /\ new \notin B /\ old \in S
  BY <1>1, <1>2, <1>6, <1>7 DEF UserServers
<1>9. ~RamRefused(t.id, B, ram)
  BY <1>1, <1>3
<1>10. Sized(S) /\ Sized(B) /\ Sized(T)
  <2>1. Sized(S)
    BY UserServersSized
  <2>2. \A s \in servers' : s.ram \in Nat
    BY DEF TypeOK, Server
  <2>3. T \in SUBSET servers'
    BY DEF UserServers
  <2>4. IsFiniteSet(T)
    BY <2>3, FS_Subset
  <2>5. B \in SUBSET S /\ IsFiniteSet(S)
    BY <2>1 DEF Sized
  <2>6. IsFiniteSet(B)
    BY <2>5, FS_Subset
  <2> QED
    BY <2>1, <2>2, <2>3, <2>4, <2>5, <2>6 DEF Sized
<1> HIDE DEF T
<1>11. TotalRam(T) = TotalRam(B) + size
  <2> HIDE DEF B
  <2>1. TotalRam(B \cup {new}) = TotalRam(B) + new.ram
    BY <1>8, <1>10, TotalAdd
  <2> QED
    BY <1>6, <1>8, <2>1
<1>12. /\ TotalRam(B) \in Nat /\ TotalRam(S) \in Nat /\ TotalRam(B) <= TotalRam(S)
  BY <1>10, TotalNat, TotalFewer
<1> HIDE DEF B, S
<1>13. \/ TotalRam(B) + size = TotalRam(B)
       \/ TotalRam(B) + size <= UserLimits(t.id).maxRam
  BY <1>9, <1>12, NotRefused DEF size
<1>14. TotalRam(T) <= TotalRam(S) \/ TotalRam(T) <= UserLimits(t.id).maxRam
  BY <1>11, <1>12, <1>13
<1> QED
  BY <1>14 DEF S, T

\* The other requests give no account a larger sum.
LEMMA RequestKeepsRam ==
  ASSUME TypeOK, IdsInv, IsFiniteSet(servers), TypeOK', IsFiniteSet(servers'),
         NEW t \in tokens, t.role = "user", UserRequest(t)
  PROVE  LET total == TotalRam(UserServers(t.id))
         IN  total' <= total \/ total' <= UserLimits(t.id).maxRam
<1>1. ASSUME NEW ram \in RamInputs, CreateServer(t, ram)
      PROVE  LET total == TotalRam(UserServers(t.id))
             IN  total' <= total \/ total' <= UserLimits(t.id).maxRam
  BY <1>1, CreateKeepsRam
<1>2. ASSUME NEW id \in Ids, NEW ram \in RamInputs, UpdateStartup(t, id, ram)
      PROVE  LET total == TotalRam(UserServers(t.id))
             IN  total' <= total \/ total' <= UserLimits(t.id).maxRam
  BY <1>2, UpdateKeepsRam
<1>3. ASSUME servers' \subseteq servers
      PROVE  LET total == TotalRam(UserServers(t.id))
             IN  total' <= total \/ total' <= UserLimits(t.id).maxRam
  <2>1. UserServers(t.id)' \subseteq UserServers(t.id)
    BY <1>3 DEF UserServers
  <2>2. TotalRam(UserServers(t.id)') <= TotalRam(UserServers(t.id))
    BY <2>1, UserServersSized, TotalFewer
  <2> QED
    BY <2>2
<1>4. ASSUME NEW id \in Ids, StartServer(t, id) \/ StopServer(t, id) \/ DeleteServer(t, id)
      PROVE  servers' \subseteq servers
  BY <1>4 DEF StartServer, StopServer, DeleteServer, BeginDelete, Without
<1> QED
  BY <1>1, <1>2, <1>3, <1>4 DEF UserRequest, ServerRequest

\* Where no two creations share an id, no request of an account of role user
\* takes the RAM of its servers over its limit: create adds a size to the sum
\* that it has checked, and startup to the sum without the server it changes.
THEOREM PanelKeepsRamLimit ==
  ASSUME OneCreatePerMs
  PROVE  Spec => UsersKeepRamLimit
<1>1. OneCreateInv /\ OneCreateInv' /\ LimitInv /\ LimitInv' /\ [Next]_vars =>
        [\A t \in tokens :
           LET total == TotalRam(UserServers(t.id)) IN
           (/\ t.role = "user"
            /\ total' > total
            /\ total' > UserLimits(t.id).maxRam) => ~UserRequest(t)]_vars
  <2> SUFFICES ASSUME OneCreateInv, OneCreateInv', LimitInv, LimitInv', NEW t \in tokens,
                      t.role = "user", UserRequest(t),
                      TotalRam(UserServers(t.id))' > TotalRam(UserServers(t.id)),
                      TotalRam(UserServers(t.id))' > UserLimits(t.id).maxRam
               PROVE  FALSE
    OBVIOUS
  <2>1. /\ TypeOK /\ IdsInv /\ IsFiniteSet(servers)
        /\ TypeOK' /\ IsFiniteSet(servers')
    BY DEF OneCreateInv, LimitInv
  <2>2. \/ TotalRam(UserServers(t.id))' <= TotalRam(UserServers(t.id))
        \/ TotalRam(UserServers(t.id))' <= UserLimits(t.id).maxRam
    BY <2>1, RequestKeepsRam
  <2>3. /\ TotalRam(UserServers(t.id)) \in Nat /\ TotalRam(UserServers(t.id))' \in Nat
        /\ UserLimits(t.id).maxRam \in Nat
    <3>1. Sized(UserServers(t.id))
      BY <2>1, UserServersSized
    <3>2. Sized(UserServers(t.id)')
      <4>1. UserServers(t.id)' \in SUBSET servers'
        BY DEF UserServers
      <4>2. \A s \in servers' : s.ram \in Nat
        BY <2>1 DEF TypeOK, Server
      <4>3. IsFiniteSet(UserServers(t.id)')
        BY <2>1, <4>1, FS_Subset
      <4> QED
        BY <4>1, <4>2, <4>3 DEF Sized
    <3>3. UserLimits(t.id).maxRam \in Nat
      BY <2>1, PanelAssumption DEF UserLimits, TypeOK, Token, Account, Limits
    <3> QED
      BY <3>1, <3>2, <3>3, TotalNat
  <2> QED
    BY <2>2, <2>3
<1>2. Init => LimitInv
  BY InitLimitInv
<1>3. LimitInv /\ [Next]_vars => LimitInv'
  BY StepLimitInv
<1> QED
  BY <1>1, <1>2, <1>3, OneCreateAlways, PTL DEF Spec, UsersKeepRamLimit
=============================================================================
