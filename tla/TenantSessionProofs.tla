------------------------- MODULE TenantSessionProofs -------------------------
(***************************************************************************)
(* For any pool, any tenants and any mix of requests, while a tenant is    *)
(* being provisioned: what a tenant's request writes lies in its schema,   *)
(* the pool neither lends a connection twice nor loses one, and a request  *)
(* that the middleware has let through finds its tenant complete.          *)
(***************************************************************************)
EXTENDS TenantProvisioning, SequenceTheorems, TLAPS

\* Who holds a connection: the requests inside a transaction and no others.
HoldersAreInTransaction ==
  \A r \in Requests : req[r].conn \in Conns <=> req[r].at \in {"open", "refreshing"}

SessionInv ==
  /\ TypeOK
  /\ HoldersAreInTransaction
  /\ \A r \in Requests : req[r].at \in {"committed", "refreshing"} => row[r] # NoRow

\* What the writes rest on: while a tenant's request is in its transaction, the
\* connection it holds is set to the tenant.
PathIsSet ==
  \A r \in Requests :
    req[r].at = "open" /\ TenantOf[r] # NoTenant => inForce[req[r].conn] = TenantOf[r]

IsolationInv == PathIsSet /\ WritesStayInTenant

LEMMA ConnsType == /\ Conns \subseteq Nat /\ NoConn \notin Conns
                   /\ \A k \in Conns : k <= PoolSize
BY PoolAssumption DEF Conns

\* A checkout yields a connection of the pool and leaves the pool well formed.
LEMMA CheckoutType ==
  ASSUME TypeOK, NEW k \in Conns, Checkout(k)
  PROVE  opened' \in 0..PoolSize /\ idle' \in Seq(Conns)
<1>1. CASE idle # <<>> /\ k = Head(idle) /\ idle' = Tail(idle) /\ UNCHANGED opened
  BY <1>1, HeadTailProperties DEF TypeOK
<1>2. CASE idle = <<>> /\ opened < PoolSize /\ k = opened + 1 /\ opened' = k /\ UNCHANGED idle
  BY <1>2, PoolAssumption DEF TypeOK, Conns
<1> QED BY <1>1, <1>2 DEF Checkout

LEMMA CheckinType ==
  ASSUME TypeOK, NEW k \in Conns, Checkin(k)
  PROVE  opened' \in 0..PoolSize /\ idle' \in Seq(Conns)
BY AppendProperties DEF TypeOK, Checkin

LEMMA LocalPathType ==
  ASSUME TypeOK, NEW r \in Requests, req[r].conn \in Conns
  PROVE  LocalPath(r) \in Schema /\ LocalPath(r) # NoRow
BY RowAssumption DEF TypeOK, LocalPath, Schema

LEMMA SetPathType ==
  ASSUME TypeOK, NEW r \in Requests, NEW k \in Conns, SetPath(r, k)
  PROVE  /\ inForce' \in [Conns -> Schema]
         /\ TenantOf[r] # NoTenant => inForce'[k] = TenantOf[r]
         /\ \A m \in Conns : m # k => inForce'[m] = inForce[m]
BY TenantAssumption DEF TypeOK, SetPath, Schema

LEMMA SessionInit == Init => SessionInv
<1> SUFFICES ASSUME Init PROVE SessionInv
  OBVIOUS
<1>1. TypeOK
  BY PoolAssumption, EmptySeq DEF Init, TypeOK, Waiting, Schema
<1>2. HoldersAreInTransaction
  BY ConnsType DEF Init, HoldersAreInTransaction, Waiting
<1> QED BY <1>1, <1>2 DEF SessionInv, Init, Waiting

\* Every step of a request, with or without the middleware before it.
LEMMA SessionStep ==
  ASSUME SessionInv, NEW r \in Requests,
         Begin(r) \/ Commit(r) \/ Close(r) \/ Refresh(r) \/ PoolTimeout(r) \/ Refuse(r)
  PROVE  SessionInv'
<1> USE DEF SessionInv
<1>1. CASE Begin(r)
  <2>1. PICK k \in Conns : /\ Checkout(k) /\ SetPath(r, k)
                           /\ req' = [req EXCEPT ![r] = [at |-> "open", conn |-> k]]
    BY <1>1 DEF Begin
  <2>2. path' = path /\ row' = row
    BY <1>1 DEF Begin
  <2>3. TypeOK'
    BY <2>1, <2>2, CheckoutType, SetPathType DEF TypeOK
  <2> QED BY <2>1, <2>2, <2>3 DEF TypeOK, HoldersAreInTransaction
<1>2. CASE Refresh(r)
  <2>1. PICK k \in Conns : Checkout(k) /\ req' = [req EXCEPT ![r] = [at |-> "refreshing", conn |-> k]]
    BY <1>2 DEF Refresh
  <2>2. path' = path /\ inForce' = inForce /\ row' = row /\ req[r].at = "committed"
    BY <1>2 DEF Refresh
  <2>3. TypeOK'
    BY <2>1, <2>2, CheckoutType DEF TypeOK
  <2> QED BY <2>1, <2>2, <2>3 DEF TypeOK, HoldersAreInTransaction
<1>3. CASE Commit(r)
  <2>1. req[r].conn \in Conns
    BY <1>3 DEF Commit, HoldersAreInTransaction
  <2>2. opened' \in 0..PoolSize /\ idle' \in Seq(Conns)
    BY <1>3, <2>1, CheckinType DEF Commit
  <2>3. TypeOK'
    BY <1>3, <2>1, <2>2, LocalPathType DEF Commit, TypeOK
  <2>4. HoldersAreInTransaction'
    BY <1>3, ConnsType DEF Commit, TypeOK, HoldersAreInTransaction
  <2> QED BY <1>3, <2>1, <2>3, <2>4, LocalPathType DEF Commit, TypeOK
<1>4. CASE Close(r)
  <2>1. req[r].conn \in Conns
    BY <1>4 DEF Close, HoldersAreInTransaction
  <2>2. opened' \in 0..PoolSize /\ idle' \in Seq(Conns)
    BY <1>4, <2>1, CheckinType DEF Close
  <2>3. TypeOK'
    BY <1>4, <2>1, <2>2 DEF Close, TypeOK, Done
  <2> QED BY <1>4, <2>3, ConnsType DEF Close, TypeOK, HoldersAreInTransaction, Done
<1>5. CASE PoolTimeout(r)
  BY <1>5, ConnsType DEF PoolTimeout, TypeOK, HoldersAreInTransaction, Done
<1>6. CASE Refuse(r)
  BY <1>6, ConnsType DEF Refuse, TypeOK, HoldersAreInTransaction, Done
<1> QED BY <1>1, <1>2, <1>3, <1>4, <1>5, <1>6

LEMMA SessionStutter == SessionInv /\ UNCHANGED vars => SessionInv'
BY DEF SessionInv, TypeOK, HoldersAreInTransaction, vars

LEMMA ServiceSessionInv == SessionInv /\ [ServiceNext]_ProvisionedVars => SessionInv'
<1> SUFFICES ASSUME SessionInv, [ServiceNext]_ProvisionedVars PROVE SessionInv'
  OBVIOUS
<1>1. CASE UNCHANGED vars
  BY <1>1, SessionStutter
<1>2. ASSUME NEW r \in Requests, Serve(r) PROVE SessionInv'
  BY <1>2, SessionStep DEF Serve, CommitInTables
<1> QED BY <1>1, <1>2 DEF ServiceNext, ProvisionedVars

-----------------------------------------------------------------------------
(* The pool.                                                               *)

LEMMA ExclusiveInit == Init => ConnectionsAreExclusive
BY PoolAssumption, EmptySeq DEF Init, ConnectionsAreExclusive, Waiting, Conns

\* Any checkout moves one connection from the pool to the request.
LEMMA CheckoutExclusive ==
  ASSUME SessionInv, ConnectionsAreExclusive, NEW r \in Requests, NEW k \in Conns, NEW at,
         req[r].conn = NoConn, Checkout(k), req' = [req EXCEPT ![r] = [at |-> at, conn |-> k]]
  PROVE  ConnectionsAreExclusive'
<1>1. req'[r].conn = k /\ \A s \in Requests \ {r} : req'[s] = req[s]
  BY DEF SessionInv, TypeOK
<1>2. CASE idle # <<>> /\ k = Head(idle) /\ idle' = Tail(idle) /\ UNCHANGED opened
  <2>1. idle \in Seq(Conns) /\ Len(idle) \in Nat /\ Len(idle) > 0 /\ idle[1] = k
    BY <1>2 DEF SessionInv, TypeOK
  <2>2. /\ DOMAIN idle = 1..Len(idle) /\ DOMAIN idle' = 1..(Len(idle) - 1)
        /\ \A i \in 1..(Len(idle) - 1) : idle'[i] = idle[i + 1]
    BY <1>2, <2>1
  <2>3. \A i \in DOMAIN idle : i = 1 \/ (i - 1 \in DOMAIN idle' /\ idle'[i - 1] = idle[i])
    BY <2>1, <2>2
  <2>4. \A i \in DOMAIN idle' : i + 1 \in DOMAIN idle /\ i + 1 # 1 /\ idle'[i] = idle[i + 1]
    BY <2>1, <2>2
  <2>5. \A i, j \in DOMAIN idle' : i # j => idle'[i] # idle'[j]
    <3> SUFFICES ASSUME NEW i \in DOMAIN idle', NEW j \in DOMAIN idle', i # j PROVE idle'[i] # idle'[j]
      OBVIOUS
    <3>1. i + 1 # j + 1
      BY <2>1, <2>2
    <3> QED BY <2>4, <3>1 DEF ConnectionsAreExclusive
  <2>6. \A i \in DOMAIN idle' : idle'[i] # k
    <3>1. 1 \in DOMAIN idle
      BY <2>1, <2>2
    <3> QED BY <2>1, <2>4, <3>1 DEF ConnectionsAreExclusive
  <2>7. \A s \in Requests, i \in DOMAIN idle' : req'[s].conn # idle'[i]
    <3> SUFFICES ASSUME NEW s \in Requests, NEW i \in DOMAIN idle' PROVE req'[s].conn # idle'[i]
      OBVIOUS
    <3>1. i + 1 \in DOMAIN idle /\ idle'[i] = idle[i + 1]
      BY <2>4
    <3>2. CASE s = r
      BY <1>1, <2>6, <3>2
    <3>3. CASE s # r
      BY <1>1, <3>1, <3>3 DEF ConnectionsAreExclusive
    <3> QED BY <3>2, <3>3
  <2>8. \A s, t \in Requests : s # t /\ req'[s].conn # NoConn => req'[s].conn # req'[t].conn
    BY <1>1, <2>1, <2>2, ConnsType DEF ConnectionsAreExclusive
  <2>9. ASSUME NEW m \in Conns
        PROVE  m <= opened' <=> (\E s \in Requests : req'[s].conn = m) \/ (\E i \in DOMAIN idle' : idle'[i] = m)
    <3>1. CASE m = k
      BY <1>1, <1>2, <2>1, <2>2, <3>1 DEF ConnectionsAreExclusive
    <3>2. CASE m # k
      <4>1. (\E i \in DOMAIN idle : idle[i] = m) <=> (\E i \in DOMAIN idle' : idle'[i] = m)
        BY <2>1, <2>3, <2>4, <3>2
      <4>2. (\E s \in Requests : req[s].conn = m) <=> (\E s \in Requests : req'[s].conn = m)
        BY <1>1, <3>2, ConnsType
      <4> QED BY <1>2, <4>1, <4>2 DEF ConnectionsAreExclusive
    <3> QED BY <3>1, <3>2
  <2> QED BY <2>5, <2>7, <2>8, <2>9 DEF ConnectionsAreExclusive
<1>3. CASE idle = <<>> /\ opened < PoolSize /\ k = opened + 1 /\ opened' = k /\ UNCHANGED idle
  <2>1. opened \in Nat /\ DOMAIN idle = {} /\ DOMAIN idle' = {}
    BY <1>3, PoolAssumption DEF SessionInv, TypeOK
  <2>2. \A s \in Requests : req[s].conn # k
    BY <1>3, <2>1 DEF ConnectionsAreExclusive, Conns
  <2>3. \A s, t \in Requests : s # t /\ req'[s].conn # NoConn => req'[s].conn # req'[t].conn
    BY <1>1, <2>2, ConnsType DEF ConnectionsAreExclusive
  <2>4. ASSUME NEW m \in Conns
        PROVE  m <= opened' <=> \E s \in Requests : req'[s].conn = m
    <3>1. m <= opened' <=> m = k \/ m <= opened
      BY <1>3, <2>1, ConnsType
    <3>2. (\E s \in Requests : req'[s].conn = m) <=> m = k \/ \E s \in Requests : req[s].conn = m
      BY <1>1, ConnsType
    <3> QED BY <2>1, <3>1, <3>2 DEF ConnectionsAreExclusive
  <2> QED BY <1>3, <2>1, <2>3, <2>4 DEF ConnectionsAreExclusive
<1> QED BY <1>2, <1>3 DEF Checkout

\* A commit or a close gives the connection back.
LEMMA CheckinExclusive ==
  ASSUME SessionInv, ConnectionsAreExclusive, NEW r \in Requests, NEW at,
         req[r].conn \in Conns, Checkin(req[r].conn),
         req' = [req EXCEPT ![r] = [at |-> at, conn |-> NoConn]]
  PROVE  ConnectionsAreExclusive'
<1> DEFINE k == req[r].conn
<1>1. req'[r].conn = NoConn /\ \A s \in Requests \ {r} : req'[s] = req[s]
  BY DEF SessionInv, TypeOK
<1>2. /\ idle \in Seq(Conns) /\ Len(idle) \in Nat /\ opened' = opened
      /\ DOMAIN idle = 1..Len(idle) /\ DOMAIN idle' = 1..(Len(idle) + 1)
      /\ \A i \in 1..Len(idle) : idle'[i] = idle[i]
      /\ idle'[Len(idle) + 1] = k
  BY AppendProperties DEF SessionInv, TypeOK, Checkin
<1>3. \A i \in DOMAIN idle' : i = Len(idle) + 1 \/ i \in DOMAIN idle
  BY <1>2
<1>4. \A i, j \in DOMAIN idle' : i # j => idle'[i] # idle'[j]
  BY <1>2, <1>3 DEF ConnectionsAreExclusive
<1>5. \A s \in Requests, i \in DOMAIN idle' : req'[s].conn # idle'[i]
  <2> SUFFICES ASSUME NEW s \in Requests, NEW i \in DOMAIN idle' PROVE req'[s].conn # idle'[i]
    OBVIOUS
  <2>1. idle'[i] \in Conns
    BY <1>2, <1>3, ElementOfSeq
  <2> QED BY <1>1, <1>2, <1>3, <2>1, ConnsType DEF ConnectionsAreExclusive
<1>6. \A s, t \in Requests : s # t /\ req'[s].conn # NoConn => req'[s].conn # req'[t].conn
  BY <1>1 DEF ConnectionsAreExclusive
<1>7. ASSUME NEW m \in Conns
      PROVE  m <= opened' <=> (\E s \in Requests : req'[s].conn = m) \/ (\E i \in DOMAIN idle' : idle'[i] = m)
  <2>1. (\E i \in DOMAIN idle' : idle'[i] = m) <=> m = k \/ \E i \in DOMAIN idle : idle[i] = m
    BY <1>2, <1>3
  <2>2. m # k => ((\E s \in Requests : req'[s].conn = m) <=> \E s \in Requests : req[s].conn = m)
    BY <1>1, ConnsType
  <2> QED BY <1>2, <2>1, <2>2 DEF ConnectionsAreExclusive
<1> QED BY <1>4, <1>5, <1>6, <1>7 DEF ConnectionsAreExclusive

LEMMA ServiceExclusive ==
  SessionInv /\ ConnectionsAreExclusive /\ [ServiceNext]_ProvisionedVars => ConnectionsAreExclusive'
<1> SUFFICES ASSUME SessionInv, ConnectionsAreExclusive, [ServiceNext]_ProvisionedVars
             PROVE  ConnectionsAreExclusive'
  OBVIOUS
<1>1. CASE UNCHANGED vars
  BY <1>1 DEF vars, ConnectionsAreExclusive
<1>2. ASSUME NEW r \in Requests, Serve(r) PROVE ConnectionsAreExclusive'
  <2>1. CASE Begin(r) \/ Refresh(r)
    BY <2>1, CheckoutExclusive DEF Begin, Refresh, SessionInv, HoldersAreInTransaction, TypeOK
  <2>2. CASE Commit(r) \/ Close(r)
    BY <2>2, CheckinExclusive DEF Commit, Close, Done, SessionInv, HoldersAreInTransaction
  <2>3. CASE PoolTimeout(r) \/ Refuse(r)
    <3>1. req[r].conn = NoConn /\ req'[r].conn = NoConn
      BY <2>3 DEF PoolTimeout, Refuse, Done, SessionInv, HoldersAreInTransaction, TypeOK
    <3>2. \A s \in Requests : req'[s].conn = req[s].conn
      BY <2>3, <3>1 DEF PoolTimeout, Refuse, SessionInv, TypeOK
    <3> QED BY <2>3, <3>2 DEF PoolTimeout, Refuse, ConnectionsAreExclusive
  <2> QED BY <1>2, <2>1, <2>2, <2>3 DEF Serve, CommitInTables
<1> QED BY <1>1, <1>2 DEF ServiceNext, ProvisionedVars
-----------------------------------------------------------------------------
(* The search_path.                                                        *)

\* What is set and rolled back on one connection is nobody else's: the pool
\* is exclusive before the step and after it.
LEMMA IsolationStep ==
  ASSUME SessionInv, ConnectionsAreExclusive, ConnectionsAreExclusive', IsolationInv,
         NEW r \in Requests, Serve(r)
  PROVE  IsolationInv'
<1> USE DEF SessionInv, IsolationInv
<1>1. \A s \in Requests : s # r => req'[s] = req[s] /\ row'[s] = row[s]
  BY DEF TypeOK, Serve, Begin, Refuse, CommitInTables, Commit, Close, Refresh, PoolTimeout
<1>2. \A s \in Requests : req[s].at = "open" => req[s].conn \in Conns
  BY DEF HoldersAreInTransaction
<1>3. CASE Begin(r)
  <2>1. PICK k \in Conns : /\ Checkout(k) /\ SetPath(r, k)
                           /\ req' = [req EXCEPT ![r] = [at |-> "open", conn |-> k]]
    BY <1>3 DEF Begin
  <2>2. req'[r].conn = k /\ row' = row
    BY <1>3, <2>1 DEF Begin, TypeOK
  <2>3. ASSUME NEW s \in Requests, s # r, req'[s].at = "open"
        PROVE  inForce'[req'[s].conn] = inForce[req[s].conn]
    <3>1. req'[s] = req[s] /\ req[s].conn \in Conns
      BY <1>1, <1>2, <2>3
    <3>2. req'[s].conn # k
      BY <2>2, <2>3, <3>1, ConnsType DEF ConnectionsAreExclusive
    <3> QED BY <2>1, <3>1, <3>2, SetPathType
  <2>4. PathIsSet'
    BY <1>1, <2>1, <2>2, <2>3, SetPathType DEF PathIsSet
  <2> QED BY <2>2, <2>4 DEF WritesStayInTenant
<1>4. CASE Commit(r)
  <2>1. req[r].at = "open" /\ row'[r] = inForce[req[r].conn] /\ inForce' = inForce /\ req'[r].at = "committed"
    BY <1>4 DEF Commit, LocalPath, TypeOK
  <2>2. TenantOf[r] # NoTenant => row'[r] = TenantOf[r]
    BY <2>1 DEF PathIsSet
  <2>3. PathIsSet'
    BY <1>1, <2>1 DEF PathIsSet
  <2> QED BY <1>1, <2>2, <2>3 DEF WritesStayInTenant
<1>5. CASE Close(r)
  <2>1. req[r].conn \in Conns /\ req'[r].at = "done" /\ row' = row
    BY <1>5 DEF Close, Done, TypeOK, HoldersAreInTransaction
  <2>2. \A m \in Conns : m # req[r].conn => inForce'[m] = inForce[m]
    BY <1>5, <2>1 DEF Close, TypeOK
  <2>3. \A s \in Requests : s # r /\ req[s].at = "open" => req[s].conn # req[r].conn
    BY <1>2, <2>1, ConnsType DEF ConnectionsAreExclusive
  <2>4. PathIsSet'
    BY <1>1, <1>2, <2>1, <2>2, <2>3 DEF PathIsSet
  <2> QED BY <2>1, <2>4 DEF WritesStayInTenant
<1>6. CASE Refresh(r) \/ PoolTimeout(r) \/ Refuse(r)
  <2>1. inForce' = inForce /\ row' = row /\ req'[r].at # "open"
    BY <1>6 DEF Refresh, PoolTimeout, Refuse, Done, TypeOK
  <2> QED BY <1>1, <2>1 DEF PathIsSet, WritesStayInTenant
<1> QED BY <1>3, <1>4, <1>5, <1>6 DEF Serve, CommitInTables
-----------------------------------------------------------------------------
(* Provisioning.                                                           *)

\* How the entry in Valkey comes to say that the tenant is complete: the task
\* has made every piece before the one it is at, and it runs for a row that
\* was committed.
TaskInv ==
  /\ ProvisioningTypeOK
  /\ \A p \in Creators : creator[p] = "committed" => tenantStatus # "none"
  /\ task > 0 => tenantStatus # "none" /\ \A i \in 1 .. Len(Plan) : i < task => Plan[i] \in made
  /\ cached => tenantStatus # "none" /\ made = Pieces

\* Who is past the middleware was let through by that entry, and a row that
\* was committed found its tables.
ServedInv ==
  \A r \in Requests : TenantOf[r] = New =>
    /\ req[r].conn # NoConn \/ row[r] # NoRow => cached
    /\ row[r] # NoRow => tabled

ProvisionedInv == SessionInv /\ ConnectionsAreExclusive /\ IsolationInv /\ TaskInv /\ ServedInv

LEMMA PlanType ==
  /\ Len(Plan) \in Nat /\ DOMAIN Plan = 1 .. Len(Plan)
  /\ \A i \in 1 .. Len(Plan) : Plan[i] \in Pieces
BY ProvisioningAssumption, LenProperties DEF Pieces

LEMMA TaskInit == ProvisioningInit => TaskInv
<1> SUFFICES ASSUME ProvisioningInit PROVE TaskInv
  OBVIOUS
<1>1. ProvisioningTypeOK
  <2>1. creator \in [Creators -> {"idle", "checked", "committed", "done"}]
    BY DEF ProvisioningInit
  <2>2. task \in 0 .. Len(Plan) + 1
    BY PlanType DEF ProvisioningInit
  <2> QED BY <2>1, <2>2 DEF ProvisioningInit, ProvisioningTypeOK
<1>2. cached = FALSE /\ task = 0 /\ \A p \in Creators : creator[p] # "committed"
  BY DEF ProvisioningInit
<1> QED BY <1>1, <1>2 DEF TaskInv

LEMMA TaskStep ==
  ASSUME TaskInv, ProvisioningStep
  PROVE  TaskInv' /\ (cached => cached') /\ (tabled => tabled')
<1> USE DEF TaskInv, ProvisioningTypeOK
<1>1. ASSUME NEW p \in Creators, CreateCheck(p) \/ CreateCommit(p) \/ StartTask(p) \/ CreateFails(p)
      PROVE  TaskInv' /\ (cached => cached') /\ (tabled => tabled')
  <2>1. CASE CreateCheck(p) \/ CreateFails(p)
    BY <2>1 DEF CreateCheck, CreateFails, Move
  <2>2. CASE CreateCommit(p)
    BY <2>2 DEF CreateCommit, Move
  <2>3. CASE StartTask(p)
    BY <2>3, PlanType DEF StartTask, Move
  <2> QED BY <1>1, <2>1, <2>2, <2>3
<1>2. CASE UpdateTenant \/ StepFails
  BY <1>2, PlanType DEF UpdateTenant, StepFails
<1>3. CASE ProvisionPiece
  <2>1. task' = task + 1 /\ made' = made \cup {Plan[task]} /\ Plan[task] \in Pieces
    BY <1>3, PlanType DEF ProvisionPiece
  <2>2. task' \in 0 .. Len(Plan) + 1 /\ made' \subseteq Pieces
    BY <1>3, <2>1, PlanType DEF ProvisionPiece
  <2>3. \A i \in 1 .. Len(Plan) : i < task' => Plan[i] \in made'
    BY <1>3, <2>1, PlanType DEF ProvisionPiece
  <2> QED BY <1>3, <2>1, <2>2, <2>3 DEF ProvisionPiece
<1>4. CASE WarmCache
  <2>1. \A i \in 1 .. Len(Plan) : Plan[i] \in made
    BY <1>4, PlanType DEF WarmCache
  <2>2. made = Pieces
    BY <2>1 DEF Pieces
  <2> QED BY <1>4, <2>2, PlanType DEF WarmCache
<1>5. CASE Migrate
  BY <1>5, ProvisioningAssumption DEF Migrate
<1> QED BY <1>1, <1>2, <1>3, <1>4, <1>5 DEF ProvisioningStep

LEMMA ServedStep ==
  ASSUME ProvisionedInv, NEW r \in Requests, Serve(r), UNCHANGED provisioningVars
  PROVE  ServedInv'
<1> USE DEF ProvisionedInv, SessionInv, ServedInv, provisioningVars
<1>1. \A s \in Requests : s # r => req'[s] = req[s] /\ row'[s] = row[s]
  BY DEF TypeOK, Serve, Begin, Refuse, CommitInTables, Commit, Close, Refresh, PoolTimeout
<1>2. req'[r] \in [at : {"begin", "open", "committed", "refreshing", "done"}, conn : Conns \cup {NoConn}]
  BY SessionStep DEF TypeOK, Serve, CommitInTables
<1>3. ASSUME TenantOf[r] = New, req'[r].conn # NoConn \/ row'[r] # NoRow PROVE cached'
  <2>1. CASE Passes(r) /\ Begin(r)
    BY <1>3, <2>1, ProvisioningAssumption, TenantAssumption DEF Passes
  <2>2. CASE Refuse(r) \/ PoolTimeout(r) \/ Close(r)
    BY <1>3, <2>2 DEF Refuse, PoolTimeout, Close, Done, TypeOK
  <2>3. CASE Commit(r)
    BY <1>3, <2>3, ConnsType DEF Commit, HoldersAreInTransaction
  <2>4. CASE Refresh(r)
    BY <1>3, <2>4 DEF Refresh
  <2> QED BY <2>1, <2>2, <2>3, <2>4 DEF Serve, CommitInTables
<1>4. ASSUME TenantOf[r] = New, row'[r] # NoRow PROVE tabled'
  <2>1. CASE CommitInTables(r)
    <3>1. LocalPath(r) = New
      BY <1>4, <2>1, ProvisioningAssumption, TenantAssumption
         DEF LocalPath, CommitInTables, IsolationInv, PathIsSet
    <3> QED BY <2>1, <3>1 DEF CommitInTables, HasTables
  <2>2. CASE row' = row
    BY <1>4, <2>2
  <2> QED BY <2>1, <2>2 DEF Serve, Begin, Refuse, Close, Refresh, PoolTimeout
<1> QED BY <1>1, <1>3, <1>4

LEMMA ProvisionedInitInv == ProvisionedInit => ProvisionedInv
BY SessionInit, TaskInit, ExclusiveInit
   DEF ProvisionedInit, ProvisionedInv, IsolationInv, PathIsSet, WritesStayInTenant, ServedInv, Init, Waiting

LEMMA ProvisionedNextInv == ProvisionedInv /\ [ServiceNext]_ProvisionedVars => ProvisionedInv'
<1> SUFFICES ASSUME ProvisionedInv, [ServiceNext]_ProvisionedVars PROVE ProvisionedInv'
  OBVIOUS
<1>1. SessionInv' /\ ConnectionsAreExclusive'
  BY ServiceSessionInv, ServiceExclusive DEF ProvisionedInv
<1>2. CASE ProvisioningStep /\ UNCHANGED vars
  <2>1. IsolationInv'
    BY <1>2 DEF vars, ProvisionedInv, IsolationInv, PathIsSet, WritesStayInTenant
  <2>2. TaskInv' /\ ServedInv'
    BY <1>2, TaskStep DEF vars, ProvisionedInv, ServedInv
  <2> QED BY <1>1, <2>1, <2>2 DEF ProvisionedInv
<1>3. ASSUME NEW r \in Requests, Serve(r) /\ UNCHANGED provisioningVars PROVE ProvisionedInv'
  <2>1. TaskInv'
    BY <1>3 DEF ProvisionedInv, provisioningVars, TaskInv, ProvisioningTypeOK
  <2>2. IsolationInv'
    BY <1>1, <1>3, IsolationStep DEF ProvisionedInv
  <2>3. ServedInv'
    BY <1>3, ServedStep
  <2> QED BY <1>1, <2>1, <2>2, <2>3 DEF ProvisionedInv
<1>4. CASE UNCHANGED ProvisionedVars
  <2>1. IsolationInv' /\ ServedInv'
    BY <1>4 DEF ProvisionedVars, vars, provisioningVars, ProvisionedInv,
                IsolationInv, PathIsSet, WritesStayInTenant, ServedInv
  <2>2. TaskInv'
    BY <1>4 DEF ProvisionedVars, provisioningVars, ProvisionedInv, TaskInv, ProvisioningTypeOK
  <2> QED BY <1>1, <2>1, <2>2 DEF ProvisionedInv
<1> QED BY <1>2, <1>3, <1>4 DEF ServiceNext

LEMMA ProvisionedInvariant == ProvisionedSpec => []ProvisionedInv
BY ProvisionedInitInv, ProvisionedNextInv, PTL DEF ProvisionedSpec

\* Sessions, pool and provisioning stay well typed.
THEOREM SessionTypes == ProvisionedSpec => []SessionTypeOK
<1>1. ProvisionedInv => SessionTypeOK
  BY DEF ProvisionedInv, SessionInv, TaskInv, SessionTypeOK
<1> QED BY <1>1, ProvisionedInvariant, PTL

\* No request ever writes into the schema of another tenant than its own,
\* whatever the other requests set on the connections they share.
THEOREM WritesAreIsolated == ProvisionedSpec => []WritesStayInTenant
<1>1. ProvisionedInv => WritesStayInTenant
  BY DEF ProvisionedInv, IsolationInv
<1> QED BY <1>1, ProvisionedInvariant, PTL

\* The pool lends a connection to one request at a time and loses none.
THEOREM PoolIsExclusive == ProvisionedSpec => []ConnectionsAreExclusive
<1>1. ProvisionedInv => ConnectionsAreExclusive
  BY DEF ProvisionedInv
<1> QED BY <1>1, ProvisionedInvariant, PTL

\* A request that was let through finds its tenant provisioned completely.
THEOREM ServedAreReady == ProvisionedSpec => []ServedTenantsAreReady
<1>1. ProvisionedInv => ServedTenantsAreReady
  BY DEF ProvisionedInv, TaskInv, ServedInv, ServedTenantsAreReady
<1> QED BY <1>1, ProvisionedInvariant, PTL
=============================================================================
