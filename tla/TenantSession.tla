---------------------------- MODULE TenantSession ----------------------------
(***************************************************************************)
(* The database sessions of one service: the SQLAlchemy connection pool,   *)
(* the dependency get_db that sets search_path to the schema of the        *)
(* caller's tenant, and the handlers that commit and then refresh the      *)
(* object they return.                                                     *)
(*                                                                         *)
(* Two facts about the libraries matter.  PostgreSQL keeps a SET of the    *)
(* session only if its transaction commits, and undoes it on rollback.     *)
(* So a connection has a path that lasts and one that is in force, and     *)
(* they differ inside a transaction that has set it.                       *)
(* An AsyncSession gives its connection back to the pool at commit and at  *)
(* close (after a rollback), and its next statement takes the connection   *)
(* that has been idle longest, which need not be the same one.             *)
(***************************************************************************)
EXTENDS Naturals, Sequences

CONSTANTS
  Tenants,
  Requests,
  TenantOf,    \* TenantOf[r]: request.state.tenant_slug, NoTenant for the platform realm
  PoolSize,    \* pool_size and max_overflow of the engine together
  NoTenant,    \* no tenant; also the search_path of a new connection (public)
  NoConn, NoRow

ASSUME TenantAssumption == NoTenant \notin Tenants /\ TenantOf \in [Requests -> Tenants \cup {NoTenant}]
ASSUME PoolAssumption == PoolSize \in Nat \ {0} /\ NoConn \notin 1..PoolSize
ASSUME RowAssumption == NoRow \notin Tenants \cup {NoTenant}

Conns == 1..PoolSize
Schema == Tenants \cup {NoTenant}

VARIABLES
  opened,   \* how many connections the pool has opened
  idle,     \* the idle connections, longest idle first
  path,     \* path[k]: search_path of connection k that a rollback goes back to
  inForce,  \* inForce[k]: search_path that a statement on connection k runs with
  req,      \* req[r]: where request r is, and the connection it holds
  row       \* row[r]: the schema that holds the row request r has committed

vars == <<opened, idle, path, inForce, req, row>>

Waiting == [at |-> "begin", conn |-> NoConn]
Done == [at |-> "done", conn |-> NoConn]

TypeOK ==
  /\ opened \in 0..PoolSize
  /\ idle \in Seq(Conns)
  /\ path \in [Conns -> Schema] /\ inForce \in [Conns -> Schema]
  /\ req \in [Requests -> [at : {"begin", "open", "committed", "refreshing", "done"},
                           conn : Conns \cup {NoConn}]]
  /\ row \in [Requests -> Schema \cup {NoRow}]

Init ==
  /\ opened = 0
  /\ idle = <<>>
  /\ path = [k \in Conns |-> NoTenant] /\ inForce = path
  /\ req = [r \in Requests |-> Waiting]
  /\ row = [r \in Requests |-> NoRow]

-----------------------------------------------------------------------------
(* The pool.                                                               *)

\* The connection a checkout gets: the longest idle one, or a new one while
\* the pool is below its size.
Checkout(k) ==
  \/ idle # <<>> /\ k = Head(idle) /\ idle' = Tail(idle) /\ UNCHANGED opened
  \/ idle = <<>> /\ opened < PoolSize /\ k = opened + 1 /\ opened' = k /\ UNCHANGED idle

Checkin(k) == idle' = Append(idle, k) /\ UNCHANGED opened

-----------------------------------------------------------------------------
(* A request.                                                              *)

\* Faulty variant: search_path is set once per connection, not per request.
SetPathOnConnect(r, k) ==
  inForce' = [inForce EXCEPT ![k] = IF @ = NoTenant THEN TenantOf[r] ELSE @]

\* get_db on connection k: SET search_path if the request has a tenant.
SetPath(r, k) ==
  inForce' = [inForce EXCEPT ![k] = IF TenantOf[r] = NoTenant THEN @ ELSE TenantOf[r]]

\* The first statement of a request takes a connection; get_db makes it the SET.
Begin(r) ==
  /\ req[r].at = "begin"
  /\ \E k \in Conns :
       /\ Checkout(k) /\ SetPath(r, k)
       /\ req' = [req EXCEPT ![r] = [at |-> "open", conn |-> k]]
  /\ UNCHANGED <<path, row>>

\* The schema that a statement of r finds its tables in: that of the
\* connection r holds, whoever has set it.
LocalPath(r) == inForce[req[r].conn]

\* Faulty variant: the commit does not give the connection back.
CommitKeepingConn(r) ==
  /\ req[r].at = "open"
  /\ row' = [row EXCEPT ![r] = LocalPath(r)]
  /\ path' = [path EXCEPT ![req[r].conn] = LocalPath(r)]
  /\ req' = [req EXCEPT ![r].at = "committed"]
  /\ UNCHANGED <<opened, idle, inForce>>

\* A handler that changes something inserts its row and commits, the SET with it.
Commit(r) ==
  /\ req[r].at = "open"
  /\ row' = [row EXCEPT ![r] = LocalPath(r)]
  /\ path' = [path EXCEPT ![req[r].conn] = LocalPath(r)]
  /\ req' = [req EXCEPT ![r] = [at |-> "committed", conn |-> NoConn]]
  /\ Checkin(req[r].conn)
  /\ UNCHANGED inForce

\* Faulty variant: a session that committed gives back what it does not hold.
CloseUnheld(r) ==
  /\ req[r].at \in {"open", "committed", "refreshing"}
  /\ req' = [req EXCEPT ![r] = Done]
  /\ Checkin(req[r].conn)
  /\ UNCHANGED <<path, inForce, row>>

\* A handler that only reads, or fails, and the close after a refresh: the
\* transaction is rolled back, the SET with it, and the connection given back.
Close(r) ==
  /\ req[r].at \in {"open", "refreshing"}
  /\ req' = [req EXCEPT ![r] = Done]
  /\ inForce' = [inForce EXCEPT ![req[r].conn] = path[req[r].conn]]
  /\ Checkin(req[r].conn)
  /\ UNCHANGED <<path, row>>

\* db.refresh after the commit: a SELECT in a new transaction, on whichever
\* connection the pool hands out, in the schema that connection is in.
Refresh(r) ==
  /\ req[r].at = "committed"
  /\ \E k \in Conns :
       /\ Checkout(k)
       /\ req' = [req EXCEPT ![r] = [at |-> "refreshing", conn |-> k]]
  /\ UNCHANGED <<path, inForce, row>>

\* A checkout that waits too long for a connection fails.
PoolTimeout(r) ==
  /\ req[r].at \in {"begin", "committed"}
  /\ idle = <<>> /\ opened = PoolSize
  /\ req' = [req EXCEPT ![r] = Done]
  /\ UNCHANGED <<opened, idle, path, inForce, row>>

Next ==
  \E r \in Requests : Begin(r) \/ Commit(r) \/ Close(r) \/ Refresh(r) \/ PoolTimeout(r)

Spec == Init /\ [][Next]_vars

\* Handlers end, and a waiting checkout is served before others are served
\* again and again.  The timeout is not relied on.
FairSpec ==
  /\ Spec
  /\ \A r \in Requests :
       /\ SF_vars(Begin(r)) /\ SF_vars(Refresh(r))
       /\ WF_vars(Commit(r) \/ Close(r))

-----------------------------------------------------------------------------
(* Properties.                                                             *)

\* What a tenant's request writes lies in that tenant's schema: the connection
\* it runs on is still set to it when it commits, whoever used that connection
\* before and whatever is set, committed and rolled back on the others
\* meanwhile.  (tenant_context.py:10-11)
WritesStayInTenant ==
  \A r \in Requests : row[r] # NoRow /\ TenantOf[r] # NoTenant => row[r] = TenantOf[r]

\* A connection serves one request at a time and none is lost: every connection
\* that was opened is idle once or held by one request, however requests end.
\* (session.py, the pool of create_async_engine)
ConnectionsAreExclusive ==
  /\ \A r, s \in Requests : r # s /\ req[r].conn # NoConn => req[r].conn # req[s].conn
  /\ \A i, j \in DOMAIN idle : i # j => idle[i] # idle[j]
  /\ \A r \in Requests, i \in DOMAIN idle : req[r].conn # idle[i]
  /\ \A k \in Conns :
       k <= opened <=> (\E r \in Requests : req[r].conn = k) \/ (\E i \in DOMAIN idle : idle[i] = k)

\* The pool at its limit delays requests and never blocks them for good: no
\* request waits for a connection while it holds one.
RequestsEnd == \A r \in Requests : <>(req[r].at = "done")

\* tenant_context.py:10-11: the statements of a request run in its tenant's
\* schema, so that the refresh finds the row just committed.
RefreshFindsRow ==
  \A r \in Requests :
    req[r].at = "refreshing" /\ TenantOf[r] # NoTenant => LocalPath(r) = row[r]
=============================================================================
