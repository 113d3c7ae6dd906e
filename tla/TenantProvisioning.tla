------------------------- MODULE TenantProvisioning -------------------------
(***************************************************************************)
(* A tenant is created while the service already serves others.            *)
(* tenant-service commits the row, which is 'active' at once, and a        *)
(* background task then creates the realm, the schemas, buckets and        *)
(* indices one after the other and writes the status into Valkey last.     *)
(* The middleware of every service lets a tenant's request pass if that    *)
(* status is 'active', in the Valkey database it is configured with.  The  *)
(* tables come from migrate_tenants.py, whenever it is run: a request that *)
(* comes before fails at its first statement.                              *)
(***************************************************************************)
EXTENDS TenantSession

CONSTANTS
  New,       \* the tenant that is created; the others are ready
  Creators,  \* requests that create it
  Plan,      \* what provision_tenant creates, in its order
  OwnSchema, \* the piece of Plan that is the schema in this service's database
  SharedValkey \* whether the service reads the Valkey database that tenant-service
               \* writes; FALSE is what config.py and the compose file say

Pieces == {Plan[i] : i \in 1 .. Len(Plan)}

ASSUME ProvisioningAssumption ==
  /\ New \in Tenants
  /\ Plan \in Seq(Pieces) /\ OwnSchema \in Pieces
  /\ SharedValkey \in BOOLEAN

VARIABLES
  tenantStatus, \* platform.tenants.status of New, "none" without a row
  creator,      \* creator[p]: how far request p is
  task,         \* the next step of provision_tenant, 0 when it does not run
  made,         \* the pieces of New that exist
  cached,       \* whether Valkey says that New is active
  tabled        \* whether New's schema has its tables

provisioningVars == <<tenantStatus, creator, task, made, cached, tabled>>

ProvisioningInit ==
  /\ tenantStatus = "none"
  /\ creator = [p \in Creators |-> "idle"]
  /\ task = 0 /\ made = {} /\ cached = FALSE /\ tabled = FALSE

ProvisioningTypeOK ==
  /\ tenantStatus \in {"none", "active", "suspended"}
  /\ creator \in [Creators -> {"idle", "checked", "committed", "done"}]
  /\ task \in 0 .. Len(Plan) + 1 /\ made \subseteq Pieces
  /\ cached \in BOOLEAN /\ tabled \in BOOLEAN

-----------------------------------------------------------------------------
(* tenant-service.                                                         *)

Move(p, at) == creator' = [creator EXCEPT ![p] = at]

\* create_tenant: the slug is free, or answered with 409.
CreateCheck(p) ==
  /\ creator[p] = "idle"
  /\ Move(p, IF tenantStatus = "none" THEN "checked" ELSE "done")
  /\ UNCHANGED <<tenantStatus, task, made, cached, tabled>>

\* The slug is unique: the second of two inserts ends with an error.
CreateCommit(p) ==
  /\ creator[p] = "checked"
  /\ IF tenantStatus = "none"
     THEN tenantStatus' = "active" /\ Move(p, "committed")
     ELSE UNCHANGED tenantStatus /\ Move(p, "done")
  /\ UNCHANGED <<task, made, cached, tabled>>

\* The background task starts after the answer.
StartTask(p) ==
  /\ creator[p] = "committed"
  /\ task' = 1
  /\ Move(p, "done")
  /\ UNCHANGED <<tenantStatus, made, cached, tabled>>

\* The request fails, or its process ends, also between commit and task.
CreateFails(p) ==
  /\ creator[p] \in {"checked", "committed"}
  /\ Move(p, "done")
  /\ UNCHANGED <<tenantStatus, task, made, cached, tabled>>

\* PATCH writes the row and nothing else.
UpdateTenant ==
  /\ tenantStatus # "none"
  /\ tenantStatus' \in {"active", "suspended"}
  /\ UNCHANGED <<creator, task, made, cached, tabled>>

\* One of the pieces; what exists already is left as it is.
ProvisionPiece ==
  /\ task \in 1 .. Len(Plan)
  /\ made' = made \cup {Plan[task]}
  /\ task' = task + 1
  /\ UNCHANGED <<tenantStatus, creator, cached, tabled>>

WarmCache ==
  /\ task = Len(Plan) + 1
  /\ cached' = TRUE
  /\ task' = 0
  /\ UNCHANGED <<tenantStatus, creator, made, tabled>>

\* Faulty variant: the error of a step is logged, and the next step follows.
StepFailsUnheeded ==
  /\ task \in 1 .. Len(Plan)
  /\ task' = task + 1
  /\ UNCHANGED <<tenantStatus, creator, made, cached, tabled>>

\* A step raises and ends the task, or the process ends: no handler starts it
\* again.
StepFails ==
  /\ task > 0
  /\ task' = 0
  /\ UNCHANGED <<tenantStatus, creator, made, cached, tabled>>

\* migrate_tenants.py goes by the active rows, or by a slug given with --tenant,
\* of which it asks nothing; env.py creates a schema that is missing.
Migrate ==
  /\ tabled' = TRUE
  /\ made' = made \cup {OwnSchema}
  /\ UNCHANGED <<tenantStatus, creator, task, cached>>

ProvisioningStep ==
  \/ \E p \in Creators : CreateCheck(p) \/ CreateCommit(p) \/ StartTask(p) \/ CreateFails(p)
  \/ UpdateTenant \/ ProvisionPiece \/ WarmCache \/ StepFails \/ Migrate

-----------------------------------------------------------------------------
(* The service.                                                            *)

\* Faulty variant: a tenant is refused only when it is known to be suspended.
PassesUnlessSuspended(r) == TRUE

\* TenantContextMiddleware.dispatch; a token of the platform realm names no tenant.
Passes(r) == TenantOf[r] # NoTenant => SharedValkey /\ (TenantOf[r] = New => cached)

Refuse(r) ==
  /\ req[r].at = "begin" /\ ~Passes(r)
  /\ req' = [req EXCEPT ![r] = Done]
  /\ UNCHANGED <<opened, idle, path, inForce, row>>

\* Without its tables a statement fails: the request ends with Close.
HasTables(s) == s = New => tabled
CommitInTables(r) == req[r].at = "open" /\ HasTables(LocalPath(r)) /\ Commit(r)

Serve(r) ==
  \/ Passes(r) /\ Begin(r)
  \/ Refuse(r)
  \/ CommitInTables(r)
  \/ Close(r) \/ Refresh(r) \/ PoolTimeout(r)

ServiceNext ==
  \/ ProvisioningStep /\ UNCHANGED vars
  \/ \E r \in Requests : Serve(r) /\ UNCHANGED provisioningVars

ProvisionedVars == <<vars, provisioningVars>>
ProvisionedInit == Init /\ ProvisioningInit
ProvisionedSpec == ProvisionedInit /\ [][ServiceNext]_ProvisionedVars

Going(A) == A /\ UNCHANGED provisioningVars

\* The fairness of TenantSession.
FairProvisionedSpec ==
  /\ ProvisionedSpec
  /\ \A r \in Requests :
       /\ SF_ProvisionedVars(Going((Passes(r) /\ Begin(r)) \/ Refuse(r)))
       /\ SF_ProvisionedVars(Going(Refresh(r)))
       /\ WF_ProvisionedVars(Going(CommitInTables(r) \/ Close(r)))

-----------------------------------------------------------------------------
\* Sessions, pool, provisioning and the middleware's entry are well typed.
SessionTypeOK == TypeOK /\ ProvisioningTypeOK

\* A request that has passed the middleware finds all that its tenant's
\* services need, however creations race and wherever provisioning fails: the
\* entry that the middleware reads is written last, and by the one task that
\* made everything.  (provisioner.py:39-49, tenant_context.py:74-77)
ServedTenantsAreReady ==
  \A r \in Requests :
    TenantOf[r] = New /\ (req[r].conn # NoConn \/ row[r] # NoRow)
      => /\ made = Pieces
         /\ tenantStatus # "none"
         /\ row[r] # NoRow => tabled
=============================================================================
