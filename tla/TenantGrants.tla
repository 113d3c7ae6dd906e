----------------------------- MODULE TenantGrants -----------------------------
(***************************************************************************)
(* One cross-tenant grant: its row in platform.cross_tenant_grants, the    *)
(* handlers of tenant-service that request, approve and revoke it, the     *)
(* beat task expire_grants, and assert_cross_tenant_grant in the services  *)
(* of the granting tenant, which asks a cache in Valkey before it asks the *)
(* database.                                                               *)
(*                                                                         *)
(* Time is discrete.  The answer of the database and its way into the      *)
(* cache are two steps, with at most MaxDelay between them.                *)
(***************************************************************************)
EXTENDS Integers

CONSTANTS
  Checks,     \* requests of the other tenant that may be checked at a time
  TTL,        \* _GRANT_CACHE_TTL
  MaxDelay,   \* bound: the time between the SELECT and the end of the check
  ExpiresAt,  \* cross_tenant_grants.expires_at
  MaxTime,    \* bound: the clock stops there
  IdsAreBound,  \* whether the UPDATE of expire_grants gets its ids: FALSE is
                \* the code, where ":ids::uuid[]" inside text() is no parameter
                \* and the statement raises; TRUE is the code as it is meant
  SharedValkey  \* whether all services use one Valkey database: FALSE is the
                \* code's configuration

ASSUME TimeAssumption ==
  TTL \in Nat \ {0} /\ MaxDelay \in Nat /\ ExpiresAt \in Nat /\ MaxTime \in Nat
ASSUME MeantAssumption == IdsAreBound \in BOOLEAN /\ SharedValkey \in BOOLEAN

VARIABLES
  now,
  status,     \* cross_tenant_grants.status, "none" before the row exists
  approving,  \* an approval has found the grant pending and not committed
  expiring,   \* expire_grants: it has found the grant, or committed 'expired'
  cache,      \* the entry of the grant in Valkey, and when it ends
  check,      \* check[k]: a request after its cache miss
  last        \* history: when the database would last have answered "0", "1"

vars == <<now, status, approving, expiring, cache, check, last>>

Status == {"none", "pending", "approved", "revoked", "expired"}
Answer == {"0", "1"}
NoEntry == [val |-> "none", until |-> 0]
NoCheck == [at |-> "idle", val |-> "0", since |-> 0]
Never == -(TTL + MaxDelay)

TypeOK ==
  /\ now \in 0..MaxTime
  /\ status \in Status
  /\ approving \in BOOLEAN
  /\ expiring \in {"idle", "found", "committed"}
  /\ cache \in [val : Answer \cup {"none"}, until : 0..(MaxTime + TTL)]
  /\ check \in [Checks -> [at : {"idle", "missed", "answered"}, val : Answer, since : 0..MaxTime]]
  /\ last \in [Answer -> 0..MaxTime \cup {Never}]

Init ==
  /\ now = 0
  /\ status = "none"
  /\ approving = FALSE
  /\ expiring = "idle"
  /\ cache = NoEntry
  /\ check = [k \in Checks |-> NoCheck]
  /\ last = [v \in Answer |-> IF v = "0" THEN 0 ELSE Never]

-----------------------------------------------------------------------------
\* What _check_db answers.
InForce == status = "approved" /\ now < ExpiresAt
DbAnswer == IF InForce THEN "1" ELSE "0"

\* What GET answers: Valkey drops an entry at its end.
Cached == IF now < cache.until THEN cache.val ELSE "none"

\* Faulty variant of DbAnswer: expires_at is left to the beat task.
DbAnswerByStatus == IF status = "approved" THEN "1" ELSE "0"

(* tenant-service.                                                         *)

RequestGrant ==
  /\ status = "none"
  /\ status' = "pending"
  /\ UNCHANGED <<now, approving, expiring, cache, check>>

ApproveRead ==
  /\ status = "pending" /\ ~approving
  /\ approving' = TRUE
  /\ UNCHANGED <<now, status, expiring, cache, check>>

\* Faulty variant: a status nobody else knows.
ApproveCommitActive ==
  /\ approving
  /\ approving' = FALSE
  /\ status' = "active"
  /\ UNCHANGED <<now, expiring, cache, check>>

\* The status is not looked at again.
ApproveCommit ==
  /\ approving
  /\ approving' = FALSE
  /\ status' = "approved"
  /\ UNCHANGED <<now, expiring, cache, check>>

ApproveAbort ==
  /\ approving
  /\ approving' = FALSE
  /\ UNCHANGED <<now, status, expiring, cache, check>>

\* Any status becomes 'revoked', and the cache is left alone.
Revoke ==
  /\ status # "none"
  /\ status' = "revoked"
  /\ UNCHANGED <<now, approving, expiring, cache, check>>

\* expire_grants: the SELECT,
ExpireFind ==
  /\ expiring = "idle"
  /\ status = "approved" /\ ExpiresAt <= now
  /\ expiring' = "found"
  /\ UNCHANGED <<now, status, approving, cache, check>>

\* the UPDATE of the rows found, whatever their status is by now,
ExpireCommit ==
  /\ IdsAreBound
  /\ expiring = "found"
  /\ expiring' = "committed"
  /\ status' = "expired"
  /\ UNCHANGED <<now, approving, cache, check>>

\* the deletion of their cache entries, in tenant-service's own database,
ExpireInvalidate ==
  /\ expiring = "committed"
  /\ expiring' = "idle"
  /\ cache' = IF SharedValkey THEN NoEntry ELSE cache
  /\ UNCHANGED <<now, status, approving, check>>

\* and an exception in either: the retry starts with the SELECT.
ExpireFails ==
  /\ expiring # "idle"
  /\ expiring' = "idle"
  /\ UNCHANGED <<now, status, approving, cache, check>>

(* assert_cross_tenant_grant.  A cache hit changes nothing.                *)

CacheMiss(k) ==
  /\ check[k].at = "idle"
  /\ Cached = "none"
  /\ check' = [check EXCEPT ![k].at = "missed"]
  /\ UNCHANGED <<now, status, approving, expiring, cache>>

\* Faulty variant: it asks for the status alone.
QueryGrantByStatus(k) ==
  /\ check[k].at = "missed"
  /\ check' = [check EXCEPT ![k] = [at |-> "answered", val |-> DbAnswerByStatus, since |-> now]]
  /\ UNCHANGED <<now, status, approving, expiring, cache>>

QueryGrant(k) ==
  /\ check[k].at = "missed"
  /\ check' = [check EXCEPT ![k] = [at |-> "answered", val |-> DbAnswer, since |-> now]]
  /\ UNCHANGED <<now, status, approving, expiring, cache>>

\* SETEX, and the answer is given.
StoreAnswer(k) ==
  /\ check[k].at = "answered"
  /\ cache' = [val |-> check[k].val, until |-> now + TTL]
  /\ check' = [check EXCEPT ![k] = NoCheck]
  /\ UNCHANGED <<now, status, approving, expiring>>

\* The database or Valkey fails, or the caller has gone.
CheckFails(k) ==
  /\ check[k].at # "idle"
  /\ check' = [check EXCEPT ![k] = NoCheck]
  /\ UNCHANGED <<now, status, approving, expiring, cache>>

Tick ==
  /\ now < MaxTime
  /\ \A k \in Checks : check[k].at = "answered" => now < check[k].since + MaxDelay
  /\ now' = now + 1
  /\ UNCHANGED <<status, approving, expiring, cache, check>>

-----------------------------------------------------------------------------
TenantService ==
  \/ RequestGrant \/ ApproveRead \/ ApproveCommit \/ ApproveAbort \/ Revoke
  \/ ExpireFind \/ ExpireCommit \/ ExpireInvalidate \/ ExpireFails

CheckStep(k) == CacheMiss(k) \/ QueryGrant(k) \/ StoreAnswer(k) \/ CheckFails(k)

Record == last' = [last EXCEPT ![DbAnswer'] = now']

Next ==
  /\ TenantService \/ Tick \/ \E k \in Checks : CheckStep(k)
  /\ Record

Spec == Init /\ [][Next]_vars

-----------------------------------------------------------------------------
(* Properties.                                                             *)

\* A request is never let in, or turned away, on an answer the database has
\* not given for longer than the life of a cache entry and the way into the
\* cache, whatever approvals, revocations, expiries, invalidations and cache
\* fills come in between.  (README.md:130, the cache TTL "bounds propagation
\* delay"; cross_tenant.py:18)
AnswersAreFresh ==
  /\ Cached \in Answer => now < last[Cached] + TTL + MaxDelay
  /\ \A k \in Checks :
       check[k].at = "answered" => now <= last[check[k].val] + MaxDelay
=============================================================================
