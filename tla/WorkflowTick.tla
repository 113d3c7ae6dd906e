----------------------------- MODULE WorkflowTick -----------------------------
(***************************************************************************)
(* tick_timer_events over all tenants: one connection in one transaction   *)
(* visits the tenants of gxp:tenants:active, sets search_path to the       *)
(* schema of each, selects its running instances and publishes a message   *)
(* for each of them.  What happens to the message is in WorkflowInstance.  *)
(*                                                                         *)
(* An exception ends the visit of its tenant only, but a statement that    *)
(* fails aborts the transaction: every later statement fails as well.      *)
(***************************************************************************)
EXTENDS Naturals, Sequences

CONSTANTS
  TickTenants,
  TickInstances,
  Home,      \* Home[i]: the tenant whose schema holds instance i
  MaxHiccups \* bound: statements and publications that fail in a tick

ASSUME TickAssumption == Home \in [TickInstances -> TickTenants] /\ MaxHiccups \in Nat

VARIABLES
  listed,   \* gxp:tenants:active
  running,  \* the instances whose status is 'running'
  steady,   \* history: those that were running, in a listed tenant, since the tick began
  tick,     \* where the tick is
  sent,     \* the messages of this tick: an instance and a tenant
  visits    \* history: the tenants in the order of their visits, and how each went

tickVars == <<listed, running, steady, tick, sent, visits>>

Resting == [at |-> "resting", todo |-> {}, path |-> {}, found |-> {}, tx |-> "ok"]

TickInit ==
  /\ listed = {} /\ running = {} /\ steady = {}
  /\ tick = Resting
  /\ sent = {} /\ visits = <<>>

-----------------------------------------------------------------------------
(* What goes on beside it.                                                 *)

\* _warm_valkey_cache
ListTenant ==
  /\ \E t \in TickTenants \ listed : listed' = listed \cup {t}
  /\ UNCHANGED <<running, steady, tick, sent, visits>>

\* An instance starts, or a worker or a request changes its status.
StatusChanges ==
  \E i \in TickInstances :
    /\ running' = IF i \in running THEN running \ {i} ELSE running \cup {i}
    /\ steady' = steady \ {i}
    /\ UNCHANGED <<listed, tick, sent, visits>>

-----------------------------------------------------------------------------
(* The tick.                                                               *)

\* smembers
TickBegins ==
  /\ tick.at = "resting"
  /\ tick' = [Resting EXCEPT !.at = "next", !.todo = listed]
  /\ steady' = {i \in running : Home[i] \in listed}
  /\ sent' = {} /\ visits' = <<>>
  /\ UNCHANGED <<listed, running>>

Visit(t, how) == visits' = Append(visits, [tenant |-> t, how |-> how])
Hiccups == Len(SelectSeq(visits, LAMBDA v : v.how \in {"statement", "publication"}))

\* Faulty variant: search_path is set for the first tenant only.
SetPathOnce ==
  /\ tick.at = "next" /\ tick.tx = "ok"
  /\ \E t \in tick.todo :
       /\ tick' = [tick EXCEPT !.at = "select", !.path = IF @ = {} THEN {t} ELSE @, !.todo = @ \ {t}]
       /\ Visit(t, "ok")
  /\ UNCHANGED <<listed, running, steady, sent>>

SetPath ==
  /\ tick.at = "next" /\ tick.tx = "ok"
  /\ \E t \in tick.todo :
       /\ tick' = [tick EXCEPT !.at = "select", !.path = {t}, !.todo = @ \ {t}]
       /\ Visit(t, "ok")
  /\ UNCHANGED <<listed, running, steady, sent>>

SelectRunning ==
  /\ tick.at = "select"
  /\ tick' = [tick EXCEPT !.at = "publish", !.found = {i \in running : Home[i] \in tick.path}]
  /\ UNCHANGED <<listed, running, steady, sent, visits>>

Slug == visits[Len(visits)].tenant
EndsAs(how) == visits' = [visits EXCEPT ![Len(visits)].how = how]

Publish ==
  /\ tick.at = "publish"
  /\ \E i \in tick.found :
       /\ sent' = sent \cup {<<i, Slug>>}
       /\ tick' = [tick EXCEPT !.found = @ \ {i}]
  /\ UNCHANGED <<listed, running, steady, visits>>

TenantIsThrough ==
  /\ tick.at = "publish" /\ tick.found = {}
  /\ tick' = [tick EXCEPT !.at = "next"]
  /\ UNCHANGED <<listed, running, steady, sent, visits>>

\* Faulty variant: the try is around the loop.
PublishFailsForAll ==
  /\ tick.at = "publish" /\ tick.found # {} /\ Hiccups < MaxHiccups
  /\ EndsAs("publication")
  /\ tick' = [tick EXCEPT !.at = "next", !.found = {}, !.todo = {}]
  /\ UNCHANGED <<listed, running, steady, sent>>

\* The broker refuses a message: the tenant's other ones are not tried.
PublishFails ==
  /\ tick.at = "publish" /\ tick.found # {} /\ Hiccups < MaxHiccups
  /\ EndsAs("publication")
  /\ tick' = [tick EXCEPT !.at = "next", !.found = {}]
  /\ UNCHANGED <<listed, running, steady, sent>>

\* The SET or the SELECT fails, for a tenant without tables for one.
StatementFails ==
  /\ tick.at = "select" /\ Hiccups < MaxHiccups
  /\ EndsAs("statement")
  /\ tick' = [tick EXCEPT !.at = "next", !.tx = "aborted"]
  /\ UNCHANGED <<listed, running, steady, sent>>

\* The SET of every later tenant fails.
SetPathInVain ==
  /\ tick.at = "next" /\ tick.tx = "aborted"
  /\ \E t \in tick.todo :
       /\ tick' = [tick EXCEPT !.todo = @ \ {t}]
       /\ Visit(t, "vain")
  /\ UNCHANGED <<listed, running, steady, sent>>

TickEnds ==
  /\ tick.at = "next" /\ tick.todo = {}
  /\ tick' = Resting
  /\ UNCHANGED <<listed, running, steady, sent, visits>>

TickNext ==
  \/ ListTenant \/ StatusChanges
  \/ TickBegins \/ SetPath \/ SelectRunning \/ Publish \/ TenantIsThrough
  \/ PublishFails \/ StatementFails \/ SetPathInVain \/ TickEnds

TickSpec == TickInit /\ [][TickNext]_tickVars

-----------------------------------------------------------------------------
TickTypeOK ==
  /\ listed \subseteq TickTenants /\ running \subseteq TickInstances /\ steady \subseteq running
  /\ tick \in [at : {"resting", "next", "select", "publish"}, todo : SUBSET TickTenants,
               path : SUBSET TickTenants, found : SUBSET TickInstances, tx : {"ok", "aborted"}]
  /\ sent \subseteq TickInstances \X TickTenants
  /\ visits \in Seq([tenant : TickTenants, how : {"ok", "statement", "publication", "vain"}])

\* A message names the tenant in whose schema its instance lies, and a tick
\* that is through has a message for every instance that was running all the
\* time, unless its own tenant's publication failed, or a statement of its own
\* or of an earlier tenant.  (worker/tasks.py:242-254)
TickFindsInstances ==
  /\ \A m \in sent : m[2] = Home[m[1]]
  /\ tick.at = "resting" =>
       \A i \in steady : <<i, Home[i]>> \in sent
         \/ \E k \in DOMAIN visits :
              \/ visits[k] = [tenant |-> Home[i], how |-> "publication"]
              \/ /\ visits[k].how = "statement"
                 /\ \A j \in 1 .. k - 1 : visits[j].tenant # Home[i]
=============================================================================
