-------------------------- MODULE WorkflowService ---------------------------
(***************************************************************************)
(* The parts of workflow-service in one specification: an instance with    *)
(* its tasks, the definitions that instances are started from, and the     *)
(* tick over all tenants.  Each part sees of the others only what its own  *)
(* module models (an instance keeps what it was started from, and the tick *)
(* leaves messages), so that a behaviour drives one of them.               *)
(***************************************************************************)
EXTENDS WorkflowInstance, Definitions, WorkflowTick

VARIABLE driven

serviceVars == <<vars, definitionVars, tickVars, driven>>

ServiceInit ==
  /\ Init /\ DefinitionInit /\ TickInit
  /\ driven \in {"instance", "definitions", "tick"}

ServiceNext ==
  \/ driven = "instance" /\ Next /\ UNCHANGED <<definitionVars, tickVars, driven>>
  \/ driven = "definitions" /\ DefinitionNext /\ UNCHANGED <<vars, tickVars, driven>>
  \/ driven = "tick" /\ TickNext /\ UNCHANGED <<vars, definitionVars, driven>>

\* Every part is well typed.
ServiceTypeOK == TypeOK /\ DefinitionTypeOK /\ TickTypeOK

ServiceSpec == ServiceInit /\ [][ServiceNext]_serviceVars
=============================================================================
