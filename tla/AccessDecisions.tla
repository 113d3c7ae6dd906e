-------------------------- MODULE AccessDecisions ---------------------------
(***************************************************************************)
(* The two decisions about access in one specification: grants between     *)
(* tenants and permissions on folders.  They share no state, so that a     *)
(* behaviour drives one of them.                                           *)
(***************************************************************************)
EXTENDS TenantGrants, FolderAccess

VARIABLE driven

accessVars == <<vars, folderVars, driven>>

AccessInit == Init /\ FolderInit /\ driven \in {"grants", "folders"}

AccessNext ==
  \/ driven = "grants" /\ Next /\ UNCHANGED <<folderVars, driven>>
  \/ driven = "folders" /\ FolderNext /\ UNCHANGED <<vars, driven>>

AccessSpec == AccessInit /\ [][AccessNext]_accessVars

\* Both decisions are taken on a well-typed state.
AccessTypeOK == TypeOK /\ FolderTypeOK
=============================================================================
