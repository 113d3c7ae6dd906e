------------------------- MODULE MCWorkflowService --------------------------
(* A small process, and small numbers of requests and tenants.             *)
EXTENDS MCWorkflowInstance, WorkflowService

CONSTANTS a, b, c, i1, i2, i3

Homes == (i1 :> a @@ i2 :> a @@ i3 :> b)
=============================================================================
