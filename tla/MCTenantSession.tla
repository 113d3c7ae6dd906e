--------------------------- MODULE MCTenantSession ---------------------------
(***************************************************************************)
(* Two tenants and a platform administrator on a pool of two connections,  *)
(* while one of the tenants is being created.                              *)
(***************************************************************************)
EXTENDS TenantProvisioning, TLC

CONSTANTS a, b, r1, r2, r3

MixedRequests == (r1 :> a @@ r2 :> b @@ r3 :> NoTenant)
SameTenant == (r1 :> a @@ r2 :> a)
ShortPlan == <<"realm", "case_schema", "docs_bucket">>
=============================================================================
