------------------------------ MODULE MCAccess ------------------------------
(* Small sets of users and of the requests they send.                      *)
EXTENDS AccessDecisions, TLC

CONSTANTS ann, ben, cal, staff, r1, r2, r3

Senders == (r1 :> ann @@ r2 :> cal @@ r3 :> ben)
PrincipalsOfUsers == (ann :> {ann, staff} @@ ben :> {ben} @@ cal :> {})
RightSets == {{"read"}, {"read", "write"}}
=============================================================================
