--------------------------- MODULE MCCaseService ----------------------------
(* Three users and the requests they send.                                 *)
EXTENDS CaseService, TLC

CONSTANTS ann, ben, cal, r1, r2, r3

Senders == (r1 :> ann @@ r2 :> ben @@ r3 :> cal)
=============================================================================
