---------------------------- MODULE CaseNumbering ----------------------------
(***************************************************************************)
(* What case-service promises of case numbers: within a year the cases are *)
(* numbered 1, 2, 3, ... in the order in which they come into being, and   *)
(* nothing else ever happens to a number.                                  *)
(***************************************************************************)
EXTENDS Naturals

CONSTANTS
  Cases,     \* the cases that may be created
  Years,
  NoNumber   \* the number of a case that does not exist

VARIABLES
  issued,    \* issued[y]: how many numbers of year y are in use
  number     \* number[c]: the number of case c, a year and a sequence number

vars == <<issued, number>>

Init ==
  /\ issued = [y \in Years |-> 0]
  /\ number = [c \in Cases |-> NoNumber]

Issue(c, y) ==
  /\ number[c] = NoNumber
  /\ issued' = [issued EXCEPT ![y] = @ + 1]
  /\ number' = [number EXCEPT ![c] = [year |-> y, seq |-> issued[y] + 1]]

Next == \E c \in Cases, y \in Years : Issue(c, y)

Spec == Init /\ [][Next]_vars
=============================================================================
