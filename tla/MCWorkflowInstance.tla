------------------------- MODULE MCWorkflowInstance -------------------------
(* Small processes and their actors for WorkflowInstance.                  *)
EXTENDS WorkflowInstance, TLC

CONSTANTS start, join, h1, h2, t1, w1, w2, c1, c2, u1, u2

\* start, then the user tasks h1 and h2 one after the other, and the timer t1
\* beside them; join waits for both branches.
MixedAuto == {start, join}
MixedHuman == {h1, h2}
MixedTimer == {t1}
MixedDeps ==
  (start :> {} @@ h1 :> {start} @@ h2 :> {h1} @@ t1 :> {start} @@ join :> {h2, t1})

\* start, then the user task h1, then the timer t1: while t1 runs nobody has
\* anything to do.
PauseAuto == {start}
PauseHuman == {h1}
PauseDeps == (start :> {} @@ h1 :> {start} @@ t1 :> {h1})

\* Every user holds a candidate role of every task.
Everyone == [h \in Human |-> Users]
=============================================================================
