---------------------------- MODULE CaseService -----------------------------
(***************************************************************************)
(* The parts of case-service in one specification.  The creation of cases  *)
(* shares no state with what happens to a case later, so that interleaving *)
(* them would show nothing more: a behaviour drives one of them.  The      *)
(* handlers that link something are driven with the consumer that reads    *)
(* the links.                                                              *)
(***************************************************************************)
EXTENDS CaseNumbers, CaseTimeline

CONSTANT Linkers  \* bound: the requests that race with the consumer

ASSUME LinkersAssumption == Linkers \subseteq Requests

VARIABLE driven

serviceVars == <<vars, fileVars, timelineVars, driven>>

ServiceInit ==
  /\ Init /\ FileInit /\ TimelineInit
  /\ driven \in {"creation", "file", "consumer"}

LinkStep(r) ==
  \/ LinkWorkflowCheck(r) \/ LinkWorkflowCommit(r)
  \/ LinkDocumentCheck(r) \/ LinkDocumentCommit(r)
  \/ StartWorkflowCheck(r) \/ StartWorkflowPost(r) \/ StartWorkflowCommit(r) \/ StartWorkflowTimeout(r)

Reads == driven = "consumer" /\ ConsumerStep /\ UNCHANGED <<vars, fileVars, driven>>

ServiceNext ==
  \/ driven = "creation" /\ Next /\ UNCHANGED <<fileVars, timelineVars, driven>>
  \/ driven = "file" /\ FileNext /\ UNCHANGED <<vars, timelineVars, driven>>
  \/ driven = "consumer" /\ (\E r \in Linkers : LinkStep(r)) /\ UNCHANGED <<vars, timelineVars, driven>>
  \/ driven = "consumer" /\ TimelineStep /\ UNCHANGED <<vars, fileVars, driven>>

\* Every part is well typed.
ServiceTypeOK == TypeOK /\ FileTypeOK /\ TimelineTypeOK

\* The consumer is a task of the event loop, which goes on.
ServiceSpec == ServiceInit /\ [][ServiceNext]_serviceVars /\ WF_serviceVars(Reads)
=============================================================================
