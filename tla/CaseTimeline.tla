---------------------------- MODULE CaseTimeline ----------------------------
(***************************************************************************)
(* The consumer of case-service: it reads the audit stream under a group   *)
(* of its own and adds a row to the timeline of a case for each event of a *)
(* workflow instance or document that is linked to it, a batch in one      *)
(* transaction.  The links come from the handlers of CaseFile, which run   *)
(* at the same time; the events from the workers of workflow-service and   *)
(* document-service.                                                       *)
(*                                                                         *)
(* The lookup runs under the search_path that the connection happens to    *)
(* have; whether it finds the tables is FailStatement.                     *)
(***************************************************************************)
EXTENDS CaseFile

CONSTANTS
  MaxStream,   \* bound: entries on the stream
  Batch,       \* XREADGROUP COUNT
  MaxFailures  \* bound: statements, commits and processes that fail

ASSUME TimelineAssumption == {MaxStream, Batch, MaxFailures} \subseteq Nat /\ Batch > 0

VARIABLES
  stream,     \* audit:events: what each entry is about, and whether it was linked by then
  delivered,  \* the last entry delivered to the group
  acked,      \* the entries that were acknowledged
  consumer,   \* the batch in hand
  recorded,   \* the entries whose rows are committed, in the order of the rows
  failures,   \* how often something failed
  spoiled     \* history: the entries done in a transaction in which a later statement failed

timelineVars == <<stream, delivered, acked, consumer, recorded, failures, spoiled>>

Reading == [at |-> "reading", next |-> 1, last |-> 0, acks |-> {}, adds |-> <<>>,
            unflushed |-> FALSE, tx |-> "ok"]

TimelineInit ==
  /\ stream = <<>> /\ delivered = 0 /\ acked = {} /\ recorded = <<>>
  /\ consumer = Reading
  /\ failures = 0 /\ spoiled = {}

IsLinked(x) == x \in links \cup documents

\* A worker reports on an instance or a document, or anybody on anything else.
Emit ==
  /\ Len(stream) < MaxStream
  /\ \E x \in Linkable \cup Documents \cup {Nobody} :
       stream' = Append(stream, [about |-> x, linked |-> IsLinked(x)])
  /\ UNCHANGED <<delivered, acked, consumer, recorded, failures, spoiled>>

\* Faulty variant: the entries that were not acknowledged are read again.
ReadPendingToo ==
  /\ consumer.at = "reading"
  /\ LET first == CHOOSE n \in 1 .. delivered + 1 \ acked : \A m \in 1 .. n - 1 : m \in acked
     IN /\ first <= Len(stream)
        /\ delivered' = Len(stream)
        /\ consumer' = [Reading EXCEPT !.at = "processing", !.next = first, !.last = Len(stream)]
  /\ UNCHANGED <<stream, acked, recorded, failures, spoiled>>

\* Faulty variant: "$" instead of ">", what has come meanwhile is not read.
ReadNewest ==
  /\ consumer.at = "reading"
  /\ delivered < Len(stream)
  /\ delivered' = Len(stream)
  /\ consumer' = [Reading EXCEPT !.at = "processing", !.next = Len(stream), !.last = Len(stream)]
  /\ UNCHANGED <<stream, acked, recorded, failures, spoiled>>

\* Faulty variant: the batch is taken to be full.
ReadFullBatch ==
  /\ consumer.at = "reading"
  /\ delivered < Len(stream)
  /\ delivered' = delivered + Batch
  /\ consumer' = [Reading EXCEPT !.at = "processing", !.next = delivered + 1, !.last = delivered + Batch]
  /\ UNCHANGED <<stream, acked, recorded, failures, spoiled>>

\* XREADGROUP with ">": what was never delivered to the group.
Read ==
  /\ consumer.at = "reading"
  /\ delivered < Len(stream)
  /\ LET last == IF delivered + Batch < Len(stream) THEN delivered + Batch ELSE Len(stream)
     IN /\ delivered' = last
        /\ consumer' = [Reading EXCEPT !.at = "processing", !.next = delivered + 1, !.last = last]
  /\ UNCHANGED <<stream, acked, recorded, failures, spoiled>>

InHand == consumer.at = "processing" /\ consumer.next <= consumer.last
Relevant == stream[consumer.next].about # Nobody

\* Nothing to look up: acknowledged whatever became of the transaction.
Skip ==
  /\ InHand /\ ~Relevant
  /\ consumer' = [consumer EXCEPT !.next = @ + 1, !.acks = @ \cup {consumer.next}]
  /\ UNCHANGED <<stream, delivered, acked, recorded, failures, spoiled>>

\* _process_event; the SELECT flushes the rows added before it.
Process ==
  /\ InHand /\ Relevant /\ consumer.tx = "ok"
  /\ LET linked == IsLinked(stream[consumer.next].about)
     IN consumer' = [consumer EXCEPT !.next = @ + 1, !.acks = @ \cup {consumer.next},
                       !.adds = IF linked THEN Append(@, consumer.next) ELSE @,
                       !.unflushed = linked]
  /\ UNCHANGED <<stream, delivered, acked, recorded, failures, spoiled>>

\* Every statement fails in a transaction that has failed.
ProcessInVain ==
  /\ InHand /\ Relevant /\ consumer.tx # "ok"
  /\ consumer' = [consumer EXCEPT !.next = @ + 1]
  /\ UNCHANGED <<stream, delivered, acked, recorded, failures, spoiled>>

May == failures < MaxFailures /\ failures' = failures + 1

\* A statement of the entry fails: PostgreSQL aborts the transaction, of which
\* the session knows nothing; or it was the flush, and the session knows.
FailStatement ==
  /\ InHand /\ Relevant /\ consumer.tx = "ok" /\ May
  /\ \E tx \in {"aborted"} \cup IF consumer.unflushed THEN {"inactive"} ELSE {} :
       consumer' = [consumer EXCEPT !.next = @ + 1, !.tx = tx]
  /\ spoiled' = spoiled \cup consumer.acks
  /\ UNCHANGED <<stream, delivered, acked, recorded>>

BatchIsThrough == consumer.at = "processing" /\ consumer.next > consumer.last

\* No entry succeeded: the session is closed, there is no commit.
NothingToCommit ==
  /\ BatchIsThrough /\ consumer.acks = {}
  /\ consumer' = Reading
  /\ UNCHANGED <<stream, delivered, acked, recorded, failures, spoiled>>

\* COMMIT ends an aborted transaction with a rollback and no error.
CommitBatch ==
  /\ BatchIsThrough /\ consumer.acks # {} /\ consumer.tx # "inactive"
  /\ recorded' = IF consumer.tx = "ok" THEN recorded \o consumer.adds ELSE recorded
  /\ consumer' = [consumer EXCEPT !.at = "committed"]
  /\ UNCHANGED <<stream, delivered, acked, failures, spoiled>>

\* The session refuses to commit what it knows to have failed.
RefuseCommit ==
  /\ BatchIsThrough /\ consumer.acks # {} /\ consumer.tx = "inactive"
  /\ consumer' = Reading
  /\ UNCHANGED <<stream, delivered, acked, recorded, failures, spoiled>>

\* Faulty variant: the entries are acknowledged although the commit failed.
CommitFailsButAcks ==
  /\ BatchIsThrough /\ consumer.acks # {} /\ May
  /\ acked' = acked \cup consumer.acks
  /\ consumer' = Reading
  /\ UNCHANGED <<stream, delivered, recorded, spoiled>>

CommitFails ==
  /\ BatchIsThrough /\ consumer.acks # {} /\ May
  /\ consumer' = Reading
  /\ UNCHANGED <<stream, delivered, acked, recorded, spoiled>>

Ack ==
  /\ consumer.at = "committed"
  /\ acked' = acked \cup consumer.acks
  /\ consumer' = Reading
  /\ UNCHANGED <<stream, delivered, recorded, failures, spoiled>>

\* XACK fails, or the process ends with a batch in hand; its successor has the
\* same consumer name.
Crash ==
  /\ consumer.at # "reading" /\ May
  /\ consumer' = Reading
  /\ UNCHANGED <<stream, delivered, acked, recorded, spoiled>>

ConsumerStep ==
  \/ Read \/ Skip \/ Process \/ ProcessInVain \/ NothingToCommit \/ CommitBatch \/ RefuseCommit \/ Ack

TimelineStep == ConsumerStep \/ Emit \/ FailStatement \/ CommitFails \/ Crash

\* The handlers and the consumer, one step of either at a time.
TimelineSpec ==
  /\ FileInit /\ TimelineInit
  /\ [][(FileNext /\ UNCHANGED timelineVars) \/ (TimelineStep /\ UNCHANGED fileVars)]_<<fileVars, timelineVars>>

-----------------------------------------------------------------------------
TimelineTypeOK ==
  /\ stream \in Seq([about : Subject, linked : BOOLEAN])
  /\ delivered \in 0 .. Len(stream) /\ acked \subseteq 1 .. delivered
  /\ consumer \in [at : {"reading", "processing", "committed"}, next : 1 .. MaxStream + 1,
                   last : 0 .. MaxStream, acks : SUBSET (1 .. MaxStream), adds : Seq(1 .. MaxStream),
                   unflushed : BOOLEAN, tx : {"ok", "aborted", "inactive"}]
  /\ recorded \in Seq(1 .. delivered)
  /\ failures \in 0 .. MaxFailures /\ spoiled \subseteq 1 .. delivered

\* The rows are in the order of the stream and no event has two, whatever
\* fails between the commit of the rows and their acknowledgement: a batch that
\* was not acknowledged is not read again.  (timeline.py:66-96)
RowsFollowStream == \A i, j \in DOMAIN recorded : i < j => recorded[i] < recorded[j]

\* An event of a linked instance or document that was acknowledged has its row,
\* unless a statement of its batch failed: the commit of the aborted
\* transaction then keeps nothing and reports nothing.  (timeline.py:82-96)
AckedIsRecorded ==
  \A n \in acked :
    stream[n].linked /\ n \notin spoiled => \E i \in DOMAIN recorded : recorded[i] = n

\* Every event gets at most one row, and one that is acknowledged has it.
EachEventOnce == RowsFollowStream /\ AckedIsRecorded

\* As long as nothing fails, every event of a linked instance or document gets
\* its row.  (timeline.py:63-96)
EventsAreRecorded ==
  \A n \in 1 .. MaxStream :
    (n <= Len(stream) /\ stream[n].linked)
      ~> (failures > 0 \/ \E i \in DOMAIN recorded : recorded[i] = n)
=============================================================================
