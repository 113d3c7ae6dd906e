----------------------------- MODULE AuditStream -----------------------------
(***************************************************************************)
(* The audit trail: events that the middleware of every service adds to    *)
(* the stream audit:events, the consumer group "audit-service" whose       *)
(* consumers insert them into the partitions of audit_events, and the      *)
(* tasks of AuditPartitions on the same table.                             *)
(*                                                                         *)
(* A consumer first works on the entries that were delivered to its own    *)
(* name and not acknowledged, and reads new ones when there are none.  A   *)
(* batch is inserted with one statement in one transaction, and then       *)
(* acknowledged.  Only the consumer itself changes what is pending for its *)
(* name, so the batch is read off the pending list when it is used.  The   *)
(* name is drawn at random when the process starts: a process that comes   *)
(* back is another consumer.                                               *)
(***************************************************************************)
EXTENDS AuditPartitions, FiniteSets

CONSTANTS
  Malformed,   \* the events whose fields cannot be parsed
  Oversized,   \* the events whose request_id or ip_address, taken from headers of
               \* any length, is longer than its column
  MetadataResolves, \* whether the key "metadata" of a row names the column; FALSE is
               \* the code as it is, where the mapped attribute is metadata_
  Consumers,   \* consumer processes, one name each; one that has yet to start
               \* is one that has not taken a step
  BatchSize,
  Lag          \* bound: months an entry waits for a consumer that runs

ASSUME StreamAssumption ==
  /\ IsFiniteSet(Events) /\ Malformed \subseteq Events /\ Oversized \subseteq Events
  /\ MetadataResolves \in BOOLEAN
  /\ BatchSize \in Nat \ {0}
  /\ Lag \in Nat /\ Lag < Retention

VARIABLES
  id,        \* id[e]: the position of e in the stream, 0 before it is added
  cursor,    \* the last position delivered to the group
  pending,   \* pending[c]: delivered to c and not acknowledged
  consumer   \* consumer[c]: what c has done with its batch

streamVars == <<id, cursor, pending, consumer>>
vars == <<allPartitionVars, streamVars>>

Entries == {e \in Events : id[e] > 0}

TypeOK ==
  /\ PartitionTypeOK
  /\ id \in [Events -> 0..Cardinality(Events)]
  /\ cursor \in 0..Cardinality(Entries)
  /\ pending \in [Consumers -> SUBSET Events]
  /\ consumer \in [Consumers -> {"reading", "inserted", "dead"}]

Init ==
  /\ PartitionInit
  /\ time = [e \in Events |-> 0] /\ rows = [e \in Events |-> 0] /\ faults = 0
  /\ id = [e \in Events |-> 0]
  /\ cursor = 0
  /\ pending = [c \in Consumers |-> {}]
  /\ consumer = [c \in Consumers |-> "reading"]

-----------------------------------------------------------------------------
Goto(c, at) == consumer' = [consumer EXCEPT ![c] = at]
Fault == faults < MaxFaults /\ faults' = faults + 1

\* At most BatchSize of the entries in S, the oldest ones.
Oldests(S) == {e \in S : Cardinality({f \in S : id[f] < id[e]}) < BatchSize}

\* XREADGROUP 0, and XREADGROUP > when that is empty.
Batch(c) == Oldests(pending[c])
Undelivered == {e \in Events : id[e] > cursor}

Valid(b) == b \ Malformed

\* The rows that the INSERT takes.  One statement inserts them all.
Storable(e) == MetadataResolves /\ e \notin Oversized /\ time[e] \in partitions
Accepted(b) == \A e \in Valid(b) : Storable(e)

\* A request ends in some service, and its middleware adds the event.
Emit(e) ==
  /\ id[e] = 0
  /\ id' = [id EXCEPT ![e] = Cardinality(Entries) + 1]
  /\ time' = [time EXCEPT ![e] = month]
  /\ UNCHANGED <<partitionVars, rows, faults, cursor, pending, consumer>>

Deliver(c) ==
  /\ consumer[c] = "reading" /\ pending[c] = {}
  /\ Undelivered # {}
  /\ pending' = [pending EXCEPT ![c] = Oldests(Undelivered)]

\* Faulty variant: the group's position advances by the size asked for.
ReadNewBySize(c) ==
  /\ Deliver(c)
  /\ cursor' = cursor + BatchSize
  /\ UNCHANGED <<allPartitionVars, id, consumer>>

\* The next entries of the stream become pending for this consumer.
ReadNew(c) ==
  /\ Deliver(c)
  /\ cursor' = cursor + Cardinality(Oldests(Undelivered))
  /\ UNCHANGED <<allPartitionVars, id, consumer>>

\* Faulty variant: an entry that cannot be parsed ends the batch.
InsertUnlessMalformed(b) ==
  /\ Accepted(b) /\ b \cap Malformed = {}
  /\ rows' = [e \in Events |-> IF e \in b THEN rows[e] + 1 ELSE rows[e]]

\* The parsed entries in one INSERT and one commit.  Each row has a new uuid,
\* so ON CONFLICT DO NOTHING never meets a conflict.
Insert(b) ==
  /\ Accepted(b)
  /\ rows' = [e \in Events |-> IF e \in Valid(b) THEN rows[e] + 1 ELSE rows[e]]

InsertBatch(c) ==
  /\ consumer[c] = "reading" /\ pending[c] # {}
  /\ Insert(Batch(c))
  /\ Goto(c, "inserted")
  /\ UNCHANGED <<partitionVars, time, faults, id, cursor, pending>>

\* Faulty variant: the exception is logged and the batch acknowledged.
RefuseBatchSilently(c) ==
  /\ consumer[c] = "reading"
  /\ ~Accepted(Batch(c))
  /\ Goto(c, "inserted")
  /\ UNCHANGED <<allPartitionVars, id, cursor, pending>>

\* A row that the table does not take refuses the whole statement: the consumer
\* sleeps RETRY_DELAY and reads the same batch again.
RefuseBatch(c) ==
  /\ consumer[c] = "reading"
  /\ ~Accepted(Batch(c))
  /\ UNCHANGED vars

\* Faulty variant: XACK gets one id of the batch.
AckOne(c) ==
  /\ consumer[c] = "inserted"
  /\ \E e \in Batch(c) : pending' = [pending EXCEPT ![c] = @ \ {e}]
  /\ Goto(c, "reading")
  /\ UNCHANGED <<allPartitionVars, id, cursor>>

\* XACK of the batch, with the entries that could not be parsed.
Ack(c) ==
  /\ consumer[c] = "inserted"
  /\ pending' = [pending EXCEPT ![c] = @ \ Batch(c)]
  /\ Goto(c, "reading")
  /\ UNCHANGED <<allPartitionVars, id, cursor>>

\* The acknowledgement does not reach Valkey.  (A reply with new entries that
\* is lost leaves them pending and the consumer reading: that is ReadNew.)
AckFails(c) ==
  /\ consumer[c] = "inserted"
  /\ Fault
  /\ Goto(c, "reading")
  /\ UNCHANGED <<partitionVars, time, rows, id, cursor, pending>>

\* The answer to the commit is lost.  (A failure before the commit leaves the
\* consumer reading.)
CommitAnswerLost(c) ==
  /\ consumer[c] = "reading" /\ pending[c] # {}
  /\ Fault
  /\ Insert(Batch(c))
  /\ UNCHANGED <<partitionVars, time, streamVars>>

\* The process ends: nobody ever reads what is pending for its name.
Crash(c) ==
  /\ consumer[c] # "dead"
  /\ Fault
  /\ Goto(c, "dead")
  /\ UNCHANGED <<partitionVars, time, rows, id, cursor, pending>>

-----------------------------------------------------------------------------
\* The entries that may still be inserted.
InFlight ==
  {e \in Entries : id[e] > cursor \/ \E c \in Consumers : consumer[c] # "dead" /\ e \in pending[c]}

ConsumerStep(c) == ReadNew(c) \/ InsertBatch(c) \/ RefuseBatch(c) \/ Ack(c)

Next ==
  \/ \E e \in Events : Emit(e)
  \/ \E c \in Consumers : ConsumerStep(c) \/ AckFails(c) \/ CommitAnswerLost(c) \/ Crash(c)
  \/ TaskNext /\ UNCHANGED streamVars
  \/ /\ \A e \in InFlight : month < time[e] + Lag
     /\ NewMonth /\ UNCHANGED streamVars

Spec == Init /\ [][Next]_vars

\* Replicas that have not ended keep looping.
FairSpec ==
  /\ Spec
  /\ \A c \in Consumers : WF_vars(ConsumerStep(c))

-----------------------------------------------------------------------------
(* Properties.                                                             *)

Acked(e) == id[e] \in 1..cursor /\ \A c \in Consumers : e \notin pending[c]
Kept(e) == rows[e] > 0 \/ e \in archive

\* What has left the stream's pending lists is in a partition or in the
\* archive: no consumer acknowledges what it has not stored, and no partition
\* takes rows with it when it is dropped.  (audit_consumer.py:9-10, AU-5;
\* worker/tasks.py:77-80, AU-11)
AckedIsKept == \A e \in Entries \ Malformed : Acked(e) => Kept(e)

\* An event is stored twice only when a call failed: replicas that share the
\* stream and batches that are refused do not duplicate it.
\* (audit_consumer.py:5-6, "no event is processed twice")
CopiesNeedFaults == \A e \in Events : rows[e] <= 1 + faults

\* The trail has every event that was acknowledged, once unless a call failed.
TrailIsKept == AckedIsKept /\ CopiesNeedFaults

\* A batch that the table refuses stops the consumer that holds it and nobody
\* else: every event gets stored, unless a call fails, or the event has been
\* delivered together with a row that is refused, or no consumer is left that
\* is not stopped in this way.  Malformed entries stop nobody.
\* (audit_consumer.py:5-6, "replicas share the load", and :89)
Stopped(c) == ~Accepted(Batch(c))
EventsAreStored ==
  \A e \in Events \ Malformed :
    (id[e] > 0) ~> \/ Kept(e) \/ faults > 0
                   \/ \E c \in Consumers : Stopped(c) /\ e \in pending[c]
                   \/ \A c \in Consumers : Stopped(c)
=============================================================================
