--------------------------- MODULE AuditPartitions ---------------------------
(***************************************************************************)
(* The monthly partitions of the table audit_events: the migration that    *)
(* creates the first two, and the Celery tasks that beat queues on the     *)
(* first day of every month, create_next_partition and                     *)
(* archive_old_partitions.  A month is a number; retention is counted in   *)
(* months.                                                                 *)
(***************************************************************************)
EXTENDS Integers

CONSTANTS
  Events,        \* the audit events of a behaviour
  InstallMonth,  \* the month in which the migration runs
  LastMonth,     \* bound: the clock stops there
  Retention,     \* audit_retention_years, in months
  MaxFaults      \* bound: failed calls and crashes in a behaviour

ASSUME MonthAssumption ==
  InstallMonth \in Nat \ {0} /\ LastMonth \in Nat /\ LastMonth >= InstallMonth
ASSUME RetentionAssumption == Retention \in Nat \ {0} /\ MaxFaults \in Nat

VARIABLES
  month,       \* the month of the clock
  partitions,  \* the months that have a partition
  tasks,       \* the messages in the Celery queue "audit"
  archiver,    \* the archival task in progress
  time,        \* time[e]: the month of event_time, 0 before e is emitted
  rows,        \* rows[e]: how many rows of audit_events hold e
  archive,     \* the events in the objects of the archive bucket
  faults

partitionVars == <<month, partitions, tasks, archiver, archive>>
allPartitionVars == <<partitionVars, time, rows, faults>>

Task == {"create", "archive"}
NoArchiver == [at |-> "idle", keep |-> 0, part |-> 0]

PartitionTypeOK ==
  /\ month \in InstallMonth..LastMonth
  /\ partitions \in SUBSET (InstallMonth..(LastMonth + 2))
  /\ tasks \in SUBSET Task
  /\ archiver \in [at : {"idle", "selecting", "exported"}, keep : Int, part : Nat]
  /\ time \in [Events -> 0..LastMonth]
  /\ rows \in [Events -> Nat]
  /\ archive \in SUBSET Events
  /\ faults \in 0..MaxFaults

\* The migration; beat may or may not have been up on the first of the month.
PartitionInit ==
  /\ month = InstallMonth
  /\ partitions = {InstallMonth, InstallMonth + 1}
  /\ tasks \in {{}, Task}
  /\ archiver = NoArchiver
  /\ archive = {}

-----------------------------------------------------------------------------
RowsIn(p) == {e \in Events : time[e] = p /\ rows[e] > 0}

\* The partitions the archiver selects, oldest first.
Old == {p \in partitions : p < archiver.keep}
Oldest(p) == p \in Old /\ \A q \in Old : p <= q

\* The first of a month: beat queues both tasks.  The worker is assumed to be
\* through with those of the month before.
NewMonth ==
  /\ month < LastMonth
  /\ tasks = {} /\ archiver = NoArchiver
  /\ month' = month + 1
  /\ tasks' = Task
  /\ UNCHANGED <<partitions, archiver, time, rows, archive, faults>>

\* The partition for two months ahead, if it is not there yet.
CreateNextPartition ==
  /\ "create" \in tasks
  /\ partitions' = partitions \cup {month + 2}
  /\ tasks' = tasks \ {"create"}
  /\ UNCHANGED <<month, archiver, time, rows, archive, faults>>

\* An exception is retried, until the retries are used up.
CreateFails ==
  /\ "create" \in tasks
  /\ faults < MaxFaults
  /\ faults' = faults + 1
  /\ tasks' \in {tasks, tasks \ {"create"}}
  /\ UNCHANGED <<month, partitions, archiver, time, rows, archive>>

\* Faulty variant: the cutoff is a month off.
StartArchiveEarly ==
  /\ archiver = NoArchiver
  /\ "archive" \in tasks
  /\ tasks' = tasks \ {"archive"}
  /\ archiver' = [at |-> "selecting", keep |-> month - Retention + 2, part |-> 0]
  /\ UNCHANGED <<month, partitions, time, rows, archive, faults>>

\* The cutoff is today minus the retention: a partition is kept when its first
\* day is not before it.  A task that the worker takes later than on the first
\* day of the month has a cutoff inside a month.
StartArchive ==
  /\ archiver = NoArchiver
  /\ "archive" \in tasks
  /\ tasks' = tasks \ {"archive"}
  /\ \E keep \in {month - Retention, month - Retention + 1} :
       archiver' = [at |-> "selecting", keep |-> keep, part |-> 0]
  /\ UNCHANGED <<month, partitions, time, rows, archive, faults>>

\* SELECT, and put_object under the key of the month.
ExportPartition(p) ==
  /\ archiver.at = "selecting"
  /\ Oldest(p)
  /\ archive' = {e \in archive : time[e] # p} \cup RowsIn(p)
  /\ archiver' = [archiver EXCEPT !.at = "exported", !.part = p]
  /\ UNCHANGED <<month, partitions, tasks, time, rows, faults>>

\* DROP TABLE and commit.
DropPartition ==
  /\ archiver.at = "exported"
  /\ partitions' = partitions \ {archiver.part}
  /\ rows' = [e \in Events |-> IF time[e] = archiver.part THEN 0 ELSE rows[e]]
  /\ archiver' = [archiver EXCEPT !.at = "selecting", !.part = 0]
  /\ UNCHANGED <<month, tasks, time, archive, faults>>

EndArchive ==
  /\ archiver.at = "selecting"
  /\ Old = {}
  /\ archiver' = NoArchiver
  /\ UNCHANGED <<month, partitions, tasks, time, rows, archive, faults>>

\* The task never calls self.retry: an exception or a crash ends it, and what
\* it has not dropped waits for the next month.
ArchiveFails ==
  /\ archiver # NoArchiver
  /\ faults < MaxFaults
  /\ faults' = faults + 1
  /\ archiver' = NoArchiver
  /\ UNCHANGED <<month, partitions, tasks, time, rows, archive>>

TaskNext ==
  \/ CreateNextPartition \/ CreateFails
  \/ StartArchive \/ DropPartition \/ EndArchive \/ ArchiveFails
  \/ \E p \in partitions : ExportPartition(p)

\* The partitions by themselves, with no events.
PartitionSpec ==
  /\ PartitionInit
  /\ time = [e \in Events |-> 0] /\ rows = [e \in Events |-> 0] /\ faults = 0
  /\ [][NewMonth \/ TaskNext]_allPartitionVars

-----------------------------------------------------------------------------
(* Properties.                                                             *)

\* No partition is dropped before the month it was kept for is reached, also
\* when the task runs late in its month.  (worker/tasks.py:77, AU-11)
PartitionsAreKept ==
  [][\A p \in partitions \ partitions' : p + Retention <= month]_allPartitionVars

\* A statement the code does not keep.  worker/tasks.py:48-49: a partition is
\* created two months ahead "so it always exists before data arrives".
PartitionIsThere == month \in partitions
=============================================================================
