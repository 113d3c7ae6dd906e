----------------------- MODULE WorkflowServiceProofs ------------------------
(***************************************************************************)
(* Proofs about the workflow service: its instances, for every process     *)
(* graph and every number of workers, requests and users; its definitions, *)
(* for every number of requests; and the timer tick, for every number of   *)
(* tenants, instances and failures.                                        *)
(***************************************************************************)
EXTENDS WorkflowService, SequenceTheorems, TLAPS

Ordered(d) == \A n \in d : Deps[n] \subseteq d

-----------------------------------------------------------------------------
(* What the engine's closure does.                                         *)

\* The engine only adds nodes.
LEMMA AdvanceExtends ==
  ASSUME NEW d \in SUBSET Node, NEW f
  PROVE  Advance(d, f) \in SUBSET Node /\ d \subseteq Advance(d, f)
BY DEF Advance

\* The engine never completes a user task.
LEMMA AdvanceKeepsHuman ==
  ASSUME NEW d \in SUBSET Node, NEW f, NEW h \in Human, h \in Advance(d, f)
  PROVE  h \in d
<1> DEFINE s == d \cup Automatic \cup Timer
<1>1. s \in SUBSET Node /\ d \subseteq s
  BY DEF Node
<1>2. Settled(s, f)
  BY DEF Settled
<1>3. h \in s
  BY <1>1, <1>2 DEF Advance
<1>4. h \notin Automatic /\ h \notin Timer
  BY NodeAssumption
<1> QED
  BY <1>3, <1>4

\* The closure is settled itself.
LEMMA AdvanceSettled ==
  ASSUME NEW d \in SUBSET Node, NEW f,
         NEW n \in Automatic \cup (Timer \cap f), Deps[n] \subseteq Advance(d, f)
  PROVE  n \in Advance(d, f)
<1>1. n \in Node
  BY DEF Node
<1>2. SUFFICES ASSUME NEW s \in SUBSET Node, d \subseteq s, Settled(s, f)
               PROVE  n \in s
  BY <1>1 DEF Advance
<1>3. Deps[n] \subseteq s
  BY <1>2 DEF Advance
<1> QED
  BY <1>2, <1>3 DEF Settled

\* The engine respects the process: it keeps a causally closed state closed.
LEMMA AdvanceOrdered ==
  ASSUME NEW d \in SUBSET Node, NEW f, Ordered(d)
  PROVE  Ordered(Advance(d, f))
<1> DEFINE a == Advance(d, f)
           s == {n \in a : n \in d \/ Deps[n] \subseteq a}
<1>1. a \in SUBSET Node /\ d \subseteq a
  BY AdvanceExtends
<1>2. s \in SUBSET Node /\ d \subseteq s
  BY <1>1
<1>3. Settled(s, f)
  <2>1. SUFFICES ASSUME NEW n \in Automatic \cup (Timer \cap f), Deps[n] \subseteq s
                 PROVE  n \in s
    BY DEF Settled
  <2>2. Deps[n] \subseteq a
    BY <2>1
  <2>3. n \in a
    BY <2>2, AdvanceSettled
  <2> QED
    BY <2>2, <2>3
<1>4. ASSUME NEW n \in a PROVE Deps[n] \subseteq a
  <2>1. n \in s
    BY <1>2, <1>3, <1>4 DEF Advance
  <2>2. CASE n \in d
    BY <2>2, <1>1 DEF Ordered
  <2>3. CASE Deps[n] \subseteq a
    BY <2>3
  <2> QED
    BY <2>1, <2>2, <2>3
<1> HIDE DEF a
<1>5. Ordered(a)
  BY <1>4 DEF Ordered
<1> QED
  BY <1>5 DEF a

\* The status written is one of the documented ones and fits the state.
LEMMA NewStatusFits ==
  ASSUME NEW d \in SUBSET Node
  PROVE  /\ NewStatus(d) \in {"running", "waiting", "completed"}
         /\ NewStatus(d) = "completed" <=> IsCompleted(d)
         /\ NewStatus(d) = "waiting" => ReadyTasks(d) = {}
         /\ NewStatus(d) = "running" => ReadyTasks(d) # {}
<1>1. CASE IsCompleted(d)
  <2>1. NewStatus(d) = "completed"
    BY <1>1 DEF NewStatus
  <2> QED BY <1>1, <2>1
<1>2. CASE ~IsCompleted(d) /\ ReadyTasks(d) = {}
  <2>1. NewStatus(d) = "waiting"
    BY <1>2 DEF NewStatus
  <2> QED BY <1>2, <2>1
<1>3. CASE ~IsCompleted(d) /\ ReadyTasks(d) # {}
  <2>1. NewStatus(d) = "running"
    BY <1>3 DEF NewStatus
  <2> QED BY <1>3, <2>1
<1> QED
  BY <1>1, <1>2, <1>3

-----------------------------------------------------------------------------
(* Type correctness.                                                       *)

LEMMA PutType ==
  ASSUME TypeOK, NEW j \in Job
  PROVE  Put(j) \in [Job -> Nat]
BY DEF Put, TypeOK

LEMMA RetryType ==
  ASSUME TypeOK, NEW j \in Job
  PROVE  Retry(j) \in [Job -> Nat]
<1>1. CASE j.tries < MaxRetries
  <2>1. [j EXCEPT !.tries = @ + 1] \in Job
    BY <1>1, BoundAssumption DEF Job
  <2> QED
    BY <1>1, <2>1, PutType DEF Retry
<1>2. CASE ~(j.tries < MaxRetries)
  BY <1>2 DEF Retry, TypeOK
<1> QED
  BY <1>1, <1>2

LEMMA SyncType ==
  ASSUME NEW rows \in [Human -> TaskStatus], NEW ready
  PROVE  SyncTaskInstances(rows, ready) \in [Human -> TaskStatus]
BY DEF SyncTaskInstances, TaskStatus

LEMMA WorkerType ==
  ASSUME TypeOK, NEW w \in Workers
  PROVE  /\ worker[w].seen \in SUBSET Node
         /\ worker[w].job \in Job \cup {NoJob}
         /\ Runs(w, "complete") => worker[w].job.task \in Human
         /\ Release(w) \in [Workers -> [job : Job \cup {NoJob}, seen : SUBSET Node]]
<1>1. worker[w] \in [job : Job \cup {NoJob}, seen : SUBSET Node]
  BY DEF TypeOK
<1>2. Runs(w, "complete") => worker[w].job.task \in Human
  BY <1>1 DEF Runs, Job
<1>3. Release(w) \in [Workers -> [job : Job \cup {NoJob}, seen : SUBSET Node]]
  BY DEF Release, TypeOK
<1> QED
  BY <1>1, <1>2, <1>3

LEMMA JobType ==
  /\ StepJob \in Job
  /\ \A h \in Human : CompleteJob(h) \in Job
BY BoundAssumption DEF StepJob, CompleteJob, Job

LEMMA InitTypeOK == Init => TypeOK
BY BoundAssumption DEF Init, TypeOK, InstanceStatus, TaskStatus

\* What a worker's commit writes has its type.
LEMMA CommitType ==
  ASSUME TypeOK, NEW w \in Workers,
         CommitStep(w) \/ CommitComplete(w)
  PROVE  TypeOK'
<1>1. CASE CommitStep(w)
  <2> DEFINE d == Advance(worker[w].seen, due)
  <2>1. d \in SUBSET Node
    BY WorkerType, AdvanceExtends
  <2> HIDE DEF d
  <2>2. NewStatus(d) \in InstanceStatus
    BY <2>1, NewStatusFits DEF InstanceStatus
  <2>3. SyncTaskInstances(taskStatus, ReadyTasks(d)) \in [Human -> TaskStatus]
    BY SyncType DEF TypeOK
  <2>4. /\ done' = d
        /\ status' = NewStatus(d)
        /\ taskStatus' = SyncTaskInstances(taskStatus, ReadyTasks(d))
        /\ worker' = Release(w)
        /\ UNCHANGED <<assignee, queue, api, due, faults>>
    BY <1>1 DEF CommitStep, d
  <2> QED
    BY <2>1, <2>2, <2>3, <2>4, WorkerType DEF TypeOK
<1>2. CASE CommitComplete(w)
  <2> DEFINE h == worker[w].job.task
             d == Advance(worker[w].seen \cup {h}, due)
             rows == [taskStatus EXCEPT ![h] = "completed"]
  <2>1. h \in Human /\ worker[w].seen \cup {h} \in SUBSET Node
    BY <1>2, WorkerType DEF CommitComplete, Node
  <2>2. d \in SUBSET Node
    BY <2>1, AdvanceExtends
  <2>3. /\ done' = d
        /\ status' = NewStatus(d)
        /\ taskStatus' = SyncTaskInstances(rows, ReadyTasks(d))
        /\ worker' = Release(w)
        /\ UNCHANGED <<assignee, queue, api, due, faults>>
    BY <1>2 DEF CommitComplete
  <2>4. rows \in [Human -> TaskStatus]
    BY <2>1 DEF TypeOK, TaskStatus
  <2> HIDE DEF d, rows
  <2>5. NewStatus(d) \in InstanceStatus
    BY <2>2, NewStatusFits DEF InstanceStatus
  <2>6. SyncTaskInstances(rows, ReadyTasks(d)) \in [Human -> TaskStatus]
    BY <2>4, SyncType
  <2> QED
    BY <2>2, <2>3, <2>5, <2>6, WorkerType DEF TypeOK
<1> QED
  BY <1>1, <1>2

\* One step per action.
LEMMA NextTypeOK ==
  ASSUME TypeOK, [Next]_vars
  PROVE  TypeOK'
<1>1. ASSUME NEW c \in Clients, StartInstance(c) PROVE TypeOK'
  BY <1>1 DEF StartInstance, TypeOK, InstanceStatus, Request
<1>2. ASSUME NEW c \in Clients, EnqueueFirstStep(c) PROVE TypeOK'
  BY <1>2, PutType, JobType DEF EnqueueFirstStep, TypeOK
<1>3. ASSUME NEW c \in Clients, AbortRequest(c) PROVE TypeOK'
  BY <1>3, BoundAssumption DEF AbortRequest, TypeOK
<1>4. ASSUME NEW c \in Clients, CancelRead(c) PROVE TypeOK'
  BY <1>4 DEF CancelRead, TypeOK, Request
<1>5. ASSUME NEW c \in Clients, CancelCommit(c) PROVE TypeOK'
  BY <1>5 DEF CancelCommit, TypeOK, InstanceStatus
<1>6. ASSUME NEW c \in Clients, ClaimCommit(c) PROVE TypeOK'
  <2>1. api[c].task \in Human /\ api[c].user \in Users
    BY <1>6 DEF ClaimCommit, TypeOK, Request
  <2> QED
    BY <1>6, <2>1 DEF ClaimCommit, TypeOK, TaskStatus
<1>7. ASSUME NEW c \in Clients, NEW h \in Human, NEW u \in Users, ClaimRead(c, h, u)
      PROVE  TypeOK'
  BY <1>7 DEF ClaimRead, TypeOK, Request
<1>8. ASSUME NEW h \in Human, NEW u \in Users, CompletePost(h, u) PROVE TypeOK'
  BY <1>8, PutType, JobType DEF CompletePost, TypeOK
<1>9. ASSUME NEW w \in Workers, NEW j \in Job, TakeStep(w, j) \/ TakeComplete(w, j)
      PROVE  TypeOK'
  BY <1>9 DEF TakeStep, TakeComplete, TypeOK
<1>10. ASSUME NEW w \in Workers, CommitStep(w) \/ CommitComplete(w) PROVE TypeOK'
  BY <1>10, CommitType
<1>11. ASSUME NEW w \in Workers, RejectComplete(w) \/ FailJob(w) PROVE TypeOK'
  <2>1. worker[w].job \in Job
    BY <1>11, WorkerType DEF RejectComplete, FailJob, Idle, Runs
  <2> QED
    BY <1>11, <2>1, RetryType, WorkerType, BoundAssumption DEF RejectComplete, FailJob, TypeOK
<1>12. ASSUME NEW w \in Workers, CrashWorker(w) PROVE TypeOK'
  BY <1>12, WorkerType, BoundAssumption DEF CrashWorker, TypeOK
<1>13. ASSUME TickTimerEvents PROVE TypeOK'
  BY <1>13, PutType, JobType DEF TickTimerEvents, TypeOK
<1>14. ASSUME NEW t \in Timer, TimerExpires(t) PROVE TypeOK'
  BY <1>14 DEF TimerExpires, TypeOK
<1>15. CASE UNCHANGED vars
  BY <1>15 DEF vars, TypeOK
<1> QED
  BY <1>1, <1>2, <1>3, <1>4, <1>5, <1>6, <1>7, <1>8, <1>9, <1>10, <1>11, <1>12, <1>13,
     <1>14, <1>15 DEF Next, ApiNext, WorkerNext, Take

\* Every reachable state of every instance has the types of the schema:
\* no commit, retry or claim leaves a value outside the documented columns.
THEOREM WorkflowTypes == Spec => []TypeOK
BY InitTypeOK, NextTypeOK, PTL DEF Spec

-----------------------------------------------------------------------------
(* Safety with any number of workers.  Stale engine states are written back *)
(* (there is no lock), so the invariant speaks of the state each worker has *)
(* read as well as of the stored one: each is a state the process can be    *)
(* in, whose completed user tasks have rows that are past "ready".          *)

Past(rows, d) == \A h \in Human : h \in d => rows[h] \in {"claimed", "completed"}

SafeInv ==
  /\ StatusAgreesWithEngine
  /\ ReadyTaskHasRow
  /\ Ordered(done)
  /\ Past(taskStatus, done)
  /\ \A w \in Workers : Ordered(worker[w].seen) /\ Past(taskStatus, worker[w].seen)

\* Rows past "ready" stay so.
LEMMA SyncKeepsPast ==
  ASSUME NEW rows \in [Human -> TaskStatus], NEW ready, NEW d, Past(rows, d)
  PROVE  Past(SyncTaskInstances(rows, ready), d)
BY DEF SyncTaskInstances, Past

\* After the sync no ready task is without a row.
LEMMA SyncCoversReady ==
  ASSUME NEW rows \in [Human -> TaskStatus], NEW ready
  PROVE  \A h \in Human : h \in ready => SyncTaskInstances(rows, ready)[h] # "none"
BY DEF SyncTaskInstances

\* No user task is ready before the start event.
LEMMA NothingReadyAtFirst == ReadyTasks({}) = {}
BY NodeAssumption DEF ReadyTasks, Enabled, Node

LEMMA FreshIsNotCompleted == ~IsCompleted({})
BY NodeAssumption DEF IsCompleted, Node

\* A commit of the state d with the rows that go with it keeps the invariant.
LEMMA CommitKeepsSafe ==
  ASSUME TypeOK, SafeInv, NEW w \in Workers, NEW d \in SUBSET Node,
         NEW rows \in [Human -> TaskStatus],
         Ordered(d), Past(rows, d),
         \A v \in Workers : Past(rows, worker[v].seen),
         done' = d, status' = NewStatus(d),
         taskStatus' = SyncTaskInstances(rows, ReadyTasks(d)),
         worker' = Release(w)
  PROVE  SafeInv'
<1>1. StatusAgreesWithEngine'
  <2>1. /\ status' = "completed" <=> IsCompleted(done')
        /\ status' = "waiting" => ReadyTasks(done') = {}
        /\ status' = "running" => ReadyTasks(done') # {}
    BY NewStatusFits
  <2> QED
    BY <2>1 DEF StatusAgreesWithEngine, Final
<1>2. ReadyTaskHasRow'
  <2>1. \A h \in ReadyTasks(d) : h \in Human
    BY DEF ReadyTasks
  <2> QED
    BY <2>1, SyncCoversReady DEF ReadyTaskHasRow
<1>3. Ordered(done')
  OBVIOUS
<1>4. Past(taskStatus', done')
  BY SyncKeepsPast
<1>5. ASSUME NEW v \in Workers
      PROVE  Ordered(worker'[v].seen) /\ Past(taskStatus', worker'[v].seen)
  <2>1. worker'[v].seen = worker[v].seen \/ worker'[v].seen = {}
    BY DEF Release, TypeOK
  <2>2. Past(taskStatus', worker[v].seen)
    BY SyncKeepsPast
  <2>3. Ordered({}) /\ Past(taskStatus', {})
    BY DEF Ordered, Past
  <2> QED
    BY <2>1, <2>2, <2>3 DEF SafeInv
<1> QED
  BY <1>1, <1>2, <1>3, <1>4, <1>5 DEF SafeInv

LEMMA CommitStepSafe ==
  ASSUME TypeOK, SafeInv, NEW w \in Workers, CommitStep(w)
  PROVE  SafeInv'
<1> DEFINE d == Advance(worker[w].seen, due)
<1>1. d \in SUBSET Node
  BY WorkerType, AdvanceExtends
<1>2. Ordered(d)
  BY WorkerType, AdvanceOrdered DEF SafeInv
<1>3. Past(taskStatus, d)
  BY WorkerType, AdvanceKeepsHuman DEF SafeInv, Past
<1>4. /\ done' = d
      /\ status' = NewStatus(d)
      /\ taskStatus' = SyncTaskInstances(taskStatus, ReadyTasks(d))
      /\ worker' = Release(w)
  BY DEF CommitStep
<1> HIDE DEF d
<1> QED
  BY <1>1, <1>2, <1>3, <1>4, CommitKeepsSafe DEF SafeInv, TypeOK

LEMMA CommitCompleteSafe ==
  ASSUME TypeOK, SafeInv, NEW w \in Workers, CommitComplete(w)
  PROVE  SafeInv'
<1> DEFINE h == worker[w].job.task
           s == worker[w].seen \cup {h}
           d == Advance(s, due)
           rows == [taskStatus EXCEPT ![h] = "completed"]
<1>1. h \in Human /\ s \in SUBSET Node
  BY WorkerType DEF CommitComplete, Node
<1>2. d \in SUBSET Node
  BY <1>1, AdvanceExtends
<1>3. Ordered(s)
  BY DEF CommitComplete, ReadyTasks, Enabled, SafeInv, Ordered
<1>4. Ordered(d)
  BY <1>1, <1>3, AdvanceOrdered
<1>5. rows \in [Human -> TaskStatus]
  BY <1>1 DEF TypeOK, TaskStatus
<1>6. ASSUME NEW v \in Workers PROVE Past(rows, worker[v].seen)
  BY <1>1 DEF SafeInv, Past, TypeOK
<1>7. Past(rows, d)
  <2>1. SUFFICES ASSUME NEW g \in Human, g \in d
                 PROVE  rows[g] \in {"claimed", "completed"}
    BY DEF Past
  <2>2. g \in s
    BY <1>1, <2>1, AdvanceKeepsHuman
  <2>3. CASE g = h
    BY <1>1, <2>3 DEF TypeOK
  <2>4. CASE g # h
    BY <2>2, <2>4, <1>6 DEF Past
  <2> QED
    BY <2>3, <2>4
<1>8. /\ done' = d
      /\ status' = NewStatus(d)
      /\ taskStatus' = SyncTaskInstances(rows, ReadyTasks(d))
      /\ worker' = Release(w)
  BY DEF CommitComplete
<1> HIDE DEF d, rows
<1> QED
  BY <1>2, <1>4, <1>5, <1>6, <1>7, <1>8, CommitKeepsSafe

LEMMA InitSafe == Init => SafeInv
<1> SUFFICES ASSUME Init PROVE SafeInv
  OBVIOUS
<1>1. StatusAgreesWithEngine
  BY FreshIsNotCompleted DEF Init, StatusAgreesWithEngine
<1>2. ReadyTaskHasRow
  BY NothingReadyAtFirst DEF Init, ReadyTaskHasRow
<1> QED
  BY <1>1, <1>2 DEF Init, SafeInv, Ordered, Past

\* The actions that write neither the instance row nor the task rows, and at
\* most free a worker or let it read the stored state.
LEMMA QuietStepSafe ==
  ASSUME TypeOK, SafeInv,
         UNCHANGED <<status, done, taskStatus>>,
         \A v \in Workers : worker'[v].seen \in {worker[v].seen, done, {}}
  PROVE  SafeInv'
<1>1. StatusAgreesWithEngine' /\ ReadyTaskHasRow'
  BY DEF SafeInv, StatusAgreesWithEngine, ReadyTaskHasRow
<1>2. Ordered({}) /\ Past(taskStatus, {})
  BY DEF Ordered, Past
<1>3. \A v \in Workers : Ordered(worker'[v].seen) /\ Past(taskStatus', worker'[v].seen)
  BY <1>2 DEF SafeInv
<1> QED
  BY <1>1, <1>3 DEF SafeInv

LEMMA NextSafe ==
  ASSUME TypeOK, SafeInv, [Next]_vars
  PROVE  SafeInv'
<1>1. ASSUME NEW c \in Clients, StartInstance(c) PROVE SafeInv'
  <2>1. done' = {} /\ status' = "running" /\ UNCHANGED <<taskStatus, worker>>
    BY <1>1 DEF StartInstance
  <2>2. StatusAgreesWithEngine' /\ ReadyTaskHasRow'
    BY <2>1, FreshIsNotCompleted, NothingReadyAtFirst DEF StatusAgreesWithEngine, ReadyTaskHasRow
  <2> QED
    BY <2>1, <2>2 DEF SafeInv, Ordered, Past
<1>2. ASSUME NEW c \in Clients,
             \/ EnqueueFirstStep(c) \/ AbortRequest(c) \/ CancelRead(c)
             \/ \E h \in Human, u \in Users : ClaimRead(c, h, u)
      PROVE  SafeInv'
  BY <1>2, QuietStepSafe DEF EnqueueFirstStep, AbortRequest, CancelRead, ClaimRead
<1>3. ASSUME NEW c \in Clients, CancelCommit(c) PROVE SafeInv'
  BY <1>3 DEF CancelCommit, SafeInv, StatusAgreesWithEngine, ReadyTaskHasRow, Final
<1>4. ASSUME NEW c \in Clients, ClaimCommit(c) PROVE SafeInv'
  <2> DEFINE h == api[c].task
  <2>1. h \in Human
    BY <1>4 DEF ClaimCommit, TypeOK, Request
  <2>2. taskStatus' = [taskStatus EXCEPT ![h] = "claimed"] /\ UNCHANGED <<status, done, worker>>
    BY <1>4 DEF ClaimCommit
  <2>3. ReadyTaskHasRow' /\ StatusAgreesWithEngine'
    BY <2>1, <2>2 DEF SafeInv, ReadyTaskHasRow, StatusAgreesWithEngine, TypeOK, ReadyTasks
  <2>4. ASSUME NEW d, Past(taskStatus, d) PROVE Past(taskStatus', d)
    BY <2>1, <2>2, <2>4 DEF Past, TypeOK
  <2> QED
    BY <2>2, <2>3, <2>4 DEF SafeInv
<1>5. ASSUME NEW h \in Human, NEW u \in Users, CompletePost(h, u) PROVE SafeInv'
  BY <1>5, QuietStepSafe DEF CompletePost
<1>6. ASSUME NEW w \in Workers, NEW j \in Job, TakeStep(w, j) \/ TakeComplete(w, j)
      PROVE  SafeInv'
  BY <1>6, QuietStepSafe DEF TakeStep, TakeComplete, TypeOK
<1>7. ASSUME NEW w \in Workers, CommitStep(w) \/ CommitComplete(w) PROVE SafeInv'
  BY <1>7, CommitStepSafe, CommitCompleteSafe
<1>8. ASSUME NEW w \in Workers, RejectComplete(w) \/ FailJob(w) \/ CrashWorker(w)
      PROVE  SafeInv'
  BY <1>8, QuietStepSafe DEF RejectComplete, FailJob, CrashWorker, Release, TypeOK
<1>9. ASSUME TickTimerEvents \/ \E t \in Timer : TimerExpires(t) PROVE SafeInv'
  BY <1>9, QuietStepSafe DEF TickTimerEvents, TimerExpires
<1>10. CASE UNCHANGED vars
  BY <1>10, QuietStepSafe DEF vars
<1> QED
  BY <1>1, <1>2, <1>3, <1>4, <1>5, <1>6, <1>7, <1>8, <1>9, <1>10
  DEF Next, ApiNext, WorkerNext, Take

\* The invariant gives the four properties the runs check.
LEMMA SafeImplies ==
  TypeOK /\ SafeInv =>
    StatusAgreesWithEngine /\ ReadyTaskHasRow /\ ProcessOrder /\ ReadyRowIsOpen
BY DEF SafeInv, ProcessOrder, Ordered, ReadyRowIsOpen, Past

\* With any number of workers, retries, crashes and cancellations, the status
\* column agrees with the engine state written beside it.
THEOREM StatusAlwaysAgrees == Spec => []StatusAgreesWithEngine
BY InitTypeOK, NextTypeOK, InitSafe, NextSafe, SafeImplies, PTL DEF Spec

\* No open user task of the stored state is without an inbox row.
THEOREM OpenTasksHaveRows == Spec => []ReadyTaskHasRow
BY InitTypeOK, NextTypeOK, InitSafe, NextSafe, SafeImplies, PTL DEF Spec

\* The stored engine state is always one the process can reach, also after a
\* stale state has been written back.
THEOREM StoredStateIsOrdered == Spec => []ProcessOrder
BY InitTypeOK, NextTypeOK, InitSafe, NextSafe, SafeImplies, PTL DEF Spec

\* The inbox never offers as ready what the engine has completed.
THEOREM ReadyRowsAreOpen == Spec => []ReadyRowIsOpen
BY InitTypeOK, NextTypeOK, InitSafe, NextSafe, SafeImplies, PTL DEF Spec

-----------------------------------------------------------------------------
(* Safety with one worker process: then no engine state is ever stale.     *)

OneWorker == \A v, w \in Workers : v = w

FreshInv ==
  /\ status = "none" => done = {}
  /\ \A w \in Workers : worker[w].job # NoJob => worker[w].seen = done
  /\ RowsAgreeWithEngine

\* A commit of one worker that extends the stored state keeps the invariant.
LEMMA CommitKeepsFresh ==
  ASSUME OneWorker, TypeOK, FreshInv, NEW w \in Workers, NEW d \in SUBSET Node,
         NEW rows \in [Human -> TaskStatus], done \subseteq d,
         \A h \in Human : rows[h] = "completed" => h \in d,
         \A h \in Human : rows[h] = "ready" => h \in ReadyTasks(d),
         done' = d, status' = NewStatus(d),
         taskStatus' = SyncTaskInstances(rows, ReadyTasks(d)),
         worker' = Release(w)
  PROVE  FreshInv'
<1>1. status' # "none"
  BY NewStatusFits
<1>2. \A v \in Workers : worker'[v].job = NoJob
  BY DEF OneWorker, Release, TypeOK
<1>3. RowsAgreeWithEngine'
  BY DEF RowsAgreeWithEngine, SyncTaskInstances
<1> QED
  BY <1>1, <1>2, <1>3 DEF FreshInv

LEMMA CommitStepFresh ==
  ASSUME OneWorker, TypeOK, FreshInv, NEW w \in Workers, CommitStep(w)
  PROVE  FreshInv' /\ done \subseteq done'
<1> DEFINE d == Advance(worker[w].seen, due)
<1>1. worker[w].seen = done
  BY DEF CommitStep, Runs, FreshInv
<1>2. d \in SUBSET Node /\ done \subseteq d
  BY <1>1, WorkerType, AdvanceExtends
<1>3. \A h \in Human : taskStatus[h] = "completed" => h \in d
  BY <1>2 DEF FreshInv, RowsAgreeWithEngine
<1>4. ASSUME NEW h \in Human, taskStatus[h] = "ready" PROVE h \in ReadyTasks(d)
  <2>1. h \notin done /\ Deps[h] \subseteq done
    BY <1>4 DEF FreshInv, RowsAgreeWithEngine, ReadyTasks, Enabled
  <2>2. h \notin d
    BY <1>1, <2>1, WorkerType, AdvanceKeepsHuman
  <2> QED
    BY <1>2, <2>1, <2>2 DEF ReadyTasks, Enabled
<1>5. /\ done' = d
      /\ status' = NewStatus(d)
      /\ taskStatus' = SyncTaskInstances(taskStatus, ReadyTasks(d))
      /\ worker' = Release(w)
  BY DEF CommitStep
<1> HIDE DEF d
<1> QED
  BY <1>2, <1>3, <1>4, <1>5, CommitKeepsFresh DEF TypeOK

LEMMA CommitCompleteFresh ==
  ASSUME OneWorker, TypeOK, FreshInv, NEW w \in Workers, CommitComplete(w)
  PROVE  FreshInv' /\ done \subseteq done'
<1> DEFINE h == worker[w].job.task
           s == worker[w].seen \cup {h}
           d == Advance(s, due)
           rows == [taskStatus EXCEPT ![h] = "completed"]
<1>1. worker[w].seen = done
  BY DEF CommitComplete, Runs, FreshInv
<1>2. h \in Human /\ s \in SUBSET Node
  BY WorkerType DEF CommitComplete, Node
<1>3. d \in SUBSET Node /\ s \subseteq d
  BY <1>2, AdvanceExtends
<1>4. rows \in [Human -> TaskStatus]
  BY <1>2 DEF TypeOK, TaskStatus
<1>5. ASSUME NEW g \in Human, rows[g] = "completed" PROVE g \in d
  <2>1. CASE g = h
    BY <2>1, <1>3
  <2>2. CASE g # h
    BY <2>2, <1>1, <1>2, <1>3, <1>5 DEF FreshInv, RowsAgreeWithEngine, TypeOK
  <2> QED
    BY <2>1, <2>2
<1>6. ASSUME NEW g \in Human, rows[g] = "ready" PROVE g \in ReadyTasks(d)
  <2>1. g # h /\ taskStatus[g] = "ready"
    BY <1>2, <1>6 DEF TypeOK
  <2>2. g \notin done /\ Deps[g] \subseteq done
    BY <2>1 DEF FreshInv, RowsAgreeWithEngine, ReadyTasks, Enabled
  <2>3. g \notin s
    BY <1>1, <2>1, <2>2
  <2>4. g \notin d
    BY <1>2, <2>3, AdvanceKeepsHuman
  <2> QED
    BY <1>1, <1>3, <2>2, <2>4 DEF ReadyTasks, Enabled
<1>7. /\ done' = d
      /\ status' = NewStatus(d)
      /\ taskStatus' = SyncTaskInstances(rows, ReadyTasks(d))
      /\ worker' = Release(w)
  BY DEF CommitComplete
<1>8. done \subseteq d
  BY <1>1, <1>3
<1> HIDE DEF d, rows
<1> QED
  BY <1>3, <1>4, <1>5, <1>6, <1>7, <1>8, CommitKeepsFresh

LEMMA InitFresh == Init => FreshInv
BY DEF Init, FreshInv, RowsAgreeWithEngine

\* The actions that leave the rows as they are.
LEMMA QuietStepFresh ==
  ASSUME TypeOK, FreshInv,
         UNCHANGED <<done, taskStatus>>,
         status' = status \/ status' # "none",
         \A v \in Workers : worker'[v].job # NoJob => worker'[v].seen \in {worker[v].seen, done},
         \A v \in Workers : worker'[v].job # NoJob /\ worker'[v].seen # done => worker[v].job # NoJob
  PROVE  FreshInv' /\ done \subseteq done'
BY DEF FreshInv, RowsAgreeWithEngine

LEMMA NextFresh ==
  ASSUME OneWorker, TypeOK, FreshInv, [Next]_vars
  PROVE  FreshInv' /\ done \subseteq done'
<1>1. ASSUME NEW c \in Clients, StartInstance(c) PROVE FreshInv' /\ done \subseteq done'
  <2>1. done = {} /\ done' = {} /\ status' = "running" /\ UNCHANGED <<taskStatus, worker>>
    BY <1>1 DEF StartInstance, FreshInv
  <2> QED
    BY <2>1 DEF FreshInv, RowsAgreeWithEngine
<1>2. ASSUME NEW c \in Clients,
             \/ EnqueueFirstStep(c) \/ AbortRequest(c) \/ CancelRead(c) \/ CancelCommit(c)
             \/ \E h \in Human, u \in Users : ClaimRead(c, h, u)
      PROVE  FreshInv' /\ done \subseteq done'
  BY <1>2, QuietStepFresh
  DEF EnqueueFirstStep, AbortRequest, CancelRead, CancelCommit, ClaimRead
<1>3. ASSUME NEW c \in Clients, ClaimCommit(c) PROVE FreshInv' /\ done \subseteq done'
  <2> DEFINE h == api[c].task
  <2>1. h \in Human
    BY <1>3 DEF ClaimCommit, TypeOK, Request
  <2>2. taskStatus' = [taskStatus EXCEPT ![h] = "claimed"] /\ UNCHANGED <<status, done, worker>>
    BY <1>3 DEF ClaimCommit
  <2>3. RowsAgreeWithEngine'
    BY <2>1, <2>2 DEF FreshInv, RowsAgreeWithEngine, TypeOK, ReadyTasks
  <2> QED
    BY <2>2, <2>3 DEF FreshInv
<1>4. ASSUME NEW h \in Human, NEW u \in Users, CompletePost(h, u)
      PROVE  FreshInv' /\ done \subseteq done'
  BY <1>4, QuietStepFresh DEF CompletePost
<1>5. ASSUME NEW w \in Workers, NEW j \in Job, TakeStep(w, j) \/ TakeComplete(w, j)
      PROVE  FreshInv' /\ done \subseteq done'
  BY <1>5, QuietStepFresh DEF TakeStep, TakeComplete, TypeOK
<1>6. ASSUME NEW w \in Workers, CommitStep(w) \/ CommitComplete(w)
      PROVE  FreshInv' /\ done \subseteq done'
  BY <1>6, CommitStepFresh, CommitCompleteFresh
<1>7. ASSUME NEW w \in Workers, RejectComplete(w) \/ FailJob(w) \/ CrashWorker(w)
      PROVE  FreshInv' /\ done \subseteq done'
  BY <1>7, QuietStepFresh DEF RejectComplete, FailJob, CrashWorker, Release, TypeOK
<1>8. ASSUME TickTimerEvents \/ \E t \in Timer : TimerExpires(t)
      PROVE  FreshInv' /\ done \subseteq done'
  BY <1>8, QuietStepFresh DEF TickTimerEvents, TimerExpires
<1>9. CASE UNCHANGED vars
  BY <1>9, QuietStepFresh DEF vars
<1> QED
  BY <1>1, <1>2, <1>3, <1>4, <1>5, <1>6, <1>7, <1>8, <1>9
  DEF Next, ApiNext, WorkerNext, Take

\* With one worker process a row is completed only together with the engine's
\* task, and every ready row can be completed.
THEOREM OneWorkerRowsAgree == OneWorker => (Spec => []RowsAgreeWithEngine)
<1> SUFFICES ASSUME OneWorker PROVE Spec => []RowsAgreeWithEngine
  OBVIOUS
<1>1. FreshInv => RowsAgreeWithEngine
  BY DEF FreshInv
<1>2. TypeOK /\ FreshInv /\ [Next]_vars => FreshInv'
  BY NextFresh
<1> QED
  BY InitTypeOK, NextTypeOK, InitFresh, <1>1, <1>2, PTL DEF Spec

\* With one worker process no completed work is undone.
THEOREM OneWorkerNeverRegresses == OneWorker => (Spec => EngineNeverRegresses)
<1> SUFFICES ASSUME OneWorker PROVE Spec => EngineNeverRegresses
  OBVIOUS
<1>1. TypeOK /\ FreshInv /\ [Next]_vars => FreshInv' /\ [done \subseteq done']_vars
  BY NextFresh
<1> QED
  BY InitTypeOK, NextTypeOK, InitFresh, <1>1, PTL DEF Spec, EngineNeverRegresses

-----------------------------------------------------------------------------
(* The definitions.                                                        *)

Upload == [content : Editings, version : Nat]
Edit == [at : {"idle", "read", "done"}, op : {"none", "update", "delete", "start"},
         read : Definition \cup {NoDefinition}]
AsUpload(d) == [content |-> d.content, version |-> d.version]

\* What a request has read was uploaded, and its own content is new.
EditingInv(r) ==
  /\ editing[r].at = "idle" => editing[r].op = "none"
  /\ editing[r].at = "read" =>
       editing[r].read \in Definition /\ \E i \in DOMAIN written : written[i] = AsUpload(editing[r].read)
  /\ editing[r].at # "done" => \A i \in DOMAIN written : written[i].content # r
  /\ editing[r].at = "done" /\ editing[r].op = "delete" => definition \in Definition /\ ~definition.active
  /\ definition = NoDefinition => editing[r].at # "read"

\* Versions go up but for updates that overtook others.
UploadsInv ==
  /\ \A i, j \in DOMAIN written : written[i].content = written[j].content => i = j
  /\ \A i, j \in DOMAIN written :
       i < j /\ written[j].version <= written[i].version
         => \E k \in i + 1 .. j : written[k].content \in overtaken

RowIsLast ==
  IF definition = NoDefinition THEN written = <<>> /\ pinned = {}
  ELSE Len(written) > 0 /\ written[Len(written)] = AsUpload(definition)

PinnedInv(p) == \E i \in DOMAIN written : written[i] = AsUpload(p)

DefinitionInv ==
  /\ DefinitionTypeOK /\ UploadsInv /\ RowIsLast
  /\ \A r \in Editings : EditingInv(r)
  /\ \A p \in pinned : PinnedInv(p)

LEMMA RowTypes == NoDefinition \notin Definition
BY EditingAssumption DEF Definition

LEMMA UploadType == \A d \in Definition : AsUpload(d) \in Upload
BY DEF Definition, Upload, AsUpload

\* The types of the state, spelled out for the provers.
LEMMA DefinitionTypes ==
  ASSUME DefinitionTypeOK
  PROVE  /\ editing \in [Editings -> Edit] /\ written \in Seq(Upload)
         /\ Len(written) \in Nat /\ DOMAIN written = 1 .. Len(written)
         /\ \A i \in DOMAIN written : written[i] \in Upload
<1>1. editing \in [Editings -> Edit]
  BY DEF DefinitionTypeOK, Edit
<1>2. written \in Seq(Upload)
  BY DEF DefinitionTypeOK, Upload
<1> QED BY <1>1, <1>2

LEMMA InitDefinition == DefinitionInit => DefinitionInv
<1> SUFFICES ASSUME DefinitionInit PROVE DefinitionInv
  OBVIOUS
<1>1. /\ definition = NoDefinition /\ written = <<>> /\ overtaken = {} /\ pinned = {}
      /\ editing = [r \in Editings |-> NoEditing]
  BY DEF DefinitionInit
<1>2. NoEditing \in Edit /\ NoEditing.at = "idle" /\ NoEditing.op = "none"
  BY DEF NoEditing, Edit
<1>3. DOMAIN written = {} /\ written \in Seq(Upload)
  BY <1>1
<1>4. DefinitionTypeOK
  BY <1>1, <1>2, <1>3 DEF DefinitionTypeOK, Edit, Upload
<1>5. ASSUME NEW r \in Editings PROVE EditingInv(r)
  <2>1. editing[r].at = "idle" /\ editing[r].op = "none"
    BY <1>1, <1>2
  <2> QED BY <1>3, <2>1 DEF EditingInv
<1>6. UploadsInv /\ RowIsLast
  BY <1>1, <1>3 DEF UploadsInv, RowIsLast
<1> QED BY <1>1, <1>4, <1>5, <1>6 DEF DefinitionInv

\* A step of one request that uploads nothing.
LEMMA QuietEditing ==
  ASSUME DefinitionInv, NEW r \in Editings, UNCHANGED <<written, overtaken>>,
         definition \in Definition, definition' \in Definition,
         AsUpload(definition') = AsUpload(definition),
         ~definition.active => ~definition'.active,
         editing' \in [Editings -> Edit], \A q \in Editings : q # r => editing'[q] = editing[q],
         EditingInv(r)',
         pinned' \subseteq [by : Editings, content : Editings, version : Nat],
         \A p \in pinned' : PinnedInv(p)'
  PROVE  DefinitionInv'
<1>1. DefinitionTypeOK'
  <2>1. DefinitionTypeOK
    BY DEF DefinitionInv
  <2> QED BY <2>1 DEF DefinitionTypeOK, Edit
<1>2. UploadsInv'
  BY DEF DefinitionInv, UploadsInv
<1>3. RowIsLast'
  BY RowTypes DEF DefinitionInv, RowIsLast
<1>4. ASSUME NEW q \in Editings, q # r PROVE EditingInv(q)'
  <2>1. EditingInv(q) /\ editing'[q] = editing[q]
    BY <1>4 DEF DefinitionInv
  <2> QED BY <2>1, RowTypes DEF EditingInv
<1> QED BY <1>1, <1>2, <1>3, <1>4 DEF DefinitionInv

LEMMA ReadsInv ==
  ASSUME DefinitionInv, NEW r \in Editings, NEW op \in {"update", "delete", "start"}, Reads(r, op)
  PROVE  DefinitionInv'
<1> DEFINE e == [at |-> "read", op |-> op, read |-> definition]
<1>1. /\ editing[r].at = "idle" /\ definition # NoDefinition /\ editing' = [editing EXCEPT ![r] = e]
      /\ UNCHANGED <<definition, written, overtaken, pinned>>
  BY DEF Reads
<1>2. DefinitionTypeOK /\ definition \in Definition
  BY <1>1 DEF DefinitionInv, DefinitionTypeOK
<1>3. e \in Edit /\ e.at = "read" /\ e.read = definition
  BY <1>2 DEF Edit
<1> HIDE DEF e
<1>4. editing' \in [Editings -> Edit] /\ editing'[r] = e /\ \A q \in Editings : q # r => editing'[q] = editing[q]
  BY <1>1, <1>2, <1>3, DefinitionTypes
<1>5. EditingInv(r)'
  <2>1. Len(written) \in DOMAIN written /\ written[Len(written)] = AsUpload(definition)
    BY <1>1, <1>2, DefinitionTypes DEF DefinitionInv, RowIsLast
  <2>2. \A i \in DOMAIN written : written[i].content # r
    BY <1>1 DEF DefinitionInv, EditingInv
  <2> QED BY <1>1, <1>2, <1>3, <1>4, <2>1, <2>2 DEF EditingInv
<1>6. \A p \in pinned' : PinnedInv(p)'
  BY <1>1 DEF DefinitionInv, PinnedInv
<1>7. pinned' \subseteq [by : Editings, content : Editings, version : Nat]
  BY <1>1, <1>2 DEF DefinitionTypeOK
<1> QED BY <1>1, <1>2, <1>4, <1>5, <1>6, <1>7, QuietEditing

\* What the request that ends has found, and what it leaves.
LEMMA EndFacts ==
  ASSUME DefinitionInv, NEW r \in Editings, editing[r].at = "read", Ends(r)
  PROVE  /\ definition \in Definition /\ editing[r].read \in Definition
         /\ editing' \in [Editings -> Edit] /\ \A q \in Editings : q # r => editing'[q] = editing[q]
         /\ editing'[r].at = "done" /\ editing'[r].op = editing[r].op
<1>1. EditingInv(r) /\ DefinitionTypeOK
  BY DEF DefinitionInv
<1>2. editing' = [editing EXCEPT ![r].at = "done"] /\ editing \in [Editings -> Edit]
  BY <1>1, DefinitionTypes DEF Ends
<1>3. definition \in Definition
  BY <1>1 DEF EditingInv, DefinitionTypeOK
<1> QED BY <1>1, <1>2, <1>3 DEF EditingInv, Edit

LEMMA DeleteCommitInv == ASSUME DefinitionInv, NEW r \in Editings, DeleteCommit(r) PROVE DefinitionInv'
<1>1. /\ editing[r].at = "read" /\ editing[r].op = "delete" /\ Ends(r)
      /\ definition' = [definition EXCEPT !.active = FALSE]
      /\ UNCHANGED <<written, overtaken, pinned>>
  BY DEF DeleteCommit, Holds
<1>2. definition \in Definition
  BY <1>1, EndFacts
<1>3. definition' \in Definition /\ ~definition'.active /\ AsUpload(definition') = AsUpload(definition)
  BY <1>1, <1>2 DEF Definition, AsUpload
<1>4. EditingInv(r)'
  BY <1>1, <1>3, EndFacts, RowTypes DEF EditingInv
<1>5. \A p \in pinned' : PinnedInv(p)'
  BY <1>1 DEF DefinitionInv, PinnedInv
<1>6. pinned' \subseteq [by : Editings, content : Editings, version : Nat]
  BY <1>1 DEF DefinitionInv, DefinitionTypeOK
<1> QED BY <1>1, <1>2, <1>3, <1>4, <1>5, <1>6, EndFacts, QuietEditing

LEMMA StartCommitInv == ASSUME DefinitionInv, NEW r \in Editings, StartCommit(r) PROVE DefinitionInv'
<1> DEFINE p == [by |-> r, content |-> editing[r].read.content, version |-> editing[r].read.version]
<1>1. /\ editing[r].at = "read" /\ editing[r].op = "start" /\ Ends(r)
      /\ pinned' = pinned \cup {p} /\ UNCHANGED <<definition, written, overtaken>>
  BY DEF StartCommit, Holds
<1>2. editing[r].read \in Definition /\ definition \in Definition
  BY <1>1, EndFacts
<1>3. p \in [by : Editings, content : Editings, version : Nat] /\ AsUpload(p) = AsUpload(editing[r].read)
  BY <1>2 DEF Definition, AsUpload
<1> HIDE DEF p
<1>4. EditingInv(r)'
  BY <1>1, <1>2, EndFacts, RowTypes DEF EditingInv
<1>5. ASSUME NEW q \in pinned' PROVE PinnedInv(q)'
  <2>1. CASE q \in pinned
    BY <1>1, <2>1 DEF DefinitionInv, PinnedInv
  <2>2. CASE q = p
    BY <1>1, <1>3, <2>2 DEF DefinitionInv, EditingInv, PinnedInv
  <2> QED BY <1>1, <2>1, <2>2
<1>6. pinned' \subseteq [by : Editings, content : Editings, version : Nat]
  BY <1>1, <1>3 DEF DefinitionInv, DefinitionTypeOK
<1> QED BY <1>1, <1>2, <1>4, <1>5, <1>6, EndFacts, QuietEditing

LEMMA EditingFailsInv == ASSUME DefinitionInv, NEW r \in Editings, EditingFails(r) PROVE DefinitionInv'
<1>1. /\ editing[r].at = "read" /\ UNCHANGED <<definition, written, overtaken, pinned>>
      /\ editing' = [editing EXCEPT ![r] = [@ EXCEPT !.at = "done", !.op = "none"]]
  BY DEF EditingFails
<1>2. DefinitionTypeOK /\ EditingInv(r)
  BY DEF DefinitionInv
<1>3. definition \in Definition
  BY <1>1, <1>2 DEF EditingInv, DefinitionTypeOK
<1>4. /\ editing' \in [Editings -> Edit] /\ \A q \in Editings : q # r => editing'[q] = editing[q]
      /\ editing'[r].at = "done" /\ editing'[r].op = "none"
  BY <1>1, <1>2, DefinitionTypes DEF Edit
<1>5. EditingInv(r)'
  BY <1>4 DEF EditingInv
<1>6. \A p \in pinned' : PinnedInv(p)'
  BY <1>1 DEF DefinitionInv, PinnedInv
<1>7. pinned' \subseteq [by : Editings, content : Editings, version : Nat]
  BY <1>1, <1>2 DEF DefinitionTypeOK
<1> QED BY <1>1, <1>3, <1>4, <1>5, <1>6, <1>7, QuietEditing

LEMMA CreateInv == ASSUME DefinitionInv, NEW r \in Editings, CreateDefinition(r) PROVE DefinitionInv'
<1> DEFINE w == [content |-> r, version |-> 1]
<1>1. PICK type \in {"bpmn", "dmn"} :
        definition' = [type |-> type, content |-> r, version |-> 1, active |-> TRUE]
  BY DEF CreateDefinition
<1>2. /\ editing[r].at = "idle" /\ definition = NoDefinition /\ written' = <<w>>
      /\ editing' = [editing EXCEPT ![r].at = "done"] /\ UNCHANGED <<overtaken, pinned>>
  BY DEF CreateDefinition, Ends
<1>3. DefinitionTypeOK /\ pinned = {}
  BY <1>2 DEF DefinitionInv, RowIsLast
<1>4. definition' \in Definition /\ AsUpload(definition') = w /\ w \in Upload /\ w.content = r
  BY <1>1 DEF Definition, AsUpload, Upload
<1> HIDE DEF w
<1>5. written' \in Seq(Upload) /\ DOMAIN written' = {1} /\ Len(written') = 1 /\ written'[1] = w
  BY <1>2, <1>4
<1>6. editing' \in [Editings -> Edit] /\ editing'[r].at = "done" /\ editing'[r].op = editing[r].op
      /\ \A q \in Editings : q # r => editing'[q] = editing[q]
  BY <1>2, <1>3, DefinitionTypes DEF Edit
<1>7. DefinitionTypeOK'
  BY <1>2, <1>3, <1>4, <1>5, <1>6 DEF DefinitionTypeOK, Edit, Upload
<1>8. UploadsInv'
  BY <1>5 DEF UploadsInv
<1>9. RowIsLast'
  BY <1>4, <1>5, RowTypes DEF RowIsLast
<1>10. ASSUME NEW q \in Editings PROVE EditingInv(q)'
  <2>1. EditingInv(q) /\ EditingInv(r)
    BY DEF DefinitionInv
  <2> QED BY <1>2, <1>4, <1>5, <1>6, <2>1, RowTypes DEF EditingInv
<1> QED BY <1>2, <1>3, <1>7, <1>8, <1>9, <1>10 DEF DefinitionInv

\* A version that is not above all before it belongs to an update that read a
\* row which others changed, or comes after one.
LEMMA UpdateCommitInv == ASSUME DefinitionInv, NEW r \in Editings, UpdateCommit(r) PROVE DefinitionInv'
<1> DEFINE v == editing[r].read.version + 1
           w == [content |-> r, version |-> v]
           n == Len(written)
<1>1. /\ editing[r].at = "read" /\ editing[r].op = "update" /\ Ends(r)
      /\ definition' = [definition EXCEPT !.content = r, !.version = v]
      /\ written' = Append(written, w)
      /\ overtaken' = IF editing[r].read.content # definition.content THEN overtaken \cup {r} ELSE overtaken
      /\ pinned' = pinned
  BY DEF UpdateCommit, Holds
<1>2. DefinitionTypeOK /\ EditingInv(r) /\ UploadsInv /\ RowIsLast
  BY DEF DefinitionInv
<1>3. editing[r].read \in Definition /\ definition \in Definition
  BY <1>1, EndFacts
<1>4. v \in Nat /\ editing[r].read.version \in Nat /\ v = editing[r].read.version + 1
  BY <1>3 DEF Definition
<1>5. w \in Upload /\ w.content = r /\ w.version = v
  BY <1>4 DEF Upload
<1>6. /\ definition' \in Definition /\ AsUpload(definition') = w /\ definition'.active = definition.active
  BY <1>1, <1>3, <1>4 DEF Definition, AsUpload
<1>7. n \in Nat /\ n > 0 /\ DOMAIN written = 1 .. n /\ written[n] = AsUpload(definition) /\ written \in Seq(Upload)
  BY <1>2, <1>3, RowTypes, DefinitionTypes DEF RowIsLast
<1> HIDE DEF v, w, n
<1>8. PICK m : m = n + 1
  OBVIOUS
<1>9. /\ written' \in Seq(Upload) /\ Len(written') = m /\ DOMAIN written' = 1 .. m
      /\ written'[m] = w /\ \A i \in 1 .. n : written'[i] = written[i]
  BY <1>1, <1>5, <1>7, <1>8, AppendProperties DEF n
<1>10. /\ editing' \in [Editings -> Edit] /\ \A q \in Editings : q # r => editing'[q] = editing[q]
       /\ editing'[r].at = "done" /\ editing'[r].op = "update"
  BY <1>1, EndFacts
<1>11. m \in Nat /\ m > n /\ 1 .. m = 1 .. n \cup {m} /\ m \notin 1 .. n /\ n \in 1 .. n
  BY <1>7, <1>8
<1>12. \A i \in 1 .. n : written[i].content # r /\ written[i] \in Upload
  BY <1>1, <1>2, <1>7, DefinitionTypes DEF EditingInv
<1>13. DefinitionTypeOK'
  BY <1>1, <1>2, <1>6, <1>9, <1>10 DEF DefinitionTypeOK, Edit, Upload
<1>14. RowIsLast'
  BY <1>6, <1>7, <1>9, <1>11, RowTypes DEF RowIsLast
<1>15. overtaken \subseteq overtaken'
  BY <1>1
<1>16. ASSUME NEW i \in 1 .. m, NEW j \in 1 .. m, written'[i].content = written'[j].content PROVE i = j
  BY <1>2, <1>5, <1>7, <1>9, <1>11, <1>12, <1>16 DEF UploadsInv
<1>17. ASSUME NEW i \in 1 .. m, NEW j \in 1 .. m, i < j, written'[j].version <= written'[i].version
       PROVE  \E k \in i + 1 .. j : written'[k].content \in overtaken'
  <2>0. i \in 1 .. n
    BY <1>7, <1>8, <1>11, <1>17
  <2>1. CASE j \in 1 .. n
    <3>1. PICK k \in i + 1 .. j : written[k].content \in overtaken
      BY <1>2, <1>7, <1>9, <1>17, <2>0, <2>1 DEF UploadsInv
    <3>2. k \in 1 .. n
      BY <1>7, <2>0, <2>1
    <3> QED BY <1>9, <1>15, <3>1, <3>2
  <2>2. CASE j = m /\ editing[r].read.content # definition.content
    <3>1. m \in i + 1 .. j
      BY <1>7, <1>11, <2>0, <2>2
    <3> QED BY <1>1, <1>5, <1>9, <2>2, <3>1
  <2>3. CASE j = m /\ editing[r].read.content = definition.content
    <3>1. PICK k \in 1 .. n : written[k] = AsUpload(editing[r].read)
      BY <1>1, <1>2, <1>7 DEF EditingInv
    <3>2. k = n
      BY <1>2, <1>7, <1>11, <2>3, <3>1 DEF UploadsInv, AsUpload
    <3>3. written[n].version = editing[r].read.version
      BY <3>1, <3>2 DEF AsUpload
    <3>4. written[i].version \in Nat /\ written'[i] = written[i] /\ v <= written[i].version
      BY <1>5, <1>9, <1>12, <1>17, <2>0, <2>3 DEF Upload
    <3>5. written[n].version < written[i].version /\ written[n].version <= written[i].version
      BY <1>4, <3>3, <3>4
    <3>6. i # n /\ i < n
      <4>1. i # n
        BY <1>4, <3>3, <3>5
      <4> QED BY <1>7, <2>0, <4>1
    <3>7. PICK l \in i + 1 .. n : written[l].content \in overtaken
      BY <1>2, <1>7, <1>11, <2>0, <3>5, <3>6 DEF UploadsInv
    <3>8. l \in 1 .. n /\ l \in i + 1 .. m
      BY <1>7, <1>11, <2>0
    <3> QED BY <1>9, <1>15, <2>3, <3>7, <3>8
  <2> QED BY <1>11, <2>1, <2>2, <2>3
<1>18. UploadsInv'
  BY <1>9, <1>16, <1>17 DEF UploadsInv
<1>19. ASSUME NEW q \in Editings PROVE EditingInv(q)'
  <2>1. CASE q = r
    BY <1>10, <2>1 DEF EditingInv
  <2>2. CASE q # r
    <3>1. EditingInv(q) /\ editing'[q] = editing[q]
      BY <1>10, <2>2 DEF DefinitionInv
    <3>2. \A i \in 1 .. m : written'[i].content = q => i \in 1 .. n /\ written[i].content = q
      BY <1>5, <1>9, <1>11, <2>2
    <3>3. \A i \in 1 .. n : i \in 1 .. m /\ written'[i] = written[i]
      BY <1>9, <1>11
    <3> QED BY <1>3, <1>6, <1>7, <1>9, <3>1, <3>2, <3>3, RowTypes DEF EditingInv
  <2> QED BY <2>1, <2>2
<1>20. ASSUME NEW p \in pinned' PROVE PinnedInv(p)'
  <2>1. PICK i \in 1 .. n : written[i] = AsUpload(p)
    BY <1>1, <1>7 DEF DefinitionInv, PinnedInv
  <2> QED BY <1>9, <1>11, <2>1 DEF PinnedInv
<1> QED BY <1>13, <1>14, <1>18, <1>19, <1>20 DEF DefinitionInv

LEMMA DefinitionStepInv == DefinitionInv /\ [DefinitionNext]_definitionVars => DefinitionInv'
<1> SUFFICES ASSUME DefinitionInv, [DefinitionNext]_definitionVars PROVE DefinitionInv'
  OBVIOUS
<1>1. ASSUME NEW r \in Editings, DefinitionStep(r) PROVE DefinitionInv'
  <2>1. CASE UpdateRead(r) \/ DeleteRead(r) \/ StartRead(r)
    BY <2>1, ReadsInv DEF UpdateRead, DeleteRead, StartRead
  <2> QED BY <1>1, <2>1, CreateInv, UpdateCommitInv, DeleteCommitInv, StartCommitInv, EditingFailsInv
          DEF DefinitionStep
<1>2. CASE UNCHANGED definitionVars
  <2>1. UNCHANGED <<definition, editing, written, overtaken, pinned>>
    BY <1>2 DEF definitionVars
  <2> QED BY <2>1 DEF DefinitionInv, DefinitionTypeOK, UploadsInv, RowIsLast, EditingInv, PinnedInv
<1> QED BY <1>1, <1>2 DEF DefinitionNext

LEMMA InvNamesContents == DefinitionInv => VersionsNameContents
BY DEF DefinitionInv, UploadsInv, RowIsLast, EditingInv, PinnedInv, AsUpload, VersionsNameContents

\* The definition, its history and its instances stay well formed.
THEOREM DefinitionTypesHold == DefinitionSpec => []DefinitionTypeOK
<1>1. DefinitionInv => DefinitionTypeOK
  BY DEF DefinitionInv
<1> QED BY <1>1, InitDefinition, DefinitionStepInv, PTL DEF DefinitionSpec

\* For any number of uploads, updates and starts that cross: an instance names
\* the version its content was uploaded as, a version names one content unless
\* an update had read a row that others changed, and what is retired stays so.
\* (definitions.py:131-167, instances.py:84-107)
THEOREM VersionsAreNames == DefinitionSpec => []VersionsNameContents
BY InitDefinition, DefinitionStepInv, InvNamesContents, PTL DEF DefinitionSpec

-----------------------------------------------------------------------------
(* The tick.                                                               *)

Found(i) == <<i, Home[i]>> \in sent
Excused(i) ==
  \E k \in DOMAIN visits :
    \/ visits[k].tenant = Home[i] /\ visits[k].how = "publication"
    \/ /\ visits[k].how = "statement"
       /\ \A j \in DOMAIN visits : j < k => visits[j].tenant # Home[i]

\* An instance that has no message yet is still to come.
SteadyInv(i) ==
  \/ Found(i) \/ Excused(i)
  \/ /\ tick.at # "resting"
     /\ \/ Home[i] \in tick.todo
        \/ tick.at = "select" /\ Home[i] = Slug
        \/ tick.at = "publish" /\ i \in tick.found

\* Nobody is visited twice, and a transaction is aborted by a statement.
VisitsInv ==
  /\ \A j, k \in DOMAIN visits : visits[j].tenant = visits[k].tenant => j = k
  /\ tick.at # "resting" => \A k \in DOMAIN visits : visits[k].tenant \notin tick.todo
  /\ tick.tx = "aborted" => \E k \in DOMAIN visits : visits[k].how = "statement"
  /\ tick.at \in {"select", "publish"} =>
       /\ Len(visits) > 0 /\ visits[Len(visits)].how = "ok"
       /\ tick.path = {Slug}
  /\ tick.at = "publish" => \A i \in tick.found : Home[i] = Slug

TickInv ==
  /\ TickTypeOK /\ VisitsInv
  /\ \A m \in sent : m[2] = Home[m[1]]
  /\ \A i \in steady : SteadyInv(i)

How == {"ok", "statement", "publication", "vain"}
Visited == [tenant : TickTenants, how : How]
Tick == [at : {"resting", "next", "select", "publish"}, todo : SUBSET TickTenants,
         path : SUBSET TickTenants, found : SUBSET TickInstances, tx : {"ok", "aborted"}]

\* The types of the state, spelled out for the provers.
LEMMA TickTypes ==
  ASSUME TickTypeOK
  PROVE  /\ tick \in Tick /\ visits \in Seq(Visited)
         /\ Len(visits) \in Nat /\ DOMAIN visits = 1 .. Len(visits)
         /\ \A k \in DOMAIN visits : visits[k] \in Visited
         /\ \A i \in TickInstances : Home[i] \in TickTenants
         /\ steady \subseteq running /\ running \subseteq TickInstances
<1>1. tick \in Tick
  BY DEF TickTypeOK, Tick
<1>2. visits \in Seq(Visited)
  BY DEF TickTypeOK, Visited, How
<1>3. \A i \in TickInstances : Home[i] \in TickTenants
  BY TickAssumption
<1>4. steady \subseteq running /\ running \subseteq TickInstances
  BY DEF TickTypeOK
<1> QED BY <1>1, <1>2, <1>3, <1>4

LEMMA RestingType ==
  /\ Resting \in Tick /\ Resting.at = "resting" /\ Resting.tx = "ok"
  /\ \A T \in SUBSET TickTenants :
       LET t == [Resting EXCEPT !.at = "next", !.todo = T]
       IN t \in Tick /\ t.at = "next" /\ t.todo = T /\ t.tx = "ok"
BY DEF Resting, Tick

LEMMA InitTick == TickInit => TickInv
<1> SUFFICES ASSUME TickInit PROVE TickInv
  OBVIOUS
<1>1. listed = {} /\ running = {} /\ steady = {} /\ tick = Resting /\ sent = {} /\ visits = <<>>
  BY DEF TickInit
<1>2. DOMAIN visits = {} /\ visits \in Seq(Visited)
  BY <1>1
<1>3. TickTypeOK
  BY <1>1, <1>2, RestingType DEF TickTypeOK, Tick, Visited, How
<1>4. VisitsInv
  BY <1>1, <1>2, RestingType DEF VisitsInv
<1> QED BY <1>1, <1>3, <1>4 DEF TickInv

-----------------------------------------------------------------------------
\* Beside the tick.
LEMMA BesideInv == ASSUME TickInv, ListTenant \/ StatusChanges PROVE TickInv'
<1>1. UNCHANGED <<tick, sent, visits>> /\ steady' \subseteq steady
  BY DEF ListTenant, StatusChanges
<1>2. TickTypeOK'
  <2>1. TickTypeOK
    BY DEF TickInv
  <2>2. listed' \subseteq TickTenants /\ running' \subseteq TickInstances /\ steady' \subseteq running'
    BY <2>1 DEF ListTenant, StatusChanges, TickTypeOK
  <2> QED BY <1>1, <2>1, <2>2 DEF TickTypeOK
<1>3. VisitsInv'
  BY <1>1 DEF TickInv, VisitsInv, Slug
<1>4. \A m \in sent' : m[2] = Home[m[1]]
  BY <1>1 DEF TickInv
<1>5. \A i \in steady' : SteadyInv(i)'
  BY <1>1 DEF TickInv, SteadyInv, Found, Excused, Slug
<1> QED BY <1>2, <1>3, <1>4, <1>5 DEF TickInv

LEMMA TickBeginsInv == ASSUME TickInv, TickBegins PROVE TickInv'
<1>1. /\ tick' = [Resting EXCEPT !.at = "next", !.todo = listed] /\ UNCHANGED <<listed, running>>
      /\ steady' = {i \in running : Home[i] \in listed} /\ sent' = {} /\ visits' = <<>>
  BY DEF TickBegins
<1>2. TickTypeOK
  BY DEF TickInv
<1>3. tick' \in Tick /\ tick'.at = "next" /\ tick'.todo = listed /\ tick'.tx = "ok"
  BY <1>1, <1>2, RestingType DEF TickTypeOK
<1>4. DOMAIN visits' = {} /\ visits' \in Seq(Visited)
  BY <1>1
<1>5. TickTypeOK'
  BY <1>1, <1>2, <1>3, <1>4 DEF TickTypeOK, Tick, Visited, How
<1>6. VisitsInv'
  BY <1>3, <1>4 DEF VisitsInv
<1>7. \A i \in steady' : SteadyInv(i)'
  BY <1>1, <1>3 DEF SteadyInv
<1>8. \A m \in sent' : m[2] = Home[m[1]]
  BY <1>1
<1> QED BY <1>5, <1>6, <1>7, <1>8 DEF TickInv

\* The next tenant is visited for the first time.
LEMMA VisitInv ==
  ASSUME TickInv, tick.at = "next", NEW t \in tick.todo, NEW how \in {"ok", "vain"}, Visit(t, how)
  PROVE  /\ visits' \in Seq(Visited)
         /\ Len(visits') > 0 /\ visits'[Len(visits')] = [tenant |-> t, how |-> how]
         /\ \A j, k \in DOMAIN visits' : visits'[j].tenant = visits'[k].tenant => j = k
         /\ \A k \in DOMAIN visits' : visits'[k].tenant \notin tick.todo \ {t}
         /\ \A k \in DOMAIN visits : k \in DOMAIN visits' /\ visits'[k] = visits[k]
         /\ \A i : Excused(i) => Excused(i)'
         /\ \A i : how = "vain" /\ tick.tx = "aborted" /\ Home[i] = t => Excused(i)'
<1> DEFINE v == [tenant |-> t, how |-> how]
<1>1. TickTypeOK /\ VisitsInv
  BY DEF TickInv
<1>2. v \in Visited /\ v.tenant = t /\ v.how = how
  BY <1>1, TickTypes DEF Visited, How, Tick
<1>3. visits' = Append(visits, v)
  BY DEF Visit
<1> HIDE DEF v
<1>4. PICK m : m = Len(visits) + 1
  OBVIOUS
<1>5. /\ visits' \in Seq(Visited) /\ Len(visits') = m /\ m > 0 /\ visits'[m] = v
      /\ DOMAIN visits' = DOMAIN visits \cup {m}
      /\ \A k \in DOMAIN visits : visits'[k] = visits[k] /\ k < m
      /\ DOMAIN visits \subseteq Nat /\ m \in Nat /\ m \notin DOMAIN visits
  <2>1. visits \in Seq(Visited) /\ Len(visits) \in Nat /\ DOMAIN visits = 1 .. Len(visits)
    BY <1>1, TickTypes
  <2>2. m \in Nat /\ m > 0 /\ 1 .. m = 1 .. Len(visits) \cup {m} /\ m \notin 1 .. Len(visits)
    BY <1>4, <2>1
  <2>3. \A k \in 1 .. Len(visits) : k \in Nat /\ k < m
    BY <1>4, <2>1
  <2>4. /\ visits' \in Seq(Visited) /\ Len(visits') = m /\ visits'[m] = v
        /\ \A k \in 1 .. Len(visits) : visits'[k] = visits[k]
    BY <1>2, <1>3, <1>4, <2>1, AppendProperties
  <2>5. DOMAIN visits' = 1 .. m
    BY <2>4
  <2> QED BY <2>1, <2>2, <2>3, <2>4, <2>5
<1>6. \A k \in DOMAIN visits : visits[k].tenant \notin tick.todo
  BY <1>1 DEF VisitsInv
<1>7. \A j, k \in DOMAIN visits' : visits'[j].tenant = visits'[k].tenant => j = k
  BY <1>1, <1>2, <1>5, <1>6 DEF VisitsInv
<1>8. \A k \in DOMAIN visits' : visits'[k].tenant \notin tick.todo \ {t}
  BY <1>2, <1>5, <1>6
<1>9. ASSUME NEW i, Excused(i) PROVE Excused(i)'
  <2>1. PICK k \in DOMAIN visits :
          \/ visits[k].tenant = Home[i] /\ visits[k].how = "publication"
          \/ /\ visits[k].how = "statement"
             /\ \A j \in DOMAIN visits : j < k => visits[j].tenant # Home[i]
    BY <1>9 DEF Excused
  <2>2. \A j \in DOMAIN visits' : j < k => j \in DOMAIN visits
    <3>1. k \in Nat /\ k < m /\ m \in Nat
      BY <1>5
    <3> QED BY <1>5, <3>1
  <2> QED BY <1>5, <2>1, <2>2 DEF Excused
<1>10. ASSUME NEW i, tick.tx = "aborted", Home[i] = t PROVE Excused(i)'
  <2>1. PICK k \in DOMAIN visits : visits[k].how = "statement"
    BY <1>1, <1>10 DEF VisitsInv
  <2>2. \A j \in DOMAIN visits' : j < k => j \in DOMAIN visits
    <3>1. k \in Nat /\ k < m /\ m \in Nat
      BY <1>5
    <3> QED BY <1>5, <3>1
  <2>3. \A j \in DOMAIN visits : visits[j].tenant # Home[i]
    BY <1>6, <1>10
  <2> QED BY <1>5, <2>1, <2>2, <2>3 DEF Excused
<1> QED BY <1>5, <1>7, <1>8, <1>9, <1>10 DEF v

LEMMA SetPathInv == ASSUME TickInv, SetPath \/ SetPathInVain PROVE TickInv'
<1>1. PICK t \in tick.todo, how \in {"ok", "vain"} :
        /\ Visit(t, how) /\ (how = "vain" => tick.tx = "aborted")
        /\ how = "ok" => tick.tx = "ok"
        /\ tick' = IF how = "ok" THEN [tick EXCEPT !.at = "select", !.path = {t}, !.todo = @ \ {t}]
                   ELSE [tick EXCEPT !.todo = @ \ {t}]
  BY DEF SetPath, SetPathInVain
<1>2. tick.at = "next" /\ UNCHANGED <<listed, running, steady, sent>>
  BY DEF SetPath, SetPathInVain
<1>3. TickTypeOK /\ VisitsInv
  BY DEF TickInv
<1>4. /\ tick' \in Tick /\ tick'.tx = tick.tx /\ tick'.todo = tick.todo \ {t} /\ t \in TickTenants
      /\ how = "ok" => tick'.at = "select" /\ tick'.path = {t}
      /\ how = "vain" => tick'.at = "next"
  BY <1>1, <1>2, <1>3, TickTypes DEF Tick
<1>5. /\ visits' \in Seq(Visited)
      /\ Len(visits') > 0 /\ visits'[Len(visits')] = [tenant |-> t, how |-> how]
      /\ \A j, k \in DOMAIN visits' : visits'[j].tenant = visits'[k].tenant => j = k
      /\ \A k \in DOMAIN visits' : visits'[k].tenant \notin tick.todo \ {t}
      /\ \A k \in DOMAIN visits : k \in DOMAIN visits' /\ visits'[k] = visits[k]
      /\ \A i : Excused(i) => Excused(i)'
      /\ \A i : how = "vain" /\ tick.tx = "aborted" /\ Home[i] = t => Excused(i)'
  BY <1>1, <1>2, VisitInv
<1>6. TickTypeOK'
  BY <1>2, <1>3, <1>4, <1>5 DEF TickTypeOK, Tick, Visited, How
<1>7. Slug' = t
  <2>1. [tenant |-> t, how |-> how].tenant = t
    OBVIOUS
  <2> QED BY <1>5, <2>1 DEF Slug
<1>8. VisitsInv'
  <2>1. ASSUME tick'.tx = "aborted" PROVE \E k \in DOMAIN visits' : visits'[k].how = "statement"
    <3>1. PICK k \in DOMAIN visits : visits[k].how = "statement"
      BY <1>3, <1>4, <2>1 DEF VisitsInv
    <3> QED BY <1>5, <3>1
  <2>2. ASSUME tick'.at \in {"select", "publish"}
        PROVE  how = "ok" /\ tick'.at = "select" /\ visits'[Len(visits')].how = "ok" /\ tick'.path = {Slug'}
    <3>1. how = "ok" /\ [tenant |-> t, how |-> how].how = how
      BY <1>4, <2>2
    <3> QED BY <1>4, <1>5, <1>7, <3>1
  <2> QED BY <1>4, <1>5, <2>1, <2>2 DEF VisitsInv
<1>9. ASSUME NEW i \in steady' PROVE SteadyInv(i)'
  <2>1. SteadyInv(i)
    BY <1>2, <1>9 DEF TickInv
  <2>2. CASE Found(i)
    BY <1>2, <2>2 DEF SteadyInv, Found
  <2>3. CASE Excused(i)
    BY <1>5, <2>3 DEF SteadyInv
  <2>4. CASE Home[i] \in tick.todo /\ Home[i] # t
    <3>1. Home[i] \in tick'.todo /\ tick'.at # "resting"
      BY <1>4, <2>4
    <3> QED BY <3>1 DEF SteadyInv
  <2>5. CASE Home[i] = t /\ how = "ok"
    <3>1. tick'.at = "select" /\ Home[i] = Slug'
      BY <1>4, <1>7, <2>5
    <3> QED BY <3>1 DEF SteadyInv
  <2>6. CASE Home[i] = t /\ how = "vain"
    BY <1>1, <1>5, <2>6 DEF SteadyInv
  <2> QED BY <1>1, <1>2, <2>1, <2>2, <2>3, <2>4, <2>5, <2>6 DEF SteadyInv
<1>10. \A m \in sent' : m[2] = Home[m[1]]
  BY <1>2 DEF TickInv
<1> QED BY <1>6, <1>8, <1>9, <1>10 DEF TickInv

LEMMA SelectInv == ASSUME TickInv, SelectRunning PROVE TickInv'
<1>1. /\ tick.at = "select" /\ UNCHANGED <<listed, running, steady, sent, visits>>
      /\ tick' = [tick EXCEPT !.at = "publish", !.found = {i \in running : Home[i] \in tick.path}]
  BY DEF SelectRunning
<1>2. TickTypeOK /\ VisitsInv
  BY DEF TickInv
<1>3. /\ tick' \in Tick /\ tick'.at = "publish" /\ tick'.todo = tick.todo /\ tick'.path = tick.path
      /\ tick'.tx = tick.tx /\ tick'.found = {i \in running : Home[i] \in tick.path}
  BY <1>1, <1>2, TickTypes DEF Tick
<1>4. Slug' = Slug /\ tick.path = {Slug}
  BY <1>1, <1>2 DEF Slug, VisitsInv
<1>5. TickTypeOK'
  BY <1>1, <1>2, <1>3 DEF TickTypeOK, Tick
<1>6. VisitsInv'
  BY <1>1, <1>2, <1>3, <1>4 DEF VisitsInv
<1>7. ASSUME NEW i \in steady' PROVE SteadyInv(i)'
  <2>1. SteadyInv(i) /\ i \in running
    BY <1>1, <1>2, <1>7 DEF TickInv, TickTypeOK
  <2>2. (Found(i) => Found(i)') /\ (Excused(i) => Excused(i)')
    BY <1>1 DEF Found, Excused
  <2> QED BY <1>1, <1>3, <1>4, <2>1, <2>2 DEF SteadyInv
<1>8. \A m \in sent' : m[2] = Home[m[1]]
  BY <1>1 DEF TickInv
<1> QED BY <1>5, <1>6, <1>7, <1>8 DEF TickInv

LEMMA PublishInv == ASSUME TickInv, Publish PROVE TickInv'
<1>1. PICK i \in tick.found : sent' = sent \cup {<<i, Slug>>} /\ tick' = [tick EXCEPT !.found = @ \ {i}]
  BY DEF Publish
<1>2. tick.at = "publish" /\ UNCHANGED <<listed, running, steady, visits>>
  BY DEF Publish
<1>3. TickTypeOK /\ VisitsInv
  BY DEF TickInv
<1>4. /\ tick' \in Tick /\ tick'.at = "publish" /\ tick'.todo = tick.todo /\ tick'.path = tick.path
      /\ tick'.tx = tick.tx /\ tick'.found = tick.found \ {i} /\ i \in TickInstances
  BY <1>1, <1>2, <1>3, TickTypes DEF Tick
<1>5. Slug' = Slug /\ Slug = Home[i] /\ Home[i] \in TickTenants
  BY <1>2, <1>3, <1>4, TickTypes DEF Slug, VisitsInv
<1>6. TickTypeOK'
  BY <1>1, <1>2, <1>3, <1>4, <1>5 DEF TickTypeOK, Tick
<1>7. VisitsInv'
  BY <1>2, <1>3, <1>4, <1>5 DEF VisitsInv
<1>8. ASSUME NEW j \in steady' PROVE SteadyInv(j)'
  <2>1. SteadyInv(j)
    BY <1>2, <1>8 DEF TickInv
  <2>2. (Found(j) => Found(j)') /\ (Excused(j) => Excused(j)') /\ Found(i)'
    BY <1>1, <1>2, <1>5 DEF Found, Excused
  <2> QED BY <1>2, <1>4, <1>5, <2>1, <2>2 DEF SteadyInv
<1>9. \A m \in sent' : m[2] = Home[m[1]]
  BY <1>1, <1>5 DEF TickInv
<1> QED BY <1>6, <1>7, <1>8, <1>9 DEF TickInv

\* The last visit ends badly, and excuses the instances of its tenant.
LEMMA EndsAsInv ==
  ASSUME TickInv, tick.at \in {"select", "publish"}, NEW how \in {"statement", "publication"}, EndsAs(how)
  PROVE  /\ visits' \in Seq(Visited)
         /\ DOMAIN visits' = DOMAIN visits
         /\ \A k \in DOMAIN visits : visits'[k].tenant = visits[k].tenant
         /\ \A i : Excused(i) => Excused(i)'
         /\ \A i : Home[i] = Slug => Excused(i)'
         /\ how = "statement" \/ (\E k \in DOMAIN visits : visits[k].how = "statement")
              => \E k \in DOMAIN visits' : visits'[k].how = "statement"
<1>1. TickTypeOK /\ VisitsInv
  BY DEF TickInv
<1>2. PICK m : m = Len(visits)
  OBVIOUS
<1>3. /\ m \in DOMAIN visits /\ visits[m].how = "ok" /\ visits[m].tenant = Slug /\ visits \in Seq(Visited)
      /\ DOMAIN visits = 1 .. m /\ m \in Nat
  BY <1>1, <1>2, TickTypes DEF VisitsInv, Slug
<1>4. visits' = [visits EXCEPT ![m].how = how]
  BY <1>2 DEF EndsAs
<1> DEFINE e == [visits[m] EXCEPT !.how = how]
<1>5. e \in Visited /\ e.tenant = Slug /\ e.how = how
  <2>1. visits[m] \in Visited
    BY <1>1, <1>3, TickTypes
  <2> QED BY <1>3, <2>1 DEF Visited, How
<1>6. visits' = [visits EXCEPT ![m] = e]
  BY <1>4
<1> HIDE DEF e
<1>7. /\ visits' \in Seq(Visited) /\ DOMAIN visits' = DOMAIN visits /\ visits'[m] = e
      /\ \A k \in DOMAIN visits : k # m => visits'[k] = visits[k]
  <2>1. visits' \in Seq(Visited)
    BY <1>2, <1>3, <1>5, <1>6, ExceptSeq
  <2> QED BY <1>3, <1>6, <2>1
<1>8. \A k \in DOMAIN visits : visits'[k].tenant = visits[k].tenant
  BY <1>3, <1>5, <1>7
<1>9. ASSUME NEW i, Excused(i) PROVE Excused(i)'
  <2>1. PICK k \in DOMAIN visits :
          \/ visits[k].tenant = Home[i] /\ visits[k].how = "publication"
          \/ /\ visits[k].how = "statement"
             /\ \A j \in DOMAIN visits : j < k => visits[j].tenant # Home[i]
    BY <1>9 DEF Excused
  <2>2. k # m
    BY <1>3, <2>1
  <2> QED BY <1>7, <1>8, <2>1, <2>2 DEF Excused
<1>10. ASSUME NEW i, Home[i] = Slug PROVE Excused(i)'
  <2>1. \A j \in DOMAIN visits : j < m => visits[j].tenant # Home[i]
    BY <1>1, <1>3, <1>10 DEF VisitsInv
  <2> QED BY <1>3, <1>5, <1>7, <1>8, <1>10, <2>1 DEF Excused
<1>11. how = "statement" \/ (\E k \in DOMAIN visits : visits[k].how = "statement")
         => \E k \in DOMAIN visits' : visits'[k].how = "statement"
  BY <1>3, <1>5, <1>7
<1> QED BY <1>7, <1>8, <1>9, <1>10, <1>11

LEMMA HiccupInv == ASSUME TickInv, PublishFails \/ StatementFails PROVE TickInv'
<1>1. PICK how \in {"statement", "publication"} :
        /\ EndsAs(how)
        /\ \/ tick.at = "publish" /\ how = "publication" /\ tick' = [tick EXCEPT !.at = "next", !.found = {}]
           \/ tick.at = "select" /\ how = "statement" /\ tick' = [tick EXCEPT !.at = "next", !.tx = "aborted"]
  BY DEF PublishFails, StatementFails
<1>2. UNCHANGED <<listed, running, steady, sent>>
  BY DEF PublishFails, StatementFails
<1>3. TickTypeOK /\ VisitsInv /\ tick.at \in {"select", "publish"}
  BY <1>1 DEF TickInv
<1>4. /\ tick' \in Tick /\ tick'.at = "next" /\ tick'.todo = tick.todo
      /\ tick'.tx = "aborted" => how = "statement" \/ tick.tx = "aborted"
  BY <1>1, <1>3, TickTypes DEF Tick
<1>5. /\ visits' \in Seq(Visited) /\ DOMAIN visits' = DOMAIN visits
      /\ \A k \in DOMAIN visits : visits'[k].tenant = visits[k].tenant
      /\ \A i : Excused(i) => Excused(i)'
      /\ \A i : Home[i] = Slug => Excused(i)'
      /\ how = "statement" \/ (\E k \in DOMAIN visits : visits[k].how = "statement")
           => \E k \in DOMAIN visits' : visits'[k].how = "statement"
  BY <1>1, <1>3, EndsAsInv
<1>6. TickTypeOK'
  BY <1>2, <1>3, <1>4, <1>5 DEF TickTypeOK, Tick, Visited, How
<1>7. VisitsInv'
  BY <1>3, <1>4, <1>5 DEF VisitsInv
<1>8. ASSUME NEW i \in steady' PROVE SteadyInv(i)'
  <2>1. SteadyInv(i)
    BY <1>2, <1>8 DEF TickInv
  <2>2. tick.at = "publish" /\ i \in tick.found => Home[i] = Slug
    BY <1>3 DEF VisitsInv
  <2>3. Found(i) => Found(i)'
    BY <1>2 DEF Found
  <2> QED BY <1>4, <1>5, <2>1, <2>2, <2>3 DEF SteadyInv
<1>9. \A m \in sent' : m[2] = Home[m[1]]
  BY <1>2 DEF TickInv
<1> QED BY <1>6, <1>7, <1>8, <1>9 DEF TickInv

LEMMA TenantIsThroughInv == ASSUME TickInv, TenantIsThrough PROVE TickInv'
<1>1. /\ tick.at = "publish" /\ tick.found = {} /\ tick' = [tick EXCEPT !.at = "next"]
      /\ UNCHANGED <<listed, running, steady, sent, visits>>
  BY DEF TenantIsThrough
<1>2. TickTypeOK /\ VisitsInv
  BY DEF TickInv
<1>3. tick' \in Tick /\ tick'.at = "next" /\ tick'.todo = tick.todo /\ tick'.tx = tick.tx
  BY <1>1, <1>2, TickTypes DEF Tick
<1>4. TickTypeOK'
  BY <1>1, <1>2, <1>3 DEF TickTypeOK, Tick
<1>5. VisitsInv'
  BY <1>1, <1>2, <1>3 DEF VisitsInv
<1>6. ASSUME NEW i \in steady' PROVE SteadyInv(i)'
  <2>1. SteadyInv(i) /\ (Found(i) => Found(i)') /\ (Excused(i) => Excused(i)')
    BY <1>1, <1>6 DEF TickInv, Found, Excused
  <2> QED BY <1>1, <1>3, <2>1 DEF SteadyInv
<1>7. \A m \in sent' : m[2] = Home[m[1]]
  BY <1>1 DEF TickInv
<1> QED BY <1>4, <1>5, <1>6, <1>7 DEF TickInv

LEMMA TickEndsInv == ASSUME TickInv, TickEnds PROVE TickInv'
<1>1. /\ tick.at = "next" /\ tick.todo = {} /\ tick' = Resting
      /\ UNCHANGED <<listed, running, steady, sent, visits>>
  BY DEF TickEnds
<1>2. TickTypeOK /\ VisitsInv
  BY DEF TickInv
<1>3. TickTypeOK'
  BY <1>1, <1>2, RestingType DEF TickTypeOK, Tick
<1>4. VisitsInv'
  BY <1>1, <1>2, RestingType DEF VisitsInv
<1>5. ASSUME NEW i \in steady' PROVE SteadyInv(i)'
  <2>1. SteadyInv(i) /\ (Found(i) => Found(i)') /\ (Excused(i) => Excused(i)')
    BY <1>1, <1>5 DEF TickInv, Found, Excused
  <2> QED BY <1>1, <2>1 DEF SteadyInv
<1>6. \A m \in sent' : m[2] = Home[m[1]]
  BY <1>1 DEF TickInv
<1> QED BY <1>3, <1>4, <1>5, <1>6 DEF TickInv

LEMMA TickStepInv == TickInv /\ [TickNext]_tickVars => TickInv'
<1> SUFFICES ASSUME TickInv, [TickNext]_tickVars PROVE TickInv'
  OBVIOUS
<1>1. CASE TickNext
  BY <1>1, BesideInv, TickBeginsInv, SetPathInv, SelectInv, PublishInv, HiccupInv, TenantIsThroughInv,
     TickEndsInv DEF TickNext
<1>2. CASE UNCHANGED tickVars
  <2>1. UNCHANGED <<listed, running, steady, tick, sent, visits>>
    BY <1>2 DEF tickVars
  <2> QED BY <2>1 DEF TickInv, TickTypeOK, VisitsInv, SteadyInv, Found, Excused, Slug
<1> QED BY <1>1, <1>2

LEMMA InvFindsInstances == TickInv => TickFindsInstances
<1> SUFFICES ASSUME TickInv PROVE TickFindsInstances
  OBVIOUS
<1>1. TickTypeOK /\ \A m \in sent : m[2] = Home[m[1]]
  BY DEF TickInv
<1>2. ASSUME tick.at = "resting", NEW i \in steady, ~ (<<i, Home[i]>> \in sent)
      PROVE  \E k \in DOMAIN visits :
               \/ visits[k] = [tenant |-> Home[i], how |-> "publication"]
               \/ /\ visits[k].how = "statement"
                  /\ \A j \in 1 .. k - 1 : visits[j].tenant # Home[i]
  <2>1. PICK k \in DOMAIN visits :
          \/ visits[k].tenant = Home[i] /\ visits[k].how = "publication"
          \/ /\ visits[k].how = "statement"
             /\ \A j \in DOMAIN visits : j < k => visits[j].tenant # Home[i]
    BY <1>2 DEF TickInv, SteadyInv, Found, Excused
  <2>2. visits[k] \in Visited /\ k \in 1 .. Len(visits) /\ Len(visits) \in Nat
    BY <1>1, TickTypes
  <2>3. visits[k] = [tenant |-> visits[k].tenant, how |-> visits[k].how]
    BY <2>2 DEF Visited
  <2>4. \A j \in 1 .. k - 1 : j \in DOMAIN visits /\ j < k
    BY <1>1, <2>2, TickTypes
  <2> QED BY <2>1, <2>3, <2>4
<1> QED BY <1>1, <1>2 DEF TickFindsInstances

\* The tick and its messages stay well formed.
THEOREM TickTypesHold == TickSpec => []TickTypeOK
<1>1. TickInv => TickTypeOK
  BY DEF TickInv
<1> QED BY <1>1, InitTick, TickStepInv, PTL DEF TickSpec

\* For any number of tenants, instances and failures: a message names the
\* tenant of its instance, and a tick leaves out an instance that was running
\* all the time only for a publication of its own tenant that failed, or a
\* statement of its own or of an earlier one.  (worker/tasks.py:242-254)
THEOREM TicksFindInstances == TickSpec => []TickFindsInstances
BY InitTick, TickStepInv, InvFindsInstances, PTL DEF TickSpec

-----------------------------------------------------------------------------
(* The parts in one specification.                                         *)

\* Together the parts do nothing that one of them alone could not do, so that
\* what is proved of each holds of all.  (worker/tasks.py, instances.py,
\* definitions.py)
THEOREM ServiceImplements == ServiceSpec => Spec /\ DefinitionSpec /\ TickSpec
<1>1. ServiceInit => Init /\ DefinitionInit /\ TickInit
  BY DEF ServiceInit
<1>2. [ServiceNext]_serviceVars
        => [Next]_vars /\ [DefinitionNext]_definitionVars /\ [TickNext]_tickVars
  BY DEF ServiceNext, serviceVars
<1> QED BY <1>1, <1>2, PTL DEF ServiceSpec, Spec, DefinitionSpec, TickSpec

\* Every part is well typed.
THEOREM ServiceTypes == ServiceSpec => []ServiceTypeOK
BY ServiceImplements, WorkflowTypes, DefinitionTypesHold, TickTypesHold, PTL DEF ServiceTypeOK
=============================================================================
