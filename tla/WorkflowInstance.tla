--------------------------- MODULE WorkflowInstance ---------------------------
(***************************************************************************)
(* One workflow instance of workflow-service: the row of                   *)
(* workflow_instances and its rows of task_instances, the API handlers     *)
(* that read and then write them, the Celery queue "workflow", the workers *)
(* that run execute_workflow_step and complete_task, and the beat process  *)
(* that runs tick_timer_events.                                            *)
(*                                                                         *)
(* The BPMN engine is a process graph: the engine state (state_json) is    *)
(* the set of nodes the engine has completed.  A handler or a worker that  *)
(* reads a row and writes it in a later statement is two actions, because  *)
(* the transactions run under READ COMMITTED and no SELECT takes a lock.   *)
(***************************************************************************)
EXTENDS Naturals

CONSTANTS
  Automatic,        \* nodes the engine runs by itself (start, scripts, gateways)
  Human,       \* user tasks
  Timer,       \* timer events
  Deps,        \* Deps[n]: the nodes that must be completed before n starts
  Workers,     \* Celery worker processes of the queue "workflow"
  Clients,     \* API requests that may be in progress at the same time
  Users,
  Candidates,  \* Candidates[h]: the users who hold a candidate role of h
  MaxRetries,  \* max_retries of the two Celery tasks
  MaxQueued,   \* bound: equal messages in the queue when one more is published
  MaxFaults,   \* bound: exceptions, crashes and dropped calls in a behaviour
  NoTask, NoJob, NoRequest, NoUser

Node == Automatic \cup Human \cup Timer

ASSUME NodeAssumption ==
  /\ Automatic # {}
  /\ Automatic \cap Human = {} /\ Human \cap Timer = {} /\ Timer \cap Automatic = {}
  /\ Deps \in [Node -> SUBSET Node]
  /\ \A h \in Human : Deps[h] # {}   \* the start event comes first
ASSUME BoundAssumption ==
  MaxRetries \in Nat /\ MaxQueued \in Nat /\ MaxFaults \in Nat
ASSUME SentinelAssumption ==
  NoTask \notin Human /\ NoUser \notin Users /\ Candidates \in [Human -> SUBSET Users]

Job == [kind : {"step"}, task : {NoTask}, tries : 0..MaxRetries]
         \cup [kind : {"complete"}, task : Human, tries : 0..MaxRetries]
Request == [op : {"start", "cancel"}] \cup [op : {"claim"}, task : Human, user : Users]

ASSUME NoJobAssumption == NoJob \notin Job /\ NoRequest \notin Request

VARIABLES
  status,      \* workflow_instances.status, "none" before the row exists
  done,        \* workflow_instances.state_json: the completed nodes
  taskStatus,  \* taskStatus[h]: task_instances.status, "none" without a row
  assignee,    \* task_instances.assigned_to
  queue,       \* queue[j]: the copies of message j in the Celery queue
  worker,      \* worker[w]: the job w runs and the engine state it read
  api,         \* api[c]: the request in progress, after its read
  due,         \* the timers whose time has come
  faults

vars == <<status, done, taskStatus, assignee, queue, worker, api, due, faults>>

InstanceStatus == {"none", "running", "waiting", "completed", "cancelled"}
TaskStatus == {"none", "ready", "claimed", "completed"}
Final == {"completed", "cancelled"}

TypeOK ==
  /\ status \in InstanceStatus
  /\ done \in SUBSET Node
  /\ taskStatus \in [Human -> TaskStatus]
  /\ assignee \in [Human -> Users \cup {NoUser}]
  /\ queue \in [Job -> Nat]
  /\ worker \in [Workers -> [job : Job \cup {NoJob}, seen : SUBSET Node]]
  /\ api \in [Clients -> Request \cup {NoRequest}]
  /\ due \in SUBSET Timer
  /\ faults \in 0..MaxFaults

-----------------------------------------------------------------------------
(* The engine.                                                             *)

Enabled(n, d) == n \notin d /\ Deps[n] \subseteq d

\* No node the engine can run by itself is left to run.
Settled(d, fired) ==
  \A n \in Automatic \cup (Timer \cap fired) : Deps[n] \subseteq d => n \in d

\* do_engine_steps: the least settled state that extends d.
Advance(d, fired) ==
  {n \in Node : \A s \in SUBSET Node : d \subseteq s /\ Settled(s, fired) => n \in s}

ReadyTasks(d) == {h \in Human : Enabled(h, d)}

IsCompleted(d) == d = Node

\* Faulty variant: emptiness of the ready list is tested first.
NewStatusWaitingFirst(d) ==
  IF ReadyTasks(d) = {} THEN "waiting" ELSE IF IsCompleted(d) THEN "completed" ELSE "running"

NewStatus(d) ==
  CASE IsCompleted(d)                          -> "completed"
    [] ~IsCompleted(d) /\ ReadyTasks(d) = {}   -> "waiting"
    [] ~IsCompleted(d) /\ ReadyTasks(d) # {}   -> "running"

\* Faulty variant: a row is written with the engine's name of the task state.
SyncTaskInstancesEngineState(rows, ready) ==
  [h \in Human |-> IF h \in ready /\ rows[h] = "none" THEN "READY" ELSE rows[h]]

\* INSERT ... ON CONFLICT DO NOTHING for every ready task.
SyncTaskInstances(rows, ready) ==
  [h \in Human |-> IF h \in ready /\ rows[h] = "none" THEN "ready" ELSE rows[h]]

-----------------------------------------------------------------------------
(* The queue.                                                              *)

StepJob == [kind |-> "step", task |-> NoTask, tries |-> 0]
CompleteJob(h) == [kind |-> "complete", task |-> h, tries |-> 0]

\* The bound on what producers leave in the queue, retries counted.
Room(j) == \A i \in Job : i.task = j.task => queue[i] < MaxQueued

Put(j) == [queue EXCEPT ![j] = @ + 1]

\* self.retry: the message is published again until max_retries is reached.
Retry(j) ==
  IF j.tries < MaxRetries THEN Put([j EXCEPT !.tries = @ + 1]) ELSE queue

Release(w) == [worker EXCEPT ![w] = [job |-> NoJob, seen |-> {}]]

-----------------------------------------------------------------------------
Init ==
  /\ status = "none"
  /\ done = {}
  /\ taskStatus = [h \in Human |-> "none"]
  /\ assignee = [h \in Human |-> NoUser]
  /\ queue = [j \in Job |-> 0]
  /\ worker = [w \in Workers |-> [job |-> NoJob, seen |-> {}]]
  /\ api = [c \in Clients |-> NoRequest]
  /\ due = {}
  /\ faults = 0

(* API handlers.                                                           *)

\* POST /workflow/instances, up to its commit.
StartInstance(c) ==
  /\ api[c] = NoRequest
  /\ status = "none"
  /\ status' = "running"
  /\ done' = {}
  /\ api' = [api EXCEPT ![c] = [op |-> "start"]]
  /\ UNCHANGED <<taskStatus, assignee, queue, worker, due, faults>>

\* ... and apply_async after it.
EnqueueFirstStep(c) ==
  /\ api[c] # NoRequest /\ api[c].op = "start"
  /\ queue' = Put(StepJob)
  /\ api' = [api EXCEPT ![c] = NoRequest]
  /\ UNCHANGED <<status, done, taskStatus, assignee, worker, due, faults>>

\* The API process dies, or the broker refuses the call: the request ends
\* without its second half.
AbortRequest(c) ==
  /\ api[c] # NoRequest
  /\ faults < MaxFaults
  /\ faults' = faults + 1
  /\ api' = [api EXCEPT ![c] = NoRequest]
  /\ UNCHANGED <<status, done, taskStatus, assignee, queue, worker, due>>

CancelRead(c) ==
  /\ api[c] = NoRequest
  /\ status # "none" /\ status \notin Final
  /\ api' = [api EXCEPT ![c] = [op |-> "cancel"]]
  /\ UNCHANGED <<status, done, taskStatus, assignee, queue, worker, due, faults>>

CancelCommit(c) ==
  /\ api[c] # NoRequest /\ api[c].op = "cancel"
  /\ status' = "cancelled"
  /\ api' = [api EXCEPT ![c] = NoRequest]
  /\ UNCHANGED <<done, taskStatus, assignee, queue, worker, due, faults>>

HasTaskAccess(h, u) == assignee[h] = u \/ u \in Candidates[h]

ClaimRead(c, h, u) ==
  /\ api[c] = NoRequest
  /\ taskStatus[h] = "ready"
  /\ HasTaskAccess(h, u)
  /\ api' = [api EXCEPT ![c] = [op |-> "claim", task |-> h, user |-> u]]
  /\ UNCHANGED <<status, done, taskStatus, assignee, queue, worker, due, faults>>

\* Faulty variant: the release of a claim is written instead of the claim.
ClaimCommitAsReady(c) ==
  /\ api[c] # NoRequest /\ api[c].op = "claim"
  /\ taskStatus' = [taskStatus EXCEPT ![api[c].task] = "ready"]
  /\ assignee' = [assignee EXCEPT ![api[c].task] = api[c].user]
  /\ api' = [api EXCEPT ![c] = NoRequest]
  /\ UNCHANGED <<status, done, queue, worker, due, faults>>

ClaimCommit(c) ==
  /\ api[c] # NoRequest /\ api[c].op = "claim"
  /\ taskStatus' = [taskStatus EXCEPT ![api[c].task] = "claimed"]
  /\ assignee' = [assignee EXCEPT ![api[c].task] = api[c].user]
  /\ api' = [api EXCEPT ![c] = NoRequest]
  /\ UNCHANGED <<status, done, queue, worker, due, faults>>

\* POST /workflow/tasks/{id}/complete: the handler reads the row and only
\* publishes a message; the row changes when a worker has run it.
CompletePost(h, u) ==
  /\ taskStatus[h] \in {"ready", "claimed"}
  /\ HasTaskAccess(h, u)
  /\ Room(CompleteJob(h))
  /\ queue' = Put(CompleteJob(h))
  /\ UNCHANGED <<status, done, taskStatus, assignee, worker, api, due, faults>>

-----------------------------------------------------------------------------
(* Workers.                                                                *)

Idle(w) == worker[w].job = NoJob
Runs(w, kind) == worker[w].job # NoJob /\ worker[w].job.kind = kind

\* A worker takes a message (it is acknowledged at once), opens a transaction
\* and reads the instance.  execute_workflow_step stops at a final status.
TakeStep(w, j) ==
  /\ Idle(w)
  /\ j.kind = "step" /\ queue[j] > 0
  /\ queue' = [queue EXCEPT ![j] = @ - 1]
  /\ worker' = IF status \in Final
               THEN worker
               ELSE [worker EXCEPT ![w] = [job |-> j, seen |-> done]]
  /\ UNCHANGED <<status, done, taskStatus, assignee, api, due, faults>>

\* complete_task reads state_json only; it does not look at the status.
TakeComplete(w, j) ==
  /\ Idle(w)
  /\ j.kind = "complete" /\ queue[j] > 0
  /\ queue' = [queue EXCEPT ![j] = @ - 1]
  /\ worker' = [worker EXCEPT ![w] = [job |-> j, seen |-> done]]
  /\ UNCHANGED <<status, done, taskStatus, assignee, api, due, faults>>

\* Faulty variant: the step starts from the definition, not the checkpoint.
CommitStepFromScratch(w) ==
  /\ Runs(w, "step")
  /\ LET d == Advance({}, due) IN
       /\ done' = d
       /\ status' = NewStatus(d)
       /\ taskStatus' = SyncTaskInstances(taskStatus, ReadyTasks(d))
  /\ worker' = Release(w)
  /\ UNCHANGED <<assignee, queue, api, due, faults>>

\* The rest of execute_workflow_step: engine steps on the state it read, then
\* the instance row and the new task rows in one transaction.
CommitStep(w) ==
  /\ Runs(w, "step")
  /\ LET d == Advance(worker[w].seen, due) IN
       /\ done' = d
       /\ status' = NewStatus(d)
       /\ taskStatus' = SyncTaskInstances(taskStatus, ReadyTasks(d))
  /\ worker' = Release(w)
  /\ UNCHANGED <<assignee, queue, api, due, faults>>

\* Faulty variants of CommitComplete: the task rows are left alone, the row of
\* a task is completed without running the engine, and a task is completed
\* that is not READY.
CommitCompleteNoSync(w) ==
  /\ Runs(w, "complete")
  /\ worker[w].job.task \in ReadyTasks(worker[w].seen)
  /\ LET h == worker[w].job.task
         d == Advance(worker[w].seen \cup {h}, due) IN
       /\ done' = d
       /\ status' = NewStatus(d)
       /\ taskStatus' = [taskStatus EXCEPT ![h] = "completed"]
  /\ worker' = Release(w)
  /\ UNCHANGED <<assignee, queue, api, due, faults>>

CommitCompleteRowOnly(w) ==
  /\ Runs(w, "complete")
  /\ worker[w].job.task \in ReadyTasks(worker[w].seen)
  /\ taskStatus' = [taskStatus EXCEPT ![worker[w].job.task] = "completed"]
  /\ worker' = Release(w)
  /\ UNCHANGED <<status, done, assignee, queue, api, due, faults>>

CommitCompleteUnready(w) ==
  /\ Runs(w, "complete")
  /\ LET h == worker[w].job.task
         d == Advance(worker[w].seen \cup {h}, due) IN
       /\ done' = d
       /\ status' = NewStatus(d)
       /\ taskStatus' = SyncTaskInstances([taskStatus EXCEPT ![h] = "completed"], ReadyTasks(d))
  /\ worker' = Release(w)
  /\ UNCHANGED <<assignee, queue, api, due, faults>>

\* The rest of complete_task when the engine finds the task READY.
CommitComplete(w) ==
  /\ Runs(w, "complete")
  /\ worker[w].job.task \in ReadyTasks(worker[w].seen)
  /\ LET h == worker[w].job.task
         d == Advance(worker[w].seen \cup {h}, due) IN
       /\ done' = d
       /\ status' = NewStatus(d)
       /\ taskStatus' = SyncTaskInstances([taskStatus EXCEPT ![h] = "completed"], ReadyTasks(d))
  /\ worker' = Release(w)
  /\ UNCHANGED <<assignee, queue, api, due, faults>>

\* ... and when it does not: ValueError, rollback, retry.
RejectComplete(w) ==
  /\ Runs(w, "complete")
  /\ worker[w].job.task \notin ReadyTasks(worker[w].seen)
  /\ queue' = Retry(worker[w].job)
  /\ worker' = Release(w)
  /\ UNCHANGED <<status, done, taskStatus, assignee, api, due, faults>>

\* Any other exception in either task (database, engine): rollback, retry.
FailJob(w) ==
  /\ ~Idle(w)
  /\ faults < MaxFaults
  /\ faults' = faults + 1
  /\ queue' = Retry(worker[w].job)
  /\ worker' = Release(w)
  /\ UNCHANGED <<status, done, taskStatus, assignee, api, due>>

\* The worker process dies: rollback, and the message is gone.
CrashWorker(w) ==
  /\ ~Idle(w)
  /\ faults < MaxFaults
  /\ faults' = faults + 1
  /\ worker' = Release(w)
  /\ UNCHANGED <<status, done, taskStatus, assignee, queue, api, due>>

(* Beat and time.                                                          *)

TickTimerEvents ==
  /\ status = "running"
  /\ Room(StepJob)
  /\ queue' = Put(StepJob)
  /\ UNCHANGED <<status, done, taskStatus, assignee, worker, api, due, faults>>

\* The time of a timer the engine waits for comes.
TimerExpires(t) ==
  /\ t \notin due /\ Enabled(t, done)
  /\ due' = due \cup {t}
  /\ UNCHANGED <<status, done, taskStatus, assignee, queue, worker, api, faults>>

-----------------------------------------------------------------------------
ApiNext ==
  \/ \E c \in Clients :
       \/ StartInstance(c) \/ EnqueueFirstStep(c) \/ AbortRequest(c)
       \/ CancelRead(c) \/ CancelCommit(c) \/ ClaimCommit(c)
       \/ \E h \in Human, u \in Users : ClaimRead(c, h, u)
  \/ \E h \in Human, u \in Users : CompletePost(h, u)

Take(w) == \E j \in Job : TakeStep(w, j) \/ TakeComplete(w, j)

WorkerNext(w) ==
  \/ Take(w)
  \/ CommitStep(w) \/ CommitComplete(w) \/ RejectComplete(w)
  \/ FailJob(w) \/ CrashWorker(w)

Next ==
  \/ ApiNext
  \/ \E w \in Workers : WorkerNext(w)
  \/ TickTimerEvents
  \/ \E t \in Timer : TimerExpires(t)

Spec == Init /\ [][Next]_vars

\* Workers keep consuming and finish what they run.
\* A queued message is not passed over for ever: the broker is first-in
\* first-out, which the model's bag only has as strong fairness.  Nothing is
\* assumed of the users, of faults, of a request that has been accepted, or of
\* the tick, which may miss the same tenant every time (WorkflowTick).
FairSpec ==
  /\ Spec
  /\ \A w \in Workers :
       /\ \A j \in Job : SF_vars(TakeStep(w, j)) /\ SF_vars(TakeComplete(w, j))
       /\ WF_vars(CommitStep(w) \/ CommitComplete(w) \/ RejectComplete(w))

\* The most that the beat process could promise: a tick that selects the
\* instance comes again and again.  The code gives less; what fails under this
\* assumption is no fault of a tick that did not come.
TickingSpec == FairSpec /\ WF_vars(TickTimerEvents)

-----------------------------------------------------------------------------
(* Properties.                                                             *)

\* The status column says what the engine state beside it says: "completed"
\* exactly when every node is done (or an administrator has cancelled over
\* it), "waiting" only with no open user task, and "running" only for a fresh
\* instance or one with an open user task.  (worker/tasks.py:126-146, 188-214)
StatusAgreesWithEngine ==
  /\ status = "completed" => IsCompleted(done)
  /\ IsCompleted(done) => status \in Final
  /\ status = "waiting" => ReadyTasks(done) = {}
  /\ status = "running" => done = {} \/ ReadyTasks(done) # {}

\* A user task the stored engine state has READY has a row, whatever the
\* order in which workers commit and fail: the rows are written in the
\* transaction of the state that needs them.  (worker/tasks.py:148-149)
ReadyTaskHasRow == \A h \in ReadyTasks(done) : taskStatus[h] # "none"

\* The stored engine state never runs ahead of the process: a node is done
\* only after the nodes it depends on, also when a stale state is written
\* back.
ProcessOrder == \A n \in done : Deps[n] \subseteq done

\* The inbox never offers as ready a user task that the stored engine state
\* has already completed.
ReadyRowIsOpen == \A h \in Human : taskStatus[h] = "ready" => h \notin done

\* With one worker process: what has been completed stays completed.
EngineNeverRegresses == [][done \subseteq done']_vars

\* With one worker process: a row is completed only with the engine's task,
\* and a ready row is READY in the engine, so completing it works.
RowsAgreeWithEngine ==
  \A h \in Human :
    /\ taskStatus[h] = "completed" => h \in done
    /\ taskStatus[h] = "ready" => h \in ReadyTasks(done)

\* With one worker and no fault: a completion the API has accepted (202) takes
\* effect, also when it was posted twice or competes with a tick.
CompletionTakesEffect ==
  \A h \in Human : (queue[CompleteJob(h)] > 0) ~> (h \in done \/ faults > 0)

(* Statements of the docs that the code does not keep.                     *)

\* worker/tasks.py:15-16: the beat task re-runs engine steps "so that
\* intermediate timer events and boundary events fire".
TimersFire ==
  \A t \in Timer : (t \in due) ~> (t \in done \/ status = "cancelled")

\* worker/tasks.py:69: there is a row in the inbox for every ready task.
ReadyTaskInInbox ==
  \A h \in ReadyTasks(done) : taskStatus[h] \in {"ready", "claimed"}
=============================================================================
