---- MODULE ClusterProofs ----
(***************************************************************************)
(* Theorems about Cluster, for every set of tasks, workers, sessions and   *)
(* slots and every choice of the bounds.                                   *)
(***************************************************************************)
EXTENDS Cluster, TLAPS

-----------------------------------------------------------------------------
(* The operators of Stores return rows and identity maps *)

\* The objects a session may hold.
TaskObjects == [Tasks -> Loaded(TaskRow) \cup {None}]
WorkerObjects == [Workers -> Loaded(WorkerRow) \cup {None}]

\* session.get returns a row, whether from the session or from the table.
LEMMA ObjectType ==
    ASSUME StoresTypeOK, NEW a \in Actors
    PROVE  /\ \A t \in Tasks : TaskObject(a, t) \in TaskRow
           /\ \A w \in Workers : WorkerObject(a, w) \in WorkerRow
BY DEF StoresTypeOK, TaskObject, WorkerObject, Loaded

\* An UPDATE leaves a row.
LEMMA FlushedType ==
    ASSUME StoresTypeOK, NEW a \in Actors
    PROVE  /\ \A t \in Tasks : FlushedTask(a, t) \in TaskRow
           /\ \A w \in Workers : FlushedWorker(a, w) \in WorkerRow
<1>1. ASSUME NEW t \in Tasks PROVE FlushedTask(a, t) \in TaskRow
  <2>1. CASE session_tasks[a][t] = None
    BY <2>1 DEF StoresTypeOK, FlushedTask
  <2>2. CASE session_tasks[a][t] # None
    <3>1. session_tasks[a][t] \in Loaded(TaskRow)
      BY <2>2 DEF StoresTypeOK
    <3> QED
      BY <2>2, <3>1 DEF StoresTypeOK, FlushedTask, Loaded, TaskRow, Column
  <2> QED
    BY <2>1, <2>2
<1>2. ASSUME NEW w \in Workers PROVE FlushedWorker(a, w) \in WorkerRow
  <2>1. CASE session_workers[a][w] = None
    BY <2>1 DEF StoresTypeOK, FlushedWorker
  <2>2. CASE session_workers[a][w] # None
    <3>1. session_workers[a][w] \in Loaded(WorkerRow)
      BY <2>2 DEF StoresTypeOK
    <3> QED
      BY <2>2, <3>1 DEF StoresTypeOK, FlushedWorker, Loaded, WorkerRow, Column
  <2> QED
    BY <2>1, <2>2
<1> QED
  BY <1>1, <1>2

\* Setting a row in a session leaves identity maps.
LEMMA WithTaskType ==
    ASSUME StoresTypeOK, NEW a \in Actors, NEW t \in Tasks, NEW row \in TaskRow
    PROVE  WithTask(a, t, row) \in [Actors -> TaskObjects]
<1>1. [old |-> IF session_tasks[a][t] = None THEN tasks[t] ELSE session_tasks[a][t].old,
       new |-> row] \in Loaded(TaskRow)
  BY DEF StoresTypeOK, Loaded
<1> QED
  BY <1>1 DEF StoresTypeOK, WithTask, TaskObjects

\* Setting a Worker object in a session leaves identity maps.
LEMMA WithWorkerType ==
    ASSUME StoresTypeOK, NEW a \in Actors, NEW w \in Workers, NEW row \in WorkerRow
    PROVE  WithWorker(a, w, row) \in [Actors -> WorkerObjects]
<1>1. [old |-> IF session_workers[a][w] = None THEN workers[w] ELSE session_workers[a][w].old,
       new |-> row] \in Loaded(WorkerRow)
  BY DEF StoresTypeOK, Loaded
<1> QED
  BY <1>1 DEF StoresTypeOK, WithWorker, WorkerObjects

\* The end of a session, committed or rolled back.
LEMMA CommitType ==
    ASSUME StoresTypeOK, NEW a \in Actors, Commit(a), UNCHANGED redis
    PROVE  StoresTypeOK'
<1>1. tasks' \in [Tasks -> TaskRow] /\ workers' \in [Workers -> WorkerRow]
  BY FlushedType DEF Commit
<1> QED
  BY <1>1 DEF StoresTypeOK, Commit, Forget, redis

\* A rolled back session holds nothing and leaves the rows as they are.
LEMMA RollbackType ==
    ASSUME StoresTypeOK, NEW a \in Actors, Rollback(a), UNCHANGED redis
    PROVE  StoresTypeOK'
BY DEF StoresTypeOK, Rollback, Forget, redis, rows

\* RPUSH keeps the lists of the workers lists of tasks.
LEMMA PushType ==
    ASSUME NEW lists \in [Workers -> Seq(Tasks)], NEW t \in Tasks,
           NEW w \in Workers \cup {None}
    PROVE  [lists EXCEPT ![w] = Append(@, t)] \in [Workers -> Seq(Tasks)]
<1>1. CASE w \in Workers
  <2>1. Append(lists[w], t) \in Seq(Tasks)
    BY <1>1
  <2> QED
    BY <1>1, <2>1
<1>2. CASE w \notin Workers
  BY <1>2
<1> QED
  BY <1>1, <1>2

-----------------------------------------------------------------------------
(* Type correctness *)

\* The state after the services start is well typed.
LEMMA InitTypeOK == Init => TypeOK
<1> USE DEF Init, TypeOK
<1>1. StoresInit => StoresTypeOK
  BY DEF StoresInit, StoresTypeOK, TaskRow, WorkerRow, Loaded, TaskState, WorkerStatus
<1>2. ApiInit => ApiTypeOK
  BY DEF ApiInit, ApiTypeOK, Idle, Operation
<1>3. sched = SchedStart => SchedTypeOK
  BY SchedulerAssumption DEF SchedStart, SchedTypeOK, NoPlan, NoCaps, Phase
<1>4. fd = FdIdle => FdTypeOK
  BY DEF FdIdle, FdTypeOK
<1>5. NodeInit => NodeTypeOK
  BY DEF NodeInit, NodeTypeOK, Free, Stage, Coroutine
<1> QED
  BY <1>1, <1>2, <1>3, <1>4, <1>5, FaultsAssumption

\* The handlers of the API keep the types of what they touch.
LEMMA ApiTypes ==
    ASSUME StoresTypeOK, ApiTypeOK, NEW s \in Sessions, NEW t \in Tasks,
           NEW c \in Callers \cup {None},
           \/ create_task(s, t) \/ cancel_task(s, t)
           \/ update_task_state(s, t, "RUNNING", c)
           \/ complete_task(s, t, c) \/ fail_task(s, t, c)
           \/ commit(s) \/ abort(s)
    PROVE  StoresTypeOK' /\ ApiTypeOK'
<1> s \in Actors
  BY DEF Actors
<1>1. tasks[t] \in TaskRow /\ (tasks[t].worker # None => tasks[t].worker \in Workers)
  BY DEF StoresTypeOK, TaskRow
<1>2. \A op \in Operation, d \in Callers \cup {None} : Open(s, op, d) => api' \in
        [Sessions -> [op : Operation \cup {"idle"}, caller : Callers \cup {None}]]
  BY DEF Open, ApiTypeOK
<1>3. Freed(s, t) \in [Actors -> WorkerObjects]
  <2>1. CASE tasks[t].worker = None
    BY <2>1 DEF Freed, StoresTypeOK, WorkerObjects
  <2>2. CASE tasks[t].worker # None
    <3> DEFINE w == tasks[t].worker
               row == [workers[w] EXCEPT !.cpu_available = @ + resource_cpu[t]]
    <3>1. w \in Workers
      BY <1>1, <2>2
    <3>2. row \in WorkerRow
      <4>1. workers[w] \in WorkerRow /\ resource_cpu[t] \in Int
        BY <3>1, ColumnsAssumption DEF StoresTypeOK
      <4> QED
        BY <4>1 DEF WorkerRow
    <3>3. WithWorker(s, w, row) \in [Actors -> WorkerObjects]
      BY <3>1, <3>2, WithWorkerType
    <3> QED
      BY <2>2, <3>3 DEF Freed
  <2> QED
    BY <2>1, <2>2
<1>4. CASE create_task(s, t)
  <2>1. [state |-> "PENDING", worker |-> None, retry |-> 0] \in TaskRow
    BY DEF TaskRow, TaskState
  <2>2. session_tasks' \in [Actors -> TaskObjects]
    BY <1>4, <2>1, WithTaskType DEF create_task
  <2> QED
    BY <1>4, <1>2, <2>2 DEF create_task, StoresTypeOK, ApiTypeOK, TaskObjects, rows, Operation
<1>5. CASE cancel_task(s, t)
  <2>1. [tasks[t] EXCEPT !.state = "CANCELLED", !.worker = None] \in TaskRow
    BY <1>1 DEF TaskRow, TaskState
  <2>2. session_tasks' \in [Actors -> TaskObjects]
    BY <1>5, <2>1, WithTaskType DEF cancel_task
  <2> QED
    BY <1>5, <1>2, <2>2 DEF cancel_task, StoresTypeOK, ApiTypeOK, TaskObjects, rows, Operation
<1>6. CASE update_task_state(s, t, "RUNNING", c)
  <2>1. [tasks[t] EXCEPT !.state = "RUNNING"] \in TaskRow
    BY <1>1 DEF TaskRow, TaskState
  <2>2. session_tasks' \in [Actors -> TaskObjects]
    BY <1>6, <2>1, WithTaskType DEF update_task_state
  <2> QED
    BY <1>6, <1>2, <2>2
    DEF update_task_state, StoresTypeOK, ApiTypeOK, TaskObjects, rows, redis, Operation
<1>7. CASE complete_task(s, t, c)
  <2>1. [tasks[t] EXCEPT !.state = "COMPLETED"] \in TaskRow
    BY <1>1 DEF TaskRow, TaskState
  <2>2. session_tasks' \in [Actors -> TaskObjects]
    BY <1>7, <2>1, WithTaskType DEF complete_task
  <2> QED
    BY <1>7, <1>2, <1>3, <2>2
    DEF complete_task, StoresTypeOK, ApiTypeOK, TaskObjects, WorkerObjects, rows, redis, Operation
<1>8. CASE fail_task(s, t, c)
  <2>1. Requeued(tasks[t]) \in TaskRow /\ [tasks[t] EXCEPT !.state = "FAILED"] \in TaskRow
    BY <1>1 DEF TaskRow, TaskState, Requeued
  <2>2. session_tasks' \in [Actors -> TaskObjects]
    BY <1>8, <2>1, WithTaskType DEF fail_task
  <2>3. queue' \in SUBSET Tasks
    BY <1>8 DEF fail_task, StoresTypeOK
  <2> QED
    BY <1>8, <1>2, <1>3, <2>2, <2>3
    DEF fail_task, StoresTypeOK, ApiTypeOK, TaskObjects, WorkerObjects, rows, Operation
<1>9. CASE commit(s)
  <2>1. StoresTypeOK'
    BY <1>9, CommitType DEF commit
  <2> QED
    BY <1>9, <2>1 DEF commit, ApiTypeOK, Idle
<1>10. CASE abort(s)
  <2>1. StoresTypeOK'
    BY <1>10, RollbackType DEF abort
  <2> QED
    BY <1>10, <2>1 DEF abort, ApiTypeOK, Idle
<1> QED
  BY <1>4, <1>5, <1>6, <1>7, <1>8, <1>9, <1>10

\* So do registration and heartbeat.
LEMMA WorkerApiTypes ==
    ASSUME StoresTypeOK, ApiTypeOK, NEW s \in Sessions, NEW w \in Workers,
           NEW c \in Callers \cup {None}, NEW cpu \in Int,
           register_worker(s, w, c) \/ heartbeat(s, w, cpu)
    PROVE  StoresTypeOK' /\ ApiTypeOK'
<1> s \in Actors
  BY DEF Actors
<1>1. \A op \in Operation, d \in Callers \cup {None} : Open(s, op, d) => api' \in
        [Sessions -> [op : Operation \cup {"idle"}, caller : Callers \cup {None}]]
  BY DEF Open, ApiTypeOK
<1>2. CASE register_worker(s, w, c)
  <2>1. [status |-> "ACTIVE", cpu_available |-> cpu_total[w]] \in WorkerRow
    BY ColumnsAssumption DEF WorkerRow, WorkerStatus
  <2>2. session_workers' \in [Actors -> WorkerObjects]
    BY <1>2, <2>1, WithWorkerType DEF register_worker
  <2> QED
    BY <1>2, <1>1, <2>2
    DEF register_worker, StoresTypeOK, ApiTypeOK, WorkerObjects, rows, redis, Operation
<1>3. CASE heartbeat(s, w, cpu)
  <2>1. [workers[w] EXCEPT !.cpu_available = cpu] \in WorkerRow
    BY DEF StoresTypeOK, WorkerRow
  <2>2. session_workers' \in [Actors -> WorkerObjects]
    BY <1>3, <2>1, WithWorkerType DEF heartbeat
  <2> QED
    BY <1>3, <1>1, <2>2
    DEF heartbeat, StoresTypeOK, ApiTypeOK, WorkerObjects, rows, redis, Operation
<1> QED
  BY <1>2, <1>3

\* The loop's memory after a tick has its type.
LEMMA TickDoneType ==
    ASSUME SchedTypeOK
    PROVE  sched' = TickDone => SchedTypeOK'
<1>1. (sched.ticks + 1) % ReconcileEvery \in 0..(ReconcileEvery - 1)
  BY SchedulerAssumption DEF SchedTypeOK
<1> DEFINE n == (sched.ticks + 1) % ReconcileEvery
           ph == IF n = 0 THEN "reconcile_pending" ELSE "idle"
<1>2. TickDone = [phase |-> ph, ticks |-> n, batch |-> {}, caps |-> NoCaps,
                  plan |-> NoPlan, found |-> {}]
  BY DEF TickDone
<1>3. ph \in Phase /\ ph # "evict"
  BY DEF Phase
<1>4. NoCaps \in [Workers -> Int \cup {None}]
  BY DEF NoCaps
<1> HIDE DEF n, ph
<1> QED
  BY <1>1, <1>2, <1>3, <1>4 DEF SchedTypeOK, NoPlan, n

\* The steps of _reconcile_pending_tasks and _reconcile_scheduled_tasks keep the
\* types.
LEMMA ReconcileTypes ==
    ASSUME StoresTypeOK, SchedTypeOK,
           \/ _reconcile_pending_tasks \/ enqueue_missing
           \/ _reconcile_scheduled_tasks \/ reconciled \/ reconcile_abort
           \/ \E t \in Tasks : repush(t)
    PROVE  StoresTypeOK' /\ SchedTypeOK'
<1> me \in Actors
  BY DEF me, Actors
<1>1. CASE _reconcile_pending_tasks
  BY <1>1 DEF _reconcile_pending_tasks, StoresTypeOK, SchedTypeOK, Phase, rows, sessions, redis
<1>2. CASE enqueue_missing
  BY <1>2 DEF enqueue_missing, StoresTypeOK, SchedTypeOK, Phase, rows, sessions
<1>3. CASE _reconcile_scheduled_tasks
  <2>1. session_tasks' \in [Actors -> TaskObjects]
    BY <1>3 DEF _reconcile_scheduled_tasks, StoresTypeOK, TaskObjects, Loaded
  <2> QED
    BY <1>3, <2>1
    DEF _reconcile_scheduled_tasks, StoresTypeOK, SchedTypeOK, Phase, rows, redis, TaskObjects
<1>4. ASSUME NEW t \in Tasks, repush(t) PROVE StoresTypeOK' /\ SchedTypeOK'
  <2> DEFINE row == TaskObject(me, t)
  <2>1. row \in TaskRow
    BY ObjectType
  <2>2. [row EXCEPT !.state = "PENDING", !.worker = None] \in TaskRow
    BY <2>1 DEF TaskRow, TaskState
  <2>3. session_tasks' \in [Actors -> TaskObjects]
    <3>1. WithTask(me, t, [row EXCEPT !.state = "PENDING", !.worker = None])
            \in [Actors -> TaskObjects]
      BY <2>2, WithTaskType
    <3>2. session_tasks \in [Actors -> TaskObjects]
      BY DEF StoresTypeOK, TaskObjects
    <3> QED
      BY <1>4, <3>1, <3>2 DEF repush
  <2>4. assignments' \in [Workers -> Seq(Tasks)]
    <3>1. row.worker \in Workers \cup {None} /\ assignments \in [Workers -> Seq(Tasks)]
      BY <2>1 DEF TaskRow, StoresTypeOK
    <3>2. [assignments EXCEPT ![row.worker] = Append(@, t)] \in [Workers -> Seq(Tasks)]
      BY <3>1, PushType
    <3>3. \/ assignments' = assignments
          \/ assignments' = [assignments EXCEPT ![row.worker] = Append(@, t)]
      BY <1>4 DEF repush, assign_task
    <3> QED
      BY <3>1, <3>2, <3>3
  <2>5. queue' \in SUBSET Tasks
    BY <1>4 DEF repush, StoresTypeOK
  <2> QED
    BY <1>4, <2>3, <2>4, <2>5 DEF repush, StoresTypeOK, SchedTypeOK, TaskObjects, rows
<1>5. CASE reconciled
  <2>1. StoresTypeOK'
    BY <1>5, RollbackType DEF reconciled
  <2> QED
    BY <1>5, <2>1 DEF reconciled, SchedTypeOK, Phase
<1>6. CASE reconcile_abort
  <2>1. tasks' \in [Tasks -> TaskRow] /\ workers' \in [Workers -> WorkerRow]
    BY <1>6 DEF reconcile_abort, Rollback, rows, StoresTypeOK
  <2>2. /\ session_tasks' \in [Actors -> TaskObjects]
        /\ session_workers' \in [Actors -> WorkerObjects]
    BY <1>6 DEF reconcile_abort, Rollback, Forget, StoresTypeOK, TaskObjects, WorkerObjects
  <2>3. queue' \in SUBSET Tasks
    BY <1>6 DEF reconcile_abort, StoresTypeOK, SchedTypeOK
  <2>4. StoresTypeOK'
    BY <1>6, <2>1, <2>2, <2>3 DEF reconcile_abort, StoresTypeOK, TaskObjects, WorkerObjects
  <2> QED
    BY <1>6, <2>4 DEF reconcile_abort, SchedTypeOK, Phase
<1> QED
  BY <1>1, <1>2, <1>3, <1>4, <1>5, <1>6

\* Placing a task on a worker keeps the types of the stores.
LEMMA PlacedType ==
    ASSUME StoresTypeOK, NEW t \in Tasks, NEW w \in Workers, Placed(t, w)
    PROVE  /\ session_tasks' \in [Actors -> TaskObjects]
           /\ session_workers' \in [Actors -> WorkerObjects]
           /\ assignments' \in [Workers -> Seq(Tasks)]
<1> me \in Actors
  BY DEF me, Actors
<1>1. [TaskObject(me, t) EXCEPT !.state = "SCHEDULED", !.worker = w] \in TaskRow
  BY ObjectType DEF TaskRow, TaskState
<1>2. [WorkerObject(me, w) EXCEPT !.cpu_available = @ - resource_cpu[t]] \in WorkerRow
  <2>1. WorkerObject(me, w) \in WorkerRow
    BY ObjectType
  <2> QED
    BY <2>1, ColumnsAssumption DEF WorkerRow
<1>3. assignments' \in [Workers -> Seq(Tasks)]
  BY PushType DEF Placed, assign_task, StoresTypeOK
<1> QED
  BY <1>1, <1>2, <1>3, WithTaskType, WithWorkerType DEF Placed

\* The steps of _tick and _schedule_batch, placements and evictions included,
\* keep the types.
LEMMA TickTypes ==
    ASSUME StoresTypeOK, SchedTypeOK,
           \/ _tick \/ _schedule_batch \/ place \/ batch_commit \/ batch_abort
           \/ \E t \in Tasks : \/ skip(t) \/ _try_schedule_task(t) \/ preempt(t)
                               \/ no_capacity(t) \/ evict(t)
    PROVE  StoresTypeOK' /\ SchedTypeOK'
<1> me \in Actors
  BY DEF me, Actors
<1>1. CASE _tick
  <2>1. queue' \in SUBSET Tasks
    BY <1>1 DEF _tick, StoresTypeOK
  <2>2. SchedTypeOK'
    <3>1. CASE sched' = TickDone
      BY <3>1, TickDoneType DEF SchedTypeOK
    <3>2. ASSUME NEW B \in Batches(BatchSize),
                 sched' = [sched EXCEPT !.phase = "popped", !.batch = B]
          PROVE  SchedTypeOK'
      BY <3>2 DEF SchedTypeOK, StoresTypeOK, Batches, Phase
    <3> QED
      BY <1>1, <3>1, <3>2 DEF _tick
  <2> QED
    BY <1>1, <2>1, <2>2 DEF _tick, StoresTypeOK, rows, sessions
<1>2. CASE _schedule_batch
  <2>1. _get_available_workers \in [Workers -> Int \cup {None}]
    BY DEF _get_available_workers, StoresTypeOK, WorkerRow
  <2>2. SchedTypeOK'
    BY <1>2, <2>1, TickDoneType DEF _schedule_batch, SchedTypeOK, Phase
  <2> QED
    BY <1>2, <2>2 DEF _schedule_batch, StoresTypeOK, SchedTypeOK, rows, sessions
<1>3. CASE place
  <2>1. sched.plan.task \in Tasks /\ sched.plan.worker \in Workers
    BY <1>3 DEF place, SchedTypeOK
  <2>2. SchedTypeOK'
    BY <1>3 DEF place, SchedTypeOK, NoPlan, Phase
  <2> QED
    BY <1>3, <2>1, <2>2, PlacedType
    DEF place, StoresTypeOK, TaskObjects, WorkerObjects, rows
<1>4. CASE batch_commit
  <2>1. StoresTypeOK'
    BY <1>4, CommitType DEF batch_commit
  <2> QED
    BY <1>4, <2>1, TickDoneType DEF batch_commit, SchedTypeOK
<1>5. CASE batch_abort
  <2>1. StoresTypeOK'
    BY <1>5, RollbackType DEF batch_abort
  <2> QED
    BY <1>5, <2>1, TickDoneType DEF batch_abort, SchedTypeOK
<1>6. ASSUME NEW t \in Tasks, skip(t) PROVE StoresTypeOK' /\ SchedTypeOK'
  BY <1>6 DEF skip, StoresTypeOK, SchedTypeOK, rows, sessions, redis
<1>7. ASSUME NEW t \in Tasks, _try_schedule_task(t) PROVE StoresTypeOK' /\ SchedTypeOK'
  <2>1. PICK w \in spread_schedule(t) :
            /\ Placed(t, w)
            /\ sched' = [sched EXCEPT !.batch = @ \ {t}, !.caps[w] = @ - resource_cpu[t]]
    BY <1>7 DEF _try_schedule_task
  <2>2. w \in Workers /\ sched.caps[w] # None
    BY <2>1 DEF spread_schedule
  <2>3. SchedTypeOK'
    <3>1. sched.caps[w] - resource_cpu[t] \in Int
      BY <2>2, ColumnsAssumption DEF SchedTypeOK
    <3> QED
      BY <2>1, <2>2, <3>1 DEF SchedTypeOK
  <2> QED
    BY <1>7, <2>1, <2>2, <2>3, PlacedType
    DEF _try_schedule_task, StoresTypeOK, TaskObjects, WorkerObjects, rows
<1>8. ASSUME NEW t \in Tasks, preempt(t) PROVE StoresTypeOK' /\ SchedTypeOK'
  <2>1. PICK p \in _find_preemption_candidates(t) :
        /\ sched' = [sched EXCEPT !.phase = "evict", !.plan = p, !.batch = @ \ {t}]
        /\ session_tasks' = [session_tasks EXCEPT ![me] =
            [u \in Tasks |-> IF u \in p.victims \cup {t} /\ @[u] = None
                             THEN [old |-> tasks[u], new |-> tasks[u]] ELSE @[u]]]
        /\ session_workers' = WithWorker(me, p.worker, WorkerObject(me, p.worker))
    BY <1>8 DEF preempt
  <2>2. p \in [task : {t}, worker : Workers, victims : SUBSET Tasks]
    BY <2>1 DEF _find_preemption_candidates
  <2>3. session_tasks' \in [Actors -> TaskObjects]
    BY <2>1 DEF StoresTypeOK, TaskObjects, Loaded
  <2>4. session_workers' \in [Actors -> WorkerObjects]
    BY <2>1, <2>2, ObjectType, WithWorkerType
  <2>5. SchedTypeOK'
    BY <2>1, <2>2 DEF SchedTypeOK, Phase
  <2> QED
    BY <1>8, <2>3, <2>4, <2>5
    DEF preempt, StoresTypeOK, TaskObjects, WorkerObjects, rows, redis
<1>9. ASSUME NEW t \in Tasks, no_capacity(t) PROVE StoresTypeOK' /\ SchedTypeOK'
  BY <1>9 DEF no_capacity, StoresTypeOK, SchedTypeOK, rows, sessions
<1>10. ASSUME NEW t \in Tasks, evict(t) PROVE StoresTypeOK' /\ SchedTypeOK'
  <2> DEFINE w == sched.plan.worker  row == TaskObject(me, t)
  <2>1. w \in Workers
    BY <1>10 DEF evict, SchedTypeOK
  <2>2. row \in TaskRow
    BY ObjectType
  <2>3. Preempted(row, t) \in TaskRow
    BY <2>2 DEF Preempted, Requeued, TaskRow, TaskState
  <2>4. session_tasks' \in [Actors -> TaskObjects]
    BY <1>10, <2>3, WithTaskType DEF evict
  <2>5. [WorkerObject(me, w) EXCEPT !.cpu_available = @ + resource_cpu[t]] \in WorkerRow
    <3>1. WorkerObject(me, w) \in WorkerRow
      BY <2>1, ObjectType
    <3> QED
      BY <3>1, ColumnsAssumption DEF WorkerRow
  <2>6. session_workers' \in [Actors -> WorkerObjects]
    BY <1>10, <2>1, <2>5, WithWorkerType DEF evict
  <2>7. preempts' \in [Workers -> Seq(Tasks)]
    BY <1>10, <2>1, PushType DEF evict, send_preempt_signal, StoresTypeOK
  <2>8. SchedTypeOK'
    BY <1>10 DEF evict, SchedTypeOK
  <2>9. queue' \in SUBSET Tasks
    BY <1>10 DEF evict, StoresTypeOK
  <2> QED
    BY <1>10, <2>4, <2>6, <2>7, <2>8, <2>9
    DEF evict, StoresTypeOK, TaskObjects, WorkerObjects, rows
<1> QED
  BY <1>1, <1>2, <1>3, <1>4, <1>5, <1>6, <1>7, <1>8, <1>9, <1>10

\* A pass of the failure detector keeps the types.
LEMMA DetectTypes ==
    ASSUME StoresTypeOK, FdTypeOK,
           \/ _check_all_workers \/ handled \/ fd_commit \/ fd_abort
           \/ \E w \in Workers : is_alive(w) \/ _handle_dead_worker(w)
           \/ \E t \in Tasks : requeue(t) \/ exhausted(t) \/ raise(t)
    PROVE  StoresTypeOK' /\ FdTypeOK'
<1> detector \in Actors
  BY DEF detector, Actors
<1>0. fd' = FdIdle => FdTypeOK'
  BY DEF FdIdle, FdTypeOK
<1>1. CASE _check_all_workers
  <2>1. session_workers' \in [Actors -> WorkerObjects]
    BY <1>1 DEF _check_all_workers, StoresTypeOK, WorkerObjects, Loaded
  <2>2. FdTypeOK'
    BY <1>1 DEF _check_all_workers, FdTypeOK, FdIdle
  <2> QED
    BY <1>1, <2>1, <2>2 DEF _check_all_workers, StoresTypeOK, WorkerObjects, rows, redis
<1>2. CASE handled
  BY <1>2 DEF handled, StoresTypeOK, FdTypeOK, rows, sessions, redis
<1>3. CASE fd_commit
  BY <1>3, <1>0, CommitType DEF fd_commit
<1>4. CASE fd_abort
  BY <1>4, <1>0, RollbackType DEF fd_abort
<1>5. ASSUME NEW w \in Workers, is_alive(w) PROVE StoresTypeOK' /\ FdTypeOK'
  BY <1>5 DEF is_alive, StoresTypeOK, FdTypeOK, rows, sessions, redis
<1>6. ASSUME NEW w \in Workers, _handle_dead_worker(w) PROVE StoresTypeOK' /\ FdTypeOK'
  <2>1. [WorkerObject(detector, w) EXCEPT !.status = "DEAD"] \in WorkerRow
    BY ObjectType DEF WorkerRow, WorkerStatus
  <2>2. session_workers' \in [Actors -> WorkerObjects]
    BY <1>6, <2>1, WithWorkerType DEF _handle_dead_worker
  <2>3. session_tasks' \in [Actors -> TaskObjects]
    BY <1>6 DEF _handle_dead_worker, StoresTypeOK, TaskObjects, Loaded
  <2>4. Orphans(w) \in SUBSET Tasks
    BY DEF Orphans
  <2>5. FdTypeOK'
    BY <1>6, <2>4 DEF _handle_dead_worker, FdTypeOK
  <2> QED
    BY <1>6, <2>2, <2>3, <2>5
    DEF _handle_dead_worker, StoresTypeOK, TaskObjects, WorkerObjects, rows, redis
<1>7. ASSUME NEW t \in Tasks, requeue(t) \/ exhausted(t) PROVE StoresTypeOK' /\ FdTypeOK'
  <2> DEFINE row == TaskObject(detector, t)
  <2>1. row \in TaskRow
    BY ObjectType
  <2>2. Requeued(row) \in TaskRow /\ [row EXCEPT !.state = "FAILED"] \in TaskRow
    BY <2>1 DEF Requeued, TaskRow, TaskState
  <2>3. session_tasks' \in [Actors -> TaskObjects]
    <3>1. /\ WithTask(detector, t, Requeued(row)) \in [Actors -> TaskObjects]
          /\ WithTask(detector, t, [row EXCEPT !.state = "FAILED"]) \in [Actors -> TaskObjects]
      BY <2>2, WithTaskType
    <3> QED
      BY <1>7, <3>1 DEF requeue, exhausted
  <2>4. FdTypeOK'
    BY <1>7 DEF requeue, exhausted, FdTypeOK
  <2>5. queue' \in SUBSET Tasks /\ UNCHANGED <<rows, session_workers, assignments, preempts, heartbeats>>
    BY <1>7 DEF requeue, exhausted, redis, StoresTypeOK
  <2> QED
    BY <2>3, <2>4, <2>5 DEF StoresTypeOK, TaskObjects, rows
<1>8. ASSUME NEW t \in Tasks, raise(t) PROVE StoresTypeOK' /\ FdTypeOK'
  BY <1>8, <1>0, RollbackType DEF raise
<1> QED
  BY <1>1, <1>2, <1>3, <1>4, <1>5, <1>6, <1>7, <1>8

\* What the steps of a coroutine make of it.
LEMMA CoroutineType ==
    ASSUME NEW e \in Coroutine
    PROVE  /\ \A stage \in Stage : /\ [e EXCEPT !.stage = stage] \in Coroutine
                                   /\ [e EXCEPT !.stage = stage].task = e.task
           /\ [e EXCEPT !.cancel = TRUE] \in Coroutine
           /\ [e EXCEPT !.cancel = TRUE].task = e.task
           /\ [e EXCEPT !.cancel = TRUE].stage = e.stage
           /\ \A stage \in {"report", "fail"} :
                /\ [e EXCEPT !.stage = stage, !.fetched = TRUE] \in Coroutine
                /\ [e EXCEPT !.stage = stage, !.fetched = TRUE].task = e.task
BY DEF Coroutine, Stage

\* One coroutine changes.
LEMMA ExecType ==
    ASSUME NodeTypeOK, NEW w \in Workers, NEW k \in Slots, NEW c \in Coroutine,
           c.stage # "free" => c.task \in Tasks,
           exec' = [exec EXCEPT ![w][k] = c]
    PROVE  /\ exec' \in [Workers -> [Slots -> Coroutine]]
           /\ \A v \in Workers, j \in Slots :
                exec'[v][j].stage # "free" => exec'[v][j].task \in Tasks
<1>1. exec' \in [Workers -> [Slots -> Coroutine]]
  BY DEF NodeTypeOK
<1>2. \A v \in Workers, j \in Slots :
        exec'[v][j] = IF v = w /\ j = k THEN c ELSE exec[v][j]
  BY DEF NodeTypeOK
<1> QED
  BY <1>1, <1>2 DEF NodeTypeOK

\* The steps of a worker process that touch the stores or its own memory.
LEMMA ProcessTypes ==
    ASSUME StoresTypeOK, NodeTypeOK, NEW w \in Workers,
           \/ stop(w) \/ send_heartbeat(w)
           \/ heartbeat_expires(w) \/ _preemption_listener(w)
    PROVE  StoresTypeOK' /\ NodeTypeOK'
<1>2. CASE stop(w)
  <2>1. Free \in Coroutine /\ Free.stage = "free"
    BY DEF Free, Stage, Coroutine
  <2>2. exec' \in [Workers -> [Slots -> Coroutine]]
    BY <1>2, <2>1 DEF stop, NodeTypeOK
  <2>3. \A v \in Workers, j \in Slots :
            exec'[v][j].stage # "free" => exec'[v][j].task \in Tasks
    BY <1>2, <2>1 DEF stop, NodeTypeOK
  <2>4. NodeTypeOK'
    BY <1>2, <2>2, <2>3 DEF stop, NodeTypeOK
  <2> QED
    BY <1>2, <2>4 DEF stop, StoresTypeOK, rows, sessions, redis
<1>3. CASE send_heartbeat(w) \/ heartbeat_expires(w)
  BY <1>3 DEF send_heartbeat, heartbeat_expires, StoresTypeOK, NodeTypeOK, rows, sessions, nodeVars, history
<1>4. CASE _preemption_listener(w)
  <2>1. preempts[w] \in Seq(Tasks) /\ preempts[w] # <<>>
    BY <1>4 DEF _preemption_listener, StoresTypeOK
  <2>2. Tail(preempts[w]) \in Seq(Tasks) /\ Head(preempts[w]) \in Tasks
    BY <2>1
  <2> DEFINE k == running_tasks[w][Head(preempts[w])]
  <2>3. k \in Slots \cup {None}
    BY <2>2 DEF NodeTypeOK
  <2>4. NodeTypeOK'
    <3>1. CASE k = None
      BY <1>4, <3>1 DEF _preemption_listener, NodeTypeOK, history
    <3>2. CASE k # None
      <4>1. k \in Slots
        BY <2>3, <3>2
      <4> DEFINE c == [exec[w][k] EXCEPT !.cancel = TRUE]
      <4>2. exec' = [exec EXCEPT ![w][k] = c]
        BY <1>4, <3>2 DEF _preemption_listener
      <4>3. c \in Coroutine /\ (c.stage # "free" => c.task \in Tasks)
        <5>1. exec[w][k] \in Coroutine
          BY <4>1 DEF NodeTypeOK
        <5>2. exec[w][k].stage # "free" => exec[w][k].task \in Tasks
          BY <4>1 DEF NodeTypeOK
        <5> QED
          BY <5>1, <5>2, CoroutineType
      <4> HIDE DEF c
      <4> QED
        BY <1>4, <4>1, <4>2, <4>3, ExecType DEF _preemption_listener, NodeTypeOK, history
    <3> QED
      BY <3>1, <3>2
  <2> QED
    BY <1>4, <2>2, <2>4 DEF _preemption_listener, StoresTypeOK, rows, sessions
<1> QED
  BY <1>2, <1>3, <1>4

\* A coroutine that has a task moves to another stage.
LEMMA StageType ==
    ASSUME NodeTypeOK, NEW w \in Workers, NEW k \in Slots, NEW stage \in Stage,
           exec[w][k].stage # "free", exec' = [exec EXCEPT ![w][k].stage = stage]
    PROVE  /\ exec' \in [Workers -> [Slots -> Coroutine]]
           /\ \A v \in Workers, j \in Slots :
                exec'[v][j].stage # "free" => exec'[v][j].task \in Tasks
<1> DEFINE c == [exec[w][k] EXCEPT !.stage = stage]
<1>1. c \in Coroutine /\ c.task \in Tasks
  <2>1. exec[w][k] \in Coroutine /\ exec[w][k].task \in Tasks
    BY DEF NodeTypeOK
  <2> QED
    BY <2>1, CoroutineType
<1>2. exec' = [exec EXCEPT ![w][k] = c]
  BY DEF NodeTypeOK
<1> HIDE DEF c
<1> QED
  BY <1>1, <1>2, ExecType

\* The history of overlapping executions stays a set of tasks per worker.
LEMMA OverlapType ==
    ASSUME NodeTypeOK, NEW w \in Workers, NEW k \in Slots, NEW t \in Tasks, Overlap(w, k, t)
    PROVE  overlapped' \in [Workers -> SUBSET Tasks]
BY DEF NodeTypeOK, Overlap

\* The stages of _execute_task.  A coroutine that is not free has a task.
LEMMA ExecutionTypes ==
    ASSUME StoresTypeOK, NodeTypeOK, NEW w \in Workers, NEW k \in Slots,
           \/ poll_assignment(w, k) \/ fetch_task(w, k) \/ fetch_error(w, k)
           \/ finally(w, k) \/ add_active_task_error(w, k) \/ remove_active_task_error(w, k)
           \/ \E next \in {"complete", "fail", "finally"} : run_task(w, k, next)
    PROVE  StoresTypeOK' /\ NodeTypeOK'
<1>1. CASE poll_assignment(w, k)
  <2> DEFINE t == Head(assignments[w])
             c == [Free EXCEPT !.stage = "fetch", !.task = t]
  <2>1. Tail(assignments[w]) \in Seq(Tasks) /\ t \in Tasks
    BY <1>1 DEF poll_assignment, StoresTypeOK
  <2>2. c \in Coroutine /\ c.task \in Tasks
    BY <2>1 DEF Free, Stage, Coroutine
  <2>3. exec' = [exec EXCEPT ![w][k] = c]
    BY <1>1 DEF poll_assignment
  <2>4. running_tasks' \in [Workers -> [Tasks -> Slots \cup {None}]]
    BY <1>1, <2>1 DEF poll_assignment, NodeTypeOK
  <2>5. overlapped' \in [Workers -> SUBSET Tasks]
    BY <1>1, <2>1, OverlapType DEF poll_assignment
  <2> HIDE DEF c
  <2>6. NodeTypeOK'
    BY <1>1, <2>2, <2>3, <2>4, <2>5, ExecType DEF poll_assignment, NodeTypeOK
  <2> QED
    BY <1>1, <2>1, <2>6 DEF poll_assignment, StoresTypeOK, rows, sessions
<1>2. CASE fetch_task(w, k)
  <2> DEFINE t == exec[w][k].task
             c == [exec[w][k] EXCEPT !.stage = "report", !.fetched = TRUE]
  <2>1. t \in Tasks
    BY <1>2 DEF fetch_task, At, NodeTypeOK, history
  <2>2. resource_cpu[t] \in Nat
    BY <2>1, ColumnsAssumption
  <2>3. c \in Coroutine /\ c.task \in Tasks
    <3>1. exec[w][k] \in Coroutine
      BY DEF NodeTypeOK
    <3> QED
      BY <2>1, <3>1, CoroutineType
  <2>4. exec' = [exec EXCEPT ![w][k] = c]
    BY <1>2 DEF fetch_task, NodeTypeOK, Coroutine
  <2>5. /\ reserved' \in [Workers -> Nat]
        /\ active_tasks' \in [Workers -> SUBSET Tasks]
    BY <1>2, <2>1, <2>2 DEF fetch_task, NodeTypeOK, history
  <2> HIDE DEF c
  <2>6. NodeTypeOK'
    <3>1. /\ exec' \in [Workers -> [Slots -> Coroutine]]
          /\ \A v \in Workers, j \in Slots :
                exec'[v][j].stage # "free" => exec'[v][j].task \in Tasks
      BY <2>3, <2>4, ExecType
    <3> QED
      BY <1>2, <2>5, <3>1 DEF fetch_task, NodeTypeOK, history
  <2> QED
    BY <1>2, <2>6 DEF fetch_task, StoresTypeOK, rows, sessions, redis
<1>3. CASE fetch_error(w, k)
  <2>1. NodeTypeOK'
    BY <1>3, StageType DEF fetch_error, Stage, At, NodeTypeOK, history
  <2> QED
    BY <1>3, <2>1 DEF fetch_error, StoresTypeOK, rows, sessions, redis
<1>4. CASE finally(w, k)
  <2> DEFINE t == exec[w][k].task
  <2>1. t \in Tasks
    BY <1>4 DEF finally, At, NodeTypeOK
  <2>2. Claim(w, k) \in Nat
    BY <2>1, ColumnsAssumption DEF DefaultCpu, Claim
  <2>3. Released(reserved[w], Claim(w, k)) \in Nat
    BY <2>2 DEF Released, NodeTypeOK
  <2>4. Free \in Coroutine /\ Free.stage = "free"
    BY DEF Free, Stage, Coroutine
  <2>5. running_tasks' \in [Workers -> [Tasks -> Slots \cup {None}]]
    BY <1>4, <2>1 DEF finally, NodeTypeOK
  <2>6. reserved' \in [Workers -> Nat] /\ active_tasks' \in [Workers -> SUBSET Tasks]
    BY <1>4, <2>3 DEF finally, NodeTypeOK
  <2>7. unreserved' \in [Workers -> Nat]
    BY <1>4 DEF finally, NodeTypeOK, DefaultCpu
  <2>8. overlapped' \in [Workers -> SUBSET Tasks]
    BY <1>4, <2>1, OverlapType DEF finally
  <2>9. NodeTypeOK'
    BY <1>4, <2>4, <2>5, <2>6, <2>7, <2>8, ExecType DEF finally, NodeTypeOK
  <2> QED
    BY <1>4, <2>9 DEF finally, StoresTypeOK, rows, sessions, redis
<1>5. ASSUME NEW next \in {"complete", "fail", "finally"}, run_task(w, k, next)
      PROVE  StoresTypeOK' /\ NodeTypeOK'
  <2>1. NodeTypeOK'
    BY <1>5, StageType DEF run_task, Stage, At, NodeTypeOK, history
  <2> QED
    BY <1>5, <2>1 DEF run_task, StoresTypeOK, rows, sessions, redis
<1>6. CASE add_active_task_error(w, k)
  <2> DEFINE c == [exec[w][k] EXCEPT !.stage = "fail", !.fetched = TRUE]
  <2>1. exec[w][k].task \in Tasks
    BY <1>6 DEF add_active_task_error, At, NodeTypeOK
  <2>2. c \in Coroutine /\ c.task \in Tasks
    <3>1. exec[w][k] \in Coroutine
      BY DEF NodeTypeOK
    <3> QED
      BY <2>1, <3>1, CoroutineType
  <2>3. exec' = [exec EXCEPT ![w][k] = c]
    BY <1>6 DEF add_active_task_error, NodeTypeOK, Coroutine
  <2>4. reserved' \in [Workers -> Nat]
    BY <1>6, <2>1, ColumnsAssumption DEF add_active_task_error, NodeTypeOK
  <2> HIDE DEF c
  <2>5. /\ exec' \in [Workers -> [Slots -> Coroutine]]
        /\ \A v \in Workers, j \in Slots :
              exec'[v][j].stage # "free" => exec'[v][j].task \in Tasks
    BY <2>2, <2>3, ExecType
  <2>6. NodeTypeOK'
    BY <1>6, <2>4, <2>5 DEF add_active_task_error, NodeTypeOK, history
  <2> QED
    BY <1>6, <2>6 DEF add_active_task_error, StoresTypeOK, rows, sessions, redis
<1>7. CASE remove_active_task_error(w, k)
  <2>1. exec[w][k].task \in Tasks
    BY <1>7 DEF remove_active_task_error, At, NodeTypeOK
  <2>2. Free \in Coroutine /\ Free.stage = "free"
    BY DEF Free, Stage, Coroutine
  <2>3. running_tasks' \in [Workers -> [Tasks -> Slots \cup {None}]]
    BY <1>7, <2>1 DEF remove_active_task_error, NodeTypeOK
  <2>4. leaked' \in [Workers -> Nat]
    BY <1>7, <2>1, ColumnsAssumption DEF remove_active_task_error, NodeTypeOK
  <2>5. overlapped' \in [Workers -> SUBSET Tasks]
    BY <1>7, <2>1, OverlapType DEF remove_active_task_error
  <2>6. NodeTypeOK'
    BY <1>7, <2>2, <2>3, <2>4, <2>5, ExecType DEF remove_active_task_error, NodeTypeOK
  <2> QED
    BY <1>7, <2>6 DEF remove_active_task_error, StoresTypeOK, rows, sessions, redis
<1> QED
  BY <1>1, <1>2, <1>3, <1>4, <1>5, <1>6, <1>7

\* Every step of the cluster keeps the types.
LEMMA TypeStep == TypeOK /\ [Next]_vars => TypeOK'
<1> SUFFICES ASSUME TypeOK, [Next]_vars PROVE TypeOK'
  OBVIOUS
<1> USE DEF TypeOK
<1>a. UNCHANGED apiVars => ApiTypeOK'
  BY DEF ApiTypeOK, apiVars
<1>b. UNCHANGED sched => SchedTypeOK'
  BY DEF SchedTypeOK
<1>c. UNCHANGED fd => FdTypeOK'
  BY DEF FdTypeOK
<1>d. UNCHANGED nodeVars => NodeTypeOK'
  BY DEF NodeTypeOK, nodeVars, history
<1>e. UNCHANGED <<rows, sessions, redis>> => StoresTypeOK'
  BY DEF StoresTypeOK, rows, sessions, redis
<1>f. \A kind : Fault(kind) => faults' \in 0..MaxFaults
  BY FaultsAssumption DEF Fault
<1>1. ASSUME NEW s \in Sessions, NEW t \in Tasks, Create(s, t) \/ Cancel(s, t)
      PROVE  TypeOK'
  BY <1>1, <1>b, <1>c, <1>d, ApiTypes DEF Create, Cancel
<1>2. ASSUME NEW s \in Sessions, Respond(s) PROVE TypeOK'
  <2>1. StoresTypeOK' /\ ApiTypeOK'
    BY <1>2, CommitType DEF Respond, commit, ApiTypeOK, Idle, Actors
  <2>2. NodeTypeOK'
    <3>1. api[s].caller # None => api[s].caller[1] \in Workers
      BY DEF ApiTypeOK, Callers
    <3>2. CASE api[s].op = "register" /\ api[s].caller # None
      BY <1>2, <3>1, <3>2 DEF Respond, main, NodeTypeOK, history
    <3>3. CASE ~(api[s].op = "register" /\ api[s].caller # None)
      BY <1>2, <3>3, <1>d DEF Respond
    <3> QED
      BY <3>2, <3>3
  <2> QED
    BY <1>2, <2>1, <2>2, <1>b, <1>c DEF Respond
<1>3. ASSUME NEW s \in Sessions, HandlerError(s) PROVE TypeOK'
  <2>1. StoresTypeOK' /\ ApiTypeOK'
    BY <1>3, RollbackType DEF HandlerError, abort, ApiTypeOK, Idle, Actors
  <2> QED
    BY <1>3, <2>1, <1>b, <1>c, <1>d, <1>f DEF HandlerError
<1>4. ASSUME NEW s \in Sessions, Timeout(s) PROVE TypeOK'
  <2>1. ApiTypeOK'
    BY <1>4 DEF Timeout, ApiTypeOK
  <2> QED
    BY <1>4, <2>1, <1>b, <1>c, <1>d, <1>e, <1>f DEF Timeout
<1>4h. ASSUME NEW s \in Sessions, NEW w \in Workers, PostHeartbeat(s, w) PROVE TypeOK'
  <2>1. PICK cpu \in 0..cpu_total[w] : heartbeat(s, w, cpu)
    BY <1>4h DEF PostHeartbeat
  <2>2. StoresTypeOK' /\ ApiTypeOK'
    BY <2>1, WorkerApiTypes
  <2> QED
    BY <1>4h, <2>2, <1>b, <1>c, <1>d, <1>f DEF PostHeartbeat
<1>5. CASE Reconcile
  BY <1>5, <1>a, <1>c, <1>d, ReconcileTypes DEF Reconcile
<1>5e. CASE ReconcileError
  BY <1>5e, <1>a, <1>c, <1>d, <1>f, ReconcileTypes DEF ReconcileError
<1>6. CASE Tick
  BY <1>6, <1>a, <1>c, <1>d, TickTypes DEF Tick
<1>7. CASE TickError
  BY <1>7, <1>a, <1>c, <1>d, <1>f, TickTypes DEF TickError
<1>8. CASE Detect
  BY <1>8, <1>a, <1>b, <1>d, DetectTypes DEF Detect
<1>9. CASE DetectError
  BY <1>9, <1>a, <1>b, <1>d, <1>f, DetectTypes DEF DetectError
<1>10. CASE MasterRestart
  <2>1. StoresTypeOK'
    BY <1>10 DEF MasterRestart, StoresTypeOK, rows, redis
  <2>2. ApiTypeOK' /\ FdTypeOK'
    BY <1>10 DEF MasterRestart, ApiTypeOK, FdTypeOK, Idle, FdIdle
  <2>3. SchedTypeOK'
    BY <1>10, SchedulerAssumption
    DEF MasterRestart, SchedTypeOK, SchedStart, NoPlan, NoCaps, Phase
  <2> QED
    BY <1>10, <2>1, <2>2, <2>3, <1>d, <1>f DEF MasterRestart
<1>11. ASSUME NEW w \in Workers, Heartbeat(w) \/ Listen(w) PROVE TypeOK'
  BY <1>11, <1>a, <1>b, <1>c, ProcessTypes DEF Heartbeat, Listen
<1>11r. ASSUME NEW w \in Workers, Register(w) PROVE TypeOK'
  <2>1. PICK s \in Sessions : register_worker(s, w, <<w, Main>>)
    BY <1>11r DEF Register
  <2>2. <<w, Main>> \in Callers \cup {None}
    BY DEF Callers
  <2>3. StoresTypeOK' /\ ApiTypeOK'
    BY <2>1, <2>2, WorkerApiTypes
  <2> QED
    BY <1>11r, <2>3, <1>b, <1>c, <1>d DEF Register, register_with_master
<1>12. ASSUME NEW w \in Workers, Stop(w) PROVE TypeOK'
  <2>1. ApiTypeOK'
    BY <1>12 DEF Stop, ApiTypeOK
  <2> QED
    BY <1>12, <2>1, <1>b, <1>c, <1>f, ProcessTypes DEF Stop
<1>13. ASSUME NEW w \in Workers, Expire(w) PROVE TypeOK'
  BY <1>13, <1>a, <1>b, <1>c, <1>f, ProcessTypes DEF Expire
<1>14. ASSUME NEW w \in Workers, NEW k \in Slots, Poll(w, k) \/ Fetch(w, k) \/ Finally(w, k)
       PROVE  TypeOK'
  BY <1>14, <1>a, <1>b, <1>c, ExecutionTypes DEF Poll, Fetch, Finally
<1>15. ASSUME NEW w \in Workers, NEW k \in Slots, FetchError(w, k) PROVE TypeOK'
  BY <1>15, <1>a, <1>b, <1>c, <1>f, ExecutionTypes DEF FetchError
<1>15r. ASSUME NEW w \in Workers, NEW k \in Slots, RedisError(w, k) PROVE TypeOK'
  BY <1>15r, <1>a, <1>b, <1>c, <1>f, ExecutionTypes DEF RedisError
<1>16. ASSUME NEW w \in Workers, NEW k \in Slots,
              ReportRunning(w, k) \/ ReportCompletion(w, k) \/ ReportFailure(w, k)
       PROVE  TypeOK'
  <2> DEFINE t == exec[w][k].task
  <2>1. t \in Tasks
    BY <1>16 DEF ReportRunning, ReportCompletion, ReportFailure, _report_state,
                 _report_completion, _report_failure, At, NodeTypeOK
  <2>2. NodeTypeOK'
    BY <1>16, StageType DEF ReportRunning, ReportCompletion, ReportFailure, _report_state,
                 _report_completion, _report_failure, At, NodeTypeOK, Stage, history
  <2>3. <<w, k>> \in Callers \cup {None}
    BY DEF Callers
  <2>4. StoresTypeOK' /\ ApiTypeOK'
    BY <1>16, <1>a, <1>e, <2>1, <2>3, ApiTypes
    DEF ReportRunning, ReportCompletion, ReportFailure
  <2> QED
    BY <1>16, <2>2, <2>4, <1>b, <1>c DEF ReportRunning, ReportCompletion, ReportFailure
<1>17. ASSUME NEW w \in Workers, NEW k \in Slots, ReportLost(w, k) PROVE TypeOK'
  <2>1. NodeTypeOK'
    BY <1>17, StageType DEF ReportLost, _report_state,
                 _report_completion, _report_failure, At, NodeTypeOK, Stage, history
  <2> QED
    BY <1>17, <2>1, <1>a, <1>b, <1>c, <1>e, <1>f DEF ReportLost
<1>18. ASSUME NEW w \in Workers, NEW k \in Slots, Run(w, k) PROVE TypeOK'
  <2>1. StoresTypeOK' /\ NodeTypeOK'
    BY <1>18, ExecutionTypes DEF Run
  <2>2. succeeded' \in SUBSET Tasks
    BY <1>18 DEF Run, run_task, At, NodeTypeOK
  <2> QED
    BY <1>18, <2>1, <2>2, <1>a, <1>b, <1>c DEF Run
<1>19. CASE UNCHANGED vars
  BY <1>19, <1>a, <1>b, <1>c, <1>d, <1>e DEF vars, apiVars, nodeVars, history, rows, sessions, redis
<1> QED
  BY <1>1, <1>2, <1>3, <1>4, <1>4h, <1>5, <1>5e, <1>6, <1>7, <1>8, <1>9, <1>10, <1>11,
     <1>11r, <1>12, <1>13, <1>14, <1>15, <1>15r, <1>16, <1>17, <1>18, <1>19
  DEF Next, Handlers, Loops, Process, Execution

\* In every reachable state the rows, sessions, Redis keys and the memory of
\* master and workers have their types, for any number of tasks and workers.
THEOREM TypeCorrect == Spec => []TypeOK
<1>1. Init => TypeOK
  BY InitTypeOK
<1>2. TypeOK /\ [Next]_vars => TypeOK'
  BY TypeStep
<1> QED
  BY <1>1, <1>2, PTL DEF Spec

-----------------------------------------------------------------------------
(* COMPLETED only after a successful execution; retries within max_retries *)

(* Neither property is inductive: a stale session may hold the row that a   *)
(* later commit writes, and a worker the report that a handler will trust.  *)
(* So the invariant speaks of every copy of a task's row, in the table and  *)
(* in the sessions, and of the executions about to report completion.       *)

Sound(t, row) ==
    /\ row.state = "COMPLETED" => t \in succeeded
    /\ row.retry <= max_retries[t]

StoresSound ==
    /\ \A t \in Tasks : Sound(t, tasks[t])
    /\ \A a \in Actors, t \in Tasks :
        session_tasks[a][t] # None => Sound(t, session_tasks[a][t].new)

ReportsSound ==
    \A w \in Workers, k \in Slots :
        exec[w][k].stage = "complete" => exec[w][k].task \in succeeded

IInv == TypeOK /\ StoresSound /\ ReportsSound

\* What a session reads is sound.
LEMMA ObjectSound ==
    ASSUME StoresSound, NEW a \in Actors, NEW t \in Tasks
    PROVE  Sound(t, TaskObject(a, t))
BY DEF StoresSound, TaskObject

\* What a commit leaves takes each column from a sound row.
LEMMA FlushedSound ==
    ASSUME StoresTypeOK, StoresSound, NEW a \in Actors, NEW t \in Tasks
    PROVE  Sound(t, FlushedTask(a, t))
BY DEF StoresSound, FlushedTask, Column, Sound

\* A commit of sound session rows leaves a sound table: what a handler may write back.
LEMMA CommitSound ==
    ASSUME StoresTypeOK, StoresSound, NEW a \in Actors, Commit(a), UNCHANGED succeeded
    PROVE  StoresSound'
<1>1. \A t \in Tasks : Sound(t, tasks[t])'
  BY FlushedSound DEF Commit, Sound
<1>2. \A b \in Actors, t \in Tasks :
        (session_tasks[b][t] # None => Sound(t, session_tasks[b][t].new))'
  BY DEF Commit, Forget, StoresSound, StoresTypeOK, Sound
<1> QED
  BY <1>1, <1>2 DEF StoresSound

\* A rollback drops a session's rows, so the remaining copies stay sound.
LEMMA RollbackSound ==
    ASSUME StoresTypeOK, StoresSound, NEW a \in Actors, Rollback(a), UNCHANGED succeeded
    PROVE  StoresSound'
BY DEF Rollback, Forget, StoresSound, StoresTypeOK, Sound, rows

\* A session sets a sound row.
LEMMA WithTaskSound ==
    ASSUME StoresTypeOK, StoresSound, NEW a \in Actors, NEW t \in Tasks, NEW row,
           Sound(t, row), session_tasks' = WithTask(a, t, row),
           UNCHANGED <<tasks, succeeded>>
    PROVE  StoresSound'
<1>1. \A b \in Actors, u \in Tasks :
        session_tasks'[b][u] = IF b = a /\ u = t
            THEN [old |-> IF session_tasks[a][t] = None THEN tasks[t] ELSE session_tasks[a][t].old,
                  new |-> row]
            ELSE session_tasks[b][u]
  BY DEF WithTask, StoresTypeOK
<1>2. \A b \in Actors, u \in Tasks :
        (session_tasks'[b][u] # None) => Sound(u, session_tasks'[b][u].new)
  BY <1>1 DEF StoresSound
<1> QED
  BY <1>2 DEF StoresSound, Sound

\* Rows loaded as they are in the table.
LEMMA LoadSound ==
    ASSUME StoresSound, UNCHANGED <<tasks, succeeded>>,
           \A a \in Actors, t \in Tasks :
                \/ session_tasks'[a][t] = None
                \/ session_tasks'[a][t] = session_tasks[a][t]
                \/ session_tasks'[a][t] = [old |-> tasks[t], new |-> tasks[t]]
    PROVE  StoresSound'
<1>1. \A t \in Tasks : Sound(t, tasks[t])'
  BY DEF StoresSound, Sound
<1>2. ASSUME NEW a \in Actors, NEW t \in Tasks, session_tasks'[a][t] # None
      PROVE  Sound(t, session_tasks'[a][t].new)
  <2>1. CASE session_tasks'[a][t] = session_tasks[a][t]
    BY <1>2, <2>1 DEF StoresSound
  <2>2. CASE session_tasks'[a][t] = [old |-> tasks[t], new |-> tasks[t]]
    <3>1. session_tasks'[a][t].new = tasks[t]
      BY <2>2
    <3> QED
      BY <3>1 DEF StoresSound
  <2> QED
    BY <1>2, <2>1, <2>2
<1> QED
  BY <1>1, <1>2 DEF StoresSound, Sound

\* The rows the three requeuing paths and the other writers make are sound.
LEMMA RowsSound ==
    ASSUME NEW t \in Tasks, NEW row \in TaskRow, Sound(t, row)
    PROVE  /\ HasRetries(row, t) => Sound(t, Requeued(row))
           /\ \A st \in TaskState \ {"COMPLETED"} : Sound(t, [row EXCEPT !.state = st])
           /\ \A st \in TaskState \ {"COMPLETED"}, w \in Workers \cup {None} :
                Sound(t, [row EXCEPT !.state = st, !.worker = w])
<1>1. max_retries[t] \in Nat /\ row.retry \in Nat
  BY ColumnsAssumption DEF TaskRow
<1>2. HasRetries(row, t) => Sound(t, Requeued(row))
  BY <1>1 DEF HasRetries, Requeued, Sound
<1>3. \A st \in TaskState \ {"COMPLETED"} : Sound(t, [row EXCEPT !.state = st])
  BY DEF Sound, TaskRow, TaskState
<1>4. \A st \in TaskState \ {"COMPLETED"}, w \in Workers \cup {None} :
            Sound(t, [row EXCEPT !.state = st, !.worker = w])
  BY DEF Sound, TaskRow, TaskState
<1> QED
  BY <1>2, <1>3, <1>4

\* Steps that leave the rows and the sessions alone.
LEMMA KeepSound ==
    ASSUME StoresSound, UNCHANGED <<tasks, session_tasks>>, succeeded \subseteq succeeded'
    PROVE  StoresSound'
BY DEF StoresSound, Sound

\* Every handler of the API sets or commits sound rows; complete_task does
\* when the reporting execution has succeeded.
LEMMA ApiSound ==
    ASSUME StoresTypeOK, StoresSound, UNCHANGED succeeded,
           NEW s \in Sessions, NEW t \in Tasks, NEW c
    PROVE  /\ create_task(s, t) \/ cancel_task(s, t) => StoresSound'
           /\ update_task_state(s, t, "RUNNING", c) => StoresSound'
           /\ complete_task(s, t, c) /\ t \in succeeded => StoresSound'
           /\ fail_task(s, t, c) => StoresSound'
           /\ commit(s) \/ abort(s) => StoresSound'
<1>a. s \in Actors
  BY DEF Actors
<1>b. tasks[t] \in TaskRow /\ Sound(t, tasks[t])
  BY DEF StoresTypeOK, StoresSound
<1>1. CASE create_task(s, t)
  <2> DEFINE row == [state |-> "PENDING", worker |-> None, retry |-> 0]
  <2>1. Sound(t, row)
    BY ColumnsAssumption DEF Sound
  <2>2. session_tasks' = WithTask(s, t, row) /\ UNCHANGED tasks
    BY <1>1 DEF create_task, rows
  <2> HIDE DEF row
  <2> QED
    BY <1>a, <2>1, <2>2, WithTaskSound
<1>2. CASE cancel_task(s, t)
  <2> DEFINE row == [tasks[t] EXCEPT !.state = "CANCELLED", !.worker = None]
  <2>1. Sound(t, row)
    BY <1>b, RowsSound DEF TaskState
  <2>2. session_tasks' = WithTask(s, t, row) /\ UNCHANGED tasks
    BY <1>2 DEF cancel_task, rows
  <2> HIDE DEF row
  <2> QED
    BY <1>a, <2>1, <2>2, WithTaskSound
<1>3. CASE update_task_state(s, t, "RUNNING", c)
  <2> DEFINE row == [tasks[t] EXCEPT !.state = "RUNNING"]
  <2>1. Sound(t, row)
    BY <1>b, RowsSound DEF TaskState
  <2>2. session_tasks' = WithTask(s, t, row) /\ UNCHANGED tasks
    BY <1>3 DEF update_task_state, rows
  <2> HIDE DEF row
  <2> QED
    BY <1>a, <2>1, <2>2, WithTaskSound
<1>4. CASE complete_task(s, t, c) /\ t \in succeeded
  <2> DEFINE row == [tasks[t] EXCEPT !.state = "COMPLETED"]
  <2>1. Sound(t, row)
    BY <1>b, <1>4 DEF Sound, TaskRow
  <2>2. session_tasks' = WithTask(s, t, row) /\ UNCHANGED tasks
    BY <1>4 DEF complete_task, rows
  <2> HIDE DEF row
  <2> QED
    BY <1>a, <2>1, <2>2, WithTaskSound
<1>5. CASE fail_task(s, t, c)
  <2> DEFINE row == IF HasRetries(tasks[t], t) THEN Requeued(tasks[t])
                    ELSE [tasks[t] EXCEPT !.state = "FAILED"]
  <2>1. Sound(t, row)
    BY <1>b, RowsSound DEF TaskState
  <2>2. session_tasks' = WithTask(s, t, row) /\ UNCHANGED tasks
    BY <1>5 DEF fail_task, rows
  <2> HIDE DEF row
  <2> QED
    BY <1>a, <2>1, <2>2, WithTaskSound
<1>6. CASE commit(s) \/ abort(s)
  BY <1>6, <1>a, CommitSound, RollbackSound DEF commit, abort
<1> QED
  BY <1>1, <1>2, <1>3, <1>4, <1>5, <1>6

\* The reconciliation: rows are loaded, and reset in the session.
LEMMA ReconcileSound ==
    ASSUME StoresTypeOK, StoresSound, SchedTypeOK, Reconcile \/ ReconcileError
    PROVE  StoresSound'
<1> USE DEF me
<1>a. me \in Actors
  BY DEF Actors
<1>b. UNCHANGED succeeded
  BY DEF Reconcile, ReconcileError
<1>1. CASE _reconcile_pending_tasks \/ enqueue_missing
  BY <1>1, <1>b, KeepSound DEF _reconcile_pending_tasks, enqueue_missing, rows, sessions
<1>2. CASE _reconcile_scheduled_tasks
  <2>1. \A a \in Actors, t \in Tasks :
            \/ session_tasks'[a][t] = None
            \/ session_tasks'[a][t] = session_tasks[a][t]
            \/ session_tasks'[a][t] = [old |-> tasks[t], new |-> tasks[t]]
    BY <1>2 DEF _reconcile_scheduled_tasks, StoresTypeOK
  <2>2. UNCHANGED tasks
    BY <1>2 DEF _reconcile_scheduled_tasks, rows
  <2> QED
    BY <1>b, <2>1, <2>2, LoadSound
<1>3. ASSUME NEW t \in Tasks, repush(t) PROVE StoresSound'
  <2> DEFINE row == [TaskObject(me, t) EXCEPT !.state = "PENDING", !.worker = None]
  <2>1. Sound(t, row)
    BY <1>a, ObjectSound, ObjectType, RowsSound DEF TaskState
  <2>2. UNCHANGED tasks /\ (UNCHANGED session_tasks \/ session_tasks' = WithTask(me, t, row))
    BY <1>3 DEF repush, rows
  <2> HIDE DEF row
  <2> QED
    BY <1>a, <1>b, <2>1, <2>2, WithTaskSound, KeepSound
<1>4. CASE reconciled \/ reconcile_abort
  BY <1>4, <1>a, <1>b, RollbackSound DEF reconciled, reconcile_abort
<1> QED
  BY <1>1, <1>2, <1>3, <1>4 DEF Reconcile, ReconcileError

\* A tick: every row it sets is PENDING, SCHEDULED or PREEMPTED, and it counts
\* a retry only when one is left.
LEMMA TickSound ==
    ASSUME StoresTypeOK, StoresSound, SchedTypeOK, Tick \/ TickError
    PROVE  StoresSound'
<1> USE DEF me
<1>a. me \in Actors
  BY DEF Actors
<1>b. UNCHANGED succeeded
  BY DEF Tick, TickError
<1>c. ASSUME NEW t \in Tasks, NEW w \in Workers, Placed(t, w), UNCHANGED tasks
      PROVE  StoresSound'
  <2> DEFINE row == [TaskObject(me, t) EXCEPT !.state = "SCHEDULED", !.worker = w]
  <2>1. Sound(t, row)
    BY <1>a, ObjectSound, ObjectType, RowsSound DEF TaskState
  <2>2. session_tasks' = WithTask(me, t, row)
    BY <1>c DEF Placed
  <2> HIDE DEF row
  <2> QED
    BY <1>a, <1>b, <1>c, <2>1, <2>2, WithTaskSound
<1>1. CASE _tick \/ _schedule_batch
  BY <1>1, <1>b, KeepSound DEF _tick, _schedule_batch, rows, sessions
<1>2. ASSUME NEW t \in Tasks, skip(t) \/ no_capacity(t) PROVE StoresSound'
  BY <1>2, <1>b, KeepSound DEF skip, no_capacity, rows, sessions
<1>3. ASSUME NEW t \in Tasks, _try_schedule_task(t) PROVE StoresSound'
  <2>1. PICK w \in Workers : Placed(t, w)
    BY <1>3 DEF _try_schedule_task, spread_schedule
  <2> QED
    BY <1>c, <1>3, <2>1 DEF _try_schedule_task, rows
<1>4. ASSUME NEW t \in Tasks, preempt(t) PROVE StoresSound'
  <2>1. UNCHANGED tasks
    BY <1>4 DEF preempt, rows
  <2>2. PICK V : session_tasks' = [session_tasks EXCEPT ![me] =
            [u \in Tasks |-> IF u \in V /\ @[u] = None
                             THEN [old |-> tasks[u], new |-> tasks[u]] ELSE @[u]]]
    BY <1>4 DEF preempt
  <2>3. \A a \in Actors, u \in Tasks :
            \/ session_tasks'[a][u] = None
            \/ session_tasks'[a][u] = session_tasks[a][u]
            \/ session_tasks'[a][u] = [old |-> tasks[u], new |-> tasks[u]]
    BY <2>2 DEF StoresTypeOK
  <2> QED
    BY <1>b, <2>1, <2>3, LoadSound
<1>5. ASSUME NEW v \in Tasks, evict(v) PROVE StoresSound'
  <2> DEFINE row == Preempted(TaskObject(me, v), v)
  <2>1. Sound(v, row)
    BY <1>a, ObjectSound, ObjectType, RowsSound DEF TaskState, Preempted
  <2>2. UNCHANGED tasks /\ session_tasks' = WithTask(me, v, row)
    BY <1>5 DEF evict, rows
  <2> HIDE DEF row
  <2> QED
    BY <1>a, <1>b, <2>1, <2>2, WithTaskSound
<1>6. CASE place
  <2>1. sched.plan.task \in Tasks /\ sched.plan.worker \in Workers
    BY <1>6 DEF place, SchedTypeOK
  <2> QED
    BY <1>c, <1>6, <2>1 DEF place, rows
<1>7. CASE batch_commit \/ batch_abort
  BY <1>7, <1>a, <1>b, CommitSound, RollbackSound DEF batch_commit, batch_abort
<1> QED
  BY <1>1, <1>2, <1>3, <1>4, <1>5, <1>6, <1>7 DEF Tick, TickError

\* A pass of the failure detector.
LEMMA DetectSound ==
    ASSUME StoresTypeOK, StoresSound, Detect \/ DetectError
    PROVE  StoresSound'
<1> USE DEF detector
<1>a. detector \in Actors
  BY DEF Actors
<1>b. UNCHANGED succeeded
  BY DEF Detect, DetectError
<1>1. CASE _check_all_workers \/ handled
  BY <1>1, <1>b, KeepSound DEF _check_all_workers, handled, rows, sessions
<1>2. ASSUME NEW w \in Workers, is_alive(w) PROVE StoresSound'
  BY <1>2, <1>b, KeepSound DEF is_alive, rows, sessions
<1>3. ASSUME NEW w \in Workers, _handle_dead_worker(w) PROVE StoresSound'
  <2>1. UNCHANGED tasks
    BY <1>3 DEF _handle_dead_worker, rows
  <2>2. PICK V : session_tasks' = [session_tasks EXCEPT ![detector] =
            [t \in Tasks |-> IF t \in V /\ @[t] = None
                             THEN [old |-> tasks[t], new |-> tasks[t]] ELSE @[t]]]
    BY <1>3 DEF _handle_dead_worker
  <2>3. \A a \in Actors, u \in Tasks :
            \/ session_tasks'[a][u] = None
            \/ session_tasks'[a][u] = session_tasks[a][u]
            \/ session_tasks'[a][u] = [old |-> tasks[u], new |-> tasks[u]]
    BY <2>2 DEF StoresTypeOK
  <2> QED
    BY <1>b, <2>1, <2>3, LoadSound
<1>4. ASSUME NEW t \in Tasks, requeue(t) PROVE StoresSound'
  <2> DEFINE row == Requeued(TaskObject(detector, t))
  <2>1. Sound(t, row)
    BY <1>a, <1>4, ObjectSound, ObjectType, RowsSound DEF requeue
  <2>2. UNCHANGED tasks /\ session_tasks' = WithTask(detector, t, row)
    BY <1>4 DEF requeue, rows
  <2> HIDE DEF row
  <2> QED
    BY <1>a, <1>b, <2>1, <2>2, WithTaskSound
<1>5. ASSUME NEW t \in Tasks, exhausted(t) PROVE StoresSound'
  <2> DEFINE row == [TaskObject(detector, t) EXCEPT !.state = "FAILED"]
  <2>1. Sound(t, row)
    BY <1>a, ObjectSound, ObjectType, RowsSound DEF TaskState
  <2>2. UNCHANGED tasks /\ session_tasks' = WithTask(detector, t, row)
    BY <1>5 DEF exhausted, rows
  <2> HIDE DEF row
  <2> QED
    BY <1>a, <1>b, <2>1, <2>2, WithTaskSound
<1>6. ASSUME NEW t \in Tasks, raise(t) PROVE StoresSound'
  BY <1>6, <1>a, <1>b, RollbackSound DEF raise
<1>7. CASE fd_commit \/ fd_abort
  BY <1>7, <1>a, <1>b, CommitSound, RollbackSound DEF fd_commit, fd_abort
<1> QED
  BY <1>1, <1>2, <1>3, <1>4, <1>5, <1>6, <1>7 DEF Detect, DetectError

\* Steps that bring no execution to the completion report.
LEMMA KeepReports ==
    ASSUME ReportsSound, succeeded \subseteq succeeded',
           \A w \in Workers, k \in Slots :
                exec'[w][k].stage = "complete" =>
                    /\ exec[w][k].stage = "complete"
                    /\ exec'[w][k].task = exec[w][k].task
    PROVE  ReportsSound'
BY DEF ReportsSound

\* Only run_task brings an execution to its completion report, and it records
\* the success.
LEMMA ExecutionReports ==
    ASSUME NodeTypeOK, ReportsSound, NEW w \in Workers, NEW k \in Slots,
           Execution(w, k)
    PROVE  ReportsSound'
<1>1. exec[w][k] \in Coroutine
  BY DEF NodeTypeOK
<1>2. ASSUME NEW x, exec' = [exec EXCEPT ![w][k] = x],
             x.stage # "complete", UNCHANGED succeeded
      PROVE  ReportsSound'
  <2>1. \A v \in Workers, j \in Slots :
            exec'[v][j] = IF v = w /\ j = k THEN x ELSE exec[v][j]
    BY <1>2 DEF NodeTypeOK
  <2>2. \A v \in Workers, j \in Slots :
            exec'[v][j].stage = "complete" => exec'[v][j] = exec[v][j]
    BY <1>2, <2>1
  <2> QED
    BY <1>2, <2>2, KeepReports
<1>3. CASE Poll(w, k)
  <2> DEFINE x == [Free EXCEPT !.stage = "fetch", !.task = Head(assignments[w])]
  <2>1. exec' = [exec EXCEPT ![w][k] = x] /\ UNCHANGED succeeded
    BY <1>3 DEF Poll, poll_assignment
  <2>2. x.stage # "complete"
    BY DEF Free
  <2> HIDE DEF x
  <2> QED
    BY <1>2, <2>1, <2>2
<1>4. ASSUME NEW st \in {"run", "fail", "finally"}, UNCHANGED succeeded,
             exec' = [exec EXCEPT ![w][k].stage = st]
      PROVE  ReportsSound'
  <2> DEFINE x == [exec[w][k] EXCEPT !.stage = st]
  <2>1. exec' = [exec EXCEPT ![w][k] = x]
    BY <1>4
  <2>2. x.stage # "complete"
    BY <1>1, <1>4 DEF Coroutine
  <2> HIDE DEF x
  <2> QED
    BY <1>2, <1>4, <2>1, <2>2
<1>5. CASE Fetch(w, k)
  <2> DEFINE x == [exec[w][k] EXCEPT !.stage = "report", !.fetched = TRUE]
  <2>1. exec' = [exec EXCEPT ![w][k] = x] /\ UNCHANGED succeeded
    BY <1>5 DEF Fetch, fetch_task, NodeTypeOK
  <2>2. x.stage # "complete"
    BY <1>1 DEF Coroutine
  <2> HIDE DEF x
  <2> QED
    BY <1>2, <2>1, <2>2
<1>6. CASE FetchError(w, k)
  BY <1>6, <1>4 DEF FetchError, fetch_error
<1>7. CASE ReportRunning(w, k)
  BY <1>7, <1>4 DEF ReportRunning, _report_state
<1>8. CASE ReportCompletion(w, k)
  BY <1>8, <1>4 DEF ReportCompletion, _report_completion
<1>9. CASE ReportFailure(w, k)
  BY <1>9, <1>4 DEF ReportFailure, _report_failure
<1>10. CASE ReportLost(w, k)
  BY <1>10, <1>4 DEF ReportLost, _report_state, _report_completion, _report_failure
<1>11. CASE Run(w, k)
  <2>1. PICK next \in {"complete", "fail", "finally"} :
            /\ exec' = [exec EXCEPT ![w][k].stage = next]
            /\ succeeded' = IF next = "complete" THEN succeeded \cup {exec[w][k].task}
                                                 ELSE succeeded
    BY <1>11 DEF Run, run_task
  <2>2. CASE next # "complete"
    BY <2>1, <2>2, <1>4
  <2>3. CASE next = "complete"
    <3>1. \A v \in Workers, j \in Slots :
            /\ exec'[v][j].task = exec[v][j].task
            /\ v # w \/ j # k => exec'[v][j] = exec[v][j]
      BY <2>1, <1>1 DEF NodeTypeOK, Coroutine
    <3>2. succeeded' = succeeded \cup {exec[w][k].task}
      BY <2>1, <2>3
    <3> QED
      BY <3>1, <3>2 DEF ReportsSound
  <2> QED
    BY <2>2, <2>3
<1>12. CASE Finally(w, k)
  <2>1. exec' = [exec EXCEPT ![w][k] = Free] /\ UNCHANGED succeeded
    BY <1>12 DEF Finally, finally
  <2>2. Free.stage # "complete"
    BY DEF Free
  <2> QED
    BY <1>2, <2>1, <2>2
<1>13. CASE RedisError(w, k)
  <2>1. UNCHANGED succeeded
    BY <1>13 DEF RedisError
  <2>2. CASE add_active_task_error(w, k)
    <3> DEFINE x == [exec[w][k] EXCEPT !.stage = "fail", !.fetched = TRUE]
    <3>1. exec' = [exec EXCEPT ![w][k] = x]
      BY <2>2 DEF add_active_task_error, NodeTypeOK
    <3>2. x.stage # "complete"
      BY <1>1 DEF Coroutine
    <3> HIDE DEF x
    <3> QED
      BY <1>2, <2>1, <3>1, <3>2
  <2>3. CASE remove_active_task_error(w, k)
    <3>1. exec' = [exec EXCEPT ![w][k] = Free] /\ Free.stage # "complete"
      BY <2>3 DEF remove_active_task_error, Free
    <3> QED
      BY <1>2, <2>1, <3>1
  <2> QED
    BY <1>13, <2>2, <2>3 DEF RedisError
<1> QED
  BY <1>3, <1>5, <1>6, <1>7, <1>8, <1>9, <1>10, <1>11, <1>12, <1>13 DEF Execution

\* Every step keeps the completion reports sound.
LEMMA ReportsStep == IInv /\ [Next]_vars => ReportsSound'
<1> SUFFICES ASSUME NodeTypeOK, ReportsSound, [Next]_vars PROVE ReportsSound'
  BY DEF IInv, TypeOK
<1>1. ASSUME UNCHANGED <<exec, succeeded>> PROVE ReportsSound'
  BY <1>1 DEF ReportsSound
<1>2. CASE UNCHANGED vars
  BY <1>2, <1>1 DEF vars
<1>3. CASE Handlers
  BY <1>3, <1>1 DEF Handlers, Create, Cancel, Respond, HandlerError, Timeout, PostHeartbeat,
                    main, nodeVars, history
<1>4. CASE Loops
  BY <1>4, <1>1 DEF Loops, Reconcile, ReconcileError, Tick, TickError, Detect, DetectError,
                    MasterRestart, nodeVars, history
<1>5. ASSUME NEW w \in Workers, Register(w) \/ Heartbeat(w) \/ Expire(w)
      PROVE  ReportsSound'
  BY <1>5, <1>1 DEF Register, Heartbeat, Expire, register_with_master, send_heartbeat,
                    heartbeat_expires, nodeVars, history
<1>6. ASSUME NEW w \in Workers, Stop(w) PROVE ReportsSound'
  <2>1. exec' = [exec EXCEPT ![w] = [k \in Slots |-> Free]] /\ UNCHANGED succeeded
    BY <1>6 DEF Stop, stop
  <2>2. \A v \in Workers, k \in Slots :
            exec'[v][k] = Free \/ exec'[v][k] = exec[v][k]
    BY <2>1 DEF NodeTypeOK
  <2> QED
    BY <2>1, <2>2, KeepReports DEF Free
<1>7. ASSUME NEW w \in Workers, Listen(w) PROVE ReportsSound'
  <2>1. \A v \in Workers, k \in Slots : /\ exec'[v][k].stage = exec[v][k].stage
                                        /\ exec'[v][k].task = exec[v][k].task
    <3>1. CASE UNCHANGED exec
      BY <3>1
    <3>2. ASSUME NEW j, exec' = [exec EXCEPT ![w][j].cancel = TRUE]
          PROVE  \A v \in Workers, k \in Slots : /\ exec'[v][k].stage = exec[v][k].stage
                                                 /\ exec'[v][k].task = exec[v][k].task
      BY <3>2 DEF NodeTypeOK, Coroutine
    <3> QED
      BY <1>7, <3>1, <3>2 DEF Listen, _preemption_listener
  <2>2. UNCHANGED succeeded
    BY <1>7 DEF Listen
  <2> QED
    BY <2>1, <2>2, KeepReports
<1>8. ASSUME NEW w \in Workers, NEW k \in Slots, Execution(w, k) PROVE ReportsSound'
  BY <1>8, ExecutionReports
<1> QED
  BY <1>2, <1>3, <1>4, <1>5, <1>6, <1>7, <1>8 DEF Next, Process

\* Every step keeps the rows sound, in the table and in the sessions.
LEMMA StoresStep == IInv /\ [Next]_vars => StoresSound'
<1> SUFFICES ASSUME TypeOK, StoresSound, ReportsSound, [Next]_vars PROVE StoresSound'
  BY DEF IInv
<1> USE DEF TypeOK
<1>1. ASSUME UNCHANGED <<tasks, session_tasks, succeeded>> PROVE StoresSound'
  BY <1>1, KeepSound
<1>2. CASE UNCHANGED vars
  BY <1>2, <1>1 DEF vars
<1>3. CASE Handlers
  <2>1. ASSUME NEW s \in Sessions, NEW t \in Tasks, Create(s, t) \/ Cancel(s, t)
        PROVE  StoresSound'
    BY <2>1, ApiSound DEF Create, Cancel
  <2>2. ASSUME NEW s \in Sessions, Respond(s) \/ HandlerError(s) PROVE StoresSound'
    <3>1. s \in Actors
      BY DEF Actors
    <3> QED
      BY <2>2, <3>1, CommitSound, RollbackSound DEF Respond, HandlerError, commit, abort
  <2>3. ASSUME NEW s \in Sessions, Timeout(s) PROVE StoresSound'
    BY <2>3, <1>1 DEF Timeout, rows, sessions
  <2>4. ASSUME NEW s \in Sessions, NEW w \in Workers, PostHeartbeat(s, w) PROVE StoresSound'
    BY <2>4, <1>1 DEF PostHeartbeat, heartbeat, rows
  <2> QED
    BY <1>3, <2>1, <2>2, <2>3, <2>4 DEF Handlers
<1>4. CASE Loops
  <2>1. CASE MasterRestart
    BY <2>1 DEF MasterRestart, rows, StoresSound, Sound
  <2> QED
    BY <1>4, <2>1, ReconcileSound, TickSound, DetectSound DEF Loops
<1>5. ASSUME NEW w \in Workers, Process(w) PROVE StoresSound'
  BY <1>5, <1>1 DEF Process, Register, Stop, Heartbeat, Expire, Listen, register_worker,
                    stop, send_heartbeat, heartbeat_expires, _preemption_listener,
                    rows, sessions
<1>6. ASSUME NEW w \in Workers, NEW k \in Slots, Execution(w, k) PROVE StoresSound'
  <2> DEFINE t == exec[w][k].task
  <2>1. CASE Poll(w, k) \/ Fetch(w, k) \/ FetchError(w, k) \/ ReportLost(w, k)
             \/ Finally(w, k) \/ RedisError(w, k)
    BY <2>1, <1>1 DEF Poll, Fetch, FetchError, ReportLost, Finally, RedisError, poll_assignment,
                      fetch_task, fetch_error, finally, add_active_task_error,
                      remove_active_task_error, rows, sessions
  <2>2. CASE Run(w, k)
    <3>1. UNCHANGED <<tasks, session_tasks>> /\ succeeded \subseteq succeeded'
      BY <2>2 DEF Run, run_task, rows, sessions
    <3> QED
      BY <3>1, KeepSound
  <2>3. CASE ReportRunning(w, k)
    <3>1. t \in Tasks
      BY <2>3 DEF ReportRunning, _report_state, At, NodeTypeOK
    <3>2. CASE \E s \in Sessions : update_task_state(s, t, "RUNNING", <<w, k>>)
      BY <2>3, <3>1, <3>2, ApiSound DEF ReportRunning
    <3> QED
      BY <2>3, <3>2, <1>1 DEF ReportRunning, rows, sessions
  <2>4. CASE ReportCompletion(w, k)
    <3>1. t \in Tasks /\ t \in succeeded
      BY <2>4 DEF ReportCompletion, _report_completion, At, NodeTypeOK, ReportsSound
    <3>2. CASE \E s \in Sessions : complete_task(s, t, <<w, k>>)
      BY <2>4, <3>1, <3>2, ApiSound DEF ReportCompletion
    <3> QED
      BY <2>4, <3>2, <1>1 DEF ReportCompletion, rows, sessions
  <2>5. CASE ReportFailure(w, k)
    <3>1. t \in Tasks
      BY <2>5 DEF ReportFailure, _report_failure, At, NodeTypeOK
    <3>2. CASE \E s \in Sessions : fail_task(s, t, <<w, k>>)
      BY <2>5, <3>1, <3>2, ApiSound DEF ReportFailure
    <3> QED
      BY <2>5, <3>2, <1>1 DEF ReportFailure, rows, sessions
  <2> QED
    BY <1>6, <2>1, <2>2, <2>3, <2>4, <2>5 DEF Execution
<1> QED
  BY <1>2, <1>3, <1>4, <1>5, <1>6 DEF Next

\* The invariant is inductive.
LEMMA Invariance == Spec => []IInv
<1>1. Init => IInv
  <2>1. Init => StoresSound
    <3> SUFFICES ASSUME Init PROVE StoresSound
      OBVIOUS
    <3>1. ASSUME NEW t \in Tasks PROVE Sound(t, tasks[t])
      <4>1. tasks[t] = [state |-> "ABSENT", worker |-> None, retry |-> 0]
        BY <3>1 DEF Init, StoresInit
      <4>2. tasks[t].state = "ABSENT" /\ tasks[t].retry = 0 /\ max_retries[t] \in Nat
        BY <3>1, <4>1, ColumnsAssumption
      <4> QED
        BY <4>2 DEF Sound
    <3>2. \A a \in Actors, t \in Tasks : session_tasks[a][t] = None
      BY DEF Init, StoresInit
    <3> QED
      BY <3>1, <3>2 DEF StoresSound
  <2>2. Init => ReportsSound
    BY DEF Init, NodeInit, ReportsSound, Free
  <2> QED
    BY <2>1, <2>2, InitTypeOK DEF IInv
<1>2. IInv /\ [Next]_vars => IInv'
  BY TypeStep, StoresStep, ReportsStep DEF IInv
<1> QED
  BY <1>1, <1>2, PTL DEF Spec

\* A row says COMPLETED only after some execution of the task has succeeded,
\* whatever transactions, retries, preemptions, crashes and lost or late
\* requests come in between.
THEOREM CompletedSound == Spec => []CompletedOnlyAfterSuccess
<1>1. IInv => CompletedOnlyAfterSuccess
  BY DEF IInv, StoresSound, Sound, CompletedOnlyAfterSuccess
<1> QED
  BY <1>1, Invariance, PTL

\* retry_count stays within max_retries although three paths increment it from
\* rows that may be stale.
THEOREM RetriesSound == Spec => []RetriesBounded
<1>1. IInv => RetriesBounded
  BY DEF IInv, StoresSound, Sound, RetriesBounded
<1> QED
  BY <1>1, Invariance, PTL

-----------------------------------------------------------------------------
(* Whose step touches which session *)

\* Setting an object in one session leaves every other object as it was.
LEMMA WithTaskAt ==
    ASSUME StoresTypeOK, NEW a \in Actors, NEW t \in Tasks, NEW row,
           NEW b \in Actors, NEW u \in Tasks
    PROVE  WithTask(a, t, row)[b][u] =
                IF b = a /\ u = t
                THEN [old |-> IF session_tasks[a][t] = None THEN tasks[t]
                              ELSE session_tasks[a][t].old,
                      new |-> row]
                ELSE session_tasks[b][u]
BY DEF WithTask, StoresTypeOK

\* The same of the Worker objects.
LEMMA WithWorkerAt ==
    ASSUME StoresTypeOK, NEW a \in Actors, NEW w \in Workers, NEW row,
           NEW b \in Actors, NEW v \in Workers
    PROVE  WithWorker(a, w, row)[b][v] =
                IF b = a /\ v = w
                THEN [old |-> IF session_workers[a][w] = None THEN workers[w]
                              ELSE session_workers[a][w].old,
                      new |-> row]
                ELSE session_workers[b][v]
BY DEF WithWorker, StoresTypeOK

\* The end of a session empties it and leaves the others as they were.
LEMMA ForgetAt ==
    ASSUME StoresTypeOK, NEW a \in Actors, Forget(a), NEW b \in Actors
    PROVE  /\ b # a => /\ session_tasks'[b] = session_tasks[b]
                       /\ session_workers'[b] = session_workers[b]
           /\ b = a => /\ \A t \in Tasks : session_tasks'[b][t] = None
                       /\ \A w \in Workers : session_workers'[b][w] = None
BY DEF Forget, StoresTypeOK

\* Of the sessions, the step writes into the one of a only.
OnlyTouches(a) ==
    \A b \in Actors \ {a} : /\ session_tasks'[b] = session_tasks[b]
                            /\ session_workers'[b] = session_workers[b]

\* WithTask and WithWorker write into the session they are given.
LEMMA WithTouches ==
    ASSUME StoresTypeOK, NEW a \in Actors
    PROVE  /\ \A t, x : \A b \in Actors \ {a} : WithTask(a, t, x)[b] = session_tasks[b]
           /\ \A w, x : \A b \in Actors \ {a} : WithWorker(a, w, x)[b] = session_workers[b]
BY DEF WithTask, WithWorker, StoresTypeOK

\* A handler works in the session it was given, until it ends.
LEMMA HandlerTouches ==
    ASSUME StoresTypeOK, NEW s \in Sessions, NEW t, NEW w, NEW c, NEW n
    PROVE  /\ create_task(s, t) \/ cancel_task(s, t) => OnlyTouches(s)
           /\ update_task_state(s, t, n, c) => OnlyTouches(s)
           /\ complete_task(s, t, c) \/ fail_task(s, t, c) => OnlyTouches(s)
           /\ register_worker(s, w, c) \/ heartbeat(s, w, n) => OnlyTouches(s)
           /\ commit(s) \/ abort(s) => OnlyTouches(s)
<1>a. s \in Actors
  BY DEF Actors
<1>b. \A u, x : \A b \in Actors \ {s} : WithTask(s, u, x)[b] = session_tasks[b]
  BY <1>a, WithTouches
<1>c. \A v, x : \A b \in Actors \ {s} : WithWorker(s, v, x)[b] = session_workers[b]
  BY <1>a, WithTouches
<1>d. \A b \in Actors \ {s} : Freed(s, t)[b] = session_workers[b]
  BY <1>c DEF Freed
<1>1. ASSUME create_task(s, t) PROVE OnlyTouches(s)
  BY <1>1, <1>b DEF create_task, OnlyTouches
<1>2. ASSUME cancel_task(s, t) PROVE OnlyTouches(s)
  BY <1>2, <1>b DEF cancel_task, OnlyTouches
<1>3. ASSUME update_task_state(s, t, n, c) PROVE OnlyTouches(s)
  BY <1>3, <1>b DEF update_task_state, OnlyTouches
<1>4. ASSUME complete_task(s, t, c) PROVE OnlyTouches(s)
  BY <1>4, <1>b, <1>d DEF complete_task, OnlyTouches
<1>5. ASSUME fail_task(s, t, c) PROVE OnlyTouches(s)
  BY <1>5, <1>b, <1>d DEF fail_task, OnlyTouches
<1>6. ASSUME register_worker(s, w, c) PROVE OnlyTouches(s)
  BY <1>6, <1>c DEF register_worker, OnlyTouches
<1>7. ASSUME heartbeat(s, w, n) PROVE OnlyTouches(s)
  BY <1>7, <1>c DEF heartbeat, OnlyTouches
<1>8. ASSUME commit(s) \/ abort(s) PROVE OnlyTouches(s)
  BY <1>8, <1>a, ForgetAt DEF commit, abort, Commit, Rollback, OnlyTouches
<1> QED
  BY <1>1, <1>2, <1>3, <1>4, <1>5, <1>6, <1>7, <1>8

\* A step of the API or of a worker: of the sessions it touches at most one,
\* and that is a handler's.
LEMMA RequestTouches ==
    ASSUME TypeOK,
           \/ Handlers
           \/ \E w \in Workers : Process(w)
           \/ \E w \in Workers, k \in Slots : Execution(w, k)
    PROVE  UNCHANGED sessions \/ \E s \in Sessions : OnlyTouches(s)
<1> USE DEF TypeOK
<1>1. CASE Handlers
  <2>1. ASSUME NEW s \in Sessions, NEW t \in Tasks, Create(s, t) \/ Cancel(s, t)
        PROVE  OnlyTouches(s)
    BY <2>1, HandlerTouches DEF Create, Cancel
  <2>2. ASSUME NEW s \in Sessions, Respond(s) \/ HandlerError(s) PROVE OnlyTouches(s)
    BY <2>2, HandlerTouches DEF Respond, HandlerError
  <2>3. ASSUME NEW s \in Sessions, Timeout(s) PROVE UNCHANGED sessions
    BY <2>3 DEF Timeout
  <2>4. ASSUME NEW s \in Sessions, NEW w \in Workers, PostHeartbeat(s, w)
        PROVE  OnlyTouches(s)
    BY <2>4, HandlerTouches DEF PostHeartbeat
  <2> QED
    BY <1>1, <2>1, <2>2, <2>3, <2>4 DEF Handlers
<1>2. ASSUME NEW w \in Workers, Process(w)
      PROVE  UNCHANGED sessions \/ \E s \in Sessions : OnlyTouches(s)
  <2>1. CASE Register(w)
    BY <2>1, HandlerTouches DEF Register
  <2>2. CASE Stop(w) \/ Heartbeat(w) \/ Expire(w) \/ Listen(w)
    BY <2>2 DEF Stop, Heartbeat, Expire, Listen, stop, send_heartbeat, heartbeat_expires,
                _preemption_listener
  <2> QED
    BY <1>2, <2>1, <2>2 DEF Process
<1>3. ASSUME NEW w \in Workers, NEW k \in Slots, Execution(w, k)
      PROVE  UNCHANGED sessions \/ \E s \in Sessions : OnlyTouches(s)
  <2>1. CASE ReportRunning(w, k)
    BY <2>1, HandlerTouches DEF ReportRunning
  <2>2. CASE ReportCompletion(w, k)
    BY <2>2, HandlerTouches DEF ReportCompletion
  <2>3. CASE ReportFailure(w, k)
    BY <2>3, HandlerTouches DEF ReportFailure
  <2>4. CASE Poll(w, k) \/ Fetch(w, k) \/ FetchError(w, k) \/ ReportLost(w, k)
             \/ Run(w, k) \/ Finally(w, k) \/ RedisError(w, k)
    BY <2>4 DEF Poll, Fetch, FetchError, ReportLost, Run, Finally, RedisError, poll_assignment,
                fetch_task, fetch_error, run_task, finally, add_active_task_error,
                remove_active_task_error
  <2> QED
    BY <1>3, <2>1, <2>2, <2>3, <2>4 DEF Execution
<1> QED
  BY <1>1, <1>2, <1>3

\* The API and the workers leave the sessions and the memory of the two loops
\* alone.
LEMMA LoopsUntouched ==
    ASSUME TypeOK, NEW p \in {"scheduler", "detector"},
           \/ Handlers
           \/ \E w \in Workers : Process(w)
           \/ \E w \in Workers, k \in Slots : Execution(w, k)
    PROVE  /\ session_tasks'[p] = session_tasks[p]
           /\ session_workers'[p] = session_workers[p]
           /\ UNCHANGED <<sched, fd>>
<1>1. session_tasks'[p] = session_tasks[p] /\ session_workers'[p] = session_workers[p]
  BY RequestTouches, SessionsAssumption DEF OnlyTouches, Actors, sessions
<1>2. UNCHANGED <<sched, fd>>
  <2>1. CASE Handlers
    BY <2>1 DEF Handlers, Create, Cancel, Respond, HandlerError, Timeout, PostHeartbeat
  <2>2. ASSUME NEW w \in Workers, Process(w) PROVE UNCHANGED <<sched, fd>>
    BY <2>2 DEF Process, Register, Stop, Heartbeat, Expire, Listen
  <2>3. ASSUME NEW w \in Workers, NEW k \in Slots, Execution(w, k)
        PROVE  UNCHANGED <<sched, fd>>
    BY <2>3 DEF Execution, Poll, Fetch, FetchError, ReportRunning, ReportCompletion,
                ReportFailure, ReportLost, Run, Finally, RedisError
  <2> QED
    BY <2>1, <2>2, <2>3
<1> QED
  BY <1>1, <1>2

\* The scheduler's steps write into the scheduler's session.
LEMMA SchedulerTouches ==
    ASSUME StoresTypeOK, Reconcile \/ ReconcileError \/ Tick \/ TickError
    PROVE  OnlyTouches("scheduler")
<1> USE DEF me
<1>a. me \in Actors
  BY DEF Actors
<1>b. \A b \in Actors \ {me} : /\ \A u, x : WithTask(me, u, x)[b] = session_tasks[b]
                               /\ \A v, x : WithWorker(me, v, x)[b] = session_workers[b]
  BY <1>a, WithTouches
<1>c. ASSUME UNCHANGED sessions PROVE OnlyTouches(me)
  BY <1>c DEF sessions, OnlyTouches
<1>d. ASSUME Forget(me) PROVE OnlyTouches(me)
  BY <1>a, <1>d, ForgetAt DEF OnlyTouches
<1>e. ASSUME NEW f, session_tasks' = [session_tasks EXCEPT ![me] = f]
      PROVE  \A b \in Actors \ {me} : session_tasks'[b] = session_tasks[b]
  BY <1>e DEF StoresTypeOK
<1>1. CASE Reconcile \/ ReconcileError
  <2>1. CASE _reconcile_pending_tasks \/ enqueue_missing
    BY <2>1, <1>c DEF _reconcile_pending_tasks, enqueue_missing
  <2>2. CASE _reconcile_scheduled_tasks
    BY <2>2, <1>e DEF _reconcile_scheduled_tasks, OnlyTouches
  <2>3. ASSUME NEW t \in Tasks, repush(t) PROVE OnlyTouches(me)
    BY <2>3, <1>b DEF repush, OnlyTouches
  <2>4. CASE reconciled \/ reconcile_abort
    BY <2>4, <1>d DEF reconciled, reconcile_abort, Rollback
  <2> QED
    BY <1>1, <2>1, <2>2, <2>3, <2>4 DEF Reconcile, ReconcileError
<1>2. CASE Tick \/ TickError
  <2>1. CASE _tick
    BY <2>1, <1>c DEF _tick, rows, sessions
  <2>1b. CASE _schedule_batch
    BY <2>1b, <1>c DEF _schedule_batch
  <2>2. ASSUME NEW t \in Tasks, skip(t) \/ no_capacity(t) PROVE OnlyTouches(me)
    BY <2>2, <1>c DEF skip, no_capacity
  <2>3. ASSUME NEW t, NEW w, Placed(t, w) PROVE OnlyTouches(me)
    BY <2>3, <1>b DEF Placed, OnlyTouches
  <2>4. ASSUME NEW t \in Tasks, _try_schedule_task(t) PROVE OnlyTouches(me)
    BY <2>4, <2>3 DEF _try_schedule_task
  <2>5. ASSUME NEW t \in Tasks, preempt(t) PROVE OnlyTouches(me)
    <3>1. PICK p \in _find_preemption_candidates(t) :
            /\ session_tasks' = [session_tasks EXCEPT ![me] =
                    [u \in Tasks |-> IF u \in p.victims \cup {t} /\ @[u] = None
                                     THEN [old |-> tasks[u], new |-> tasks[u]] ELSE @[u]]]
            /\ session_workers' = WithWorker(me, p.worker, WorkerObject(me, p.worker))
      BY <2>5 DEF preempt
    <3> QED
      BY <1>b, <1>e, <3>1 DEF OnlyTouches
  <2>6. ASSUME NEW t \in Tasks, evict(t) PROVE OnlyTouches(me)
    BY <2>6, <1>b DEF evict, OnlyTouches
  <2>7. CASE place
    BY <2>7, <2>3 DEF place
  <2>8. CASE batch_commit \/ batch_abort
    BY <2>8, <1>d DEF batch_commit, batch_abort, Commit, Rollback
  <2> QED
    BY <1>2, <2>1, <2>1b, <2>2, <2>4, <2>5, <2>6, <2>7, <2>8 DEF Tick, TickError
<1> QED
  BY <1>1, <1>2

\* The failure detector's steps write into its own session.
LEMMA DetectorTouches ==
    ASSUME StoresTypeOK, Detect \/ DetectError
    PROVE  OnlyTouches("detector")
<1> USE DEF detector
<1>a. detector \in Actors
  BY DEF Actors
<1>b. \A b \in Actors \ {detector} :
        /\ \A u, x : WithTask(detector, u, x)[b] = session_tasks[b]
        /\ \A v, x : WithWorker(detector, v, x)[b] = session_workers[b]
  BY <1>a, WithTouches
<1>c. ASSUME UNCHANGED sessions PROVE OnlyTouches(detector)
  BY <1>c DEF sessions, OnlyTouches
<1>d. ASSUME Forget(detector) PROVE OnlyTouches(detector)
  BY <1>a, <1>d, ForgetAt DEF OnlyTouches
<1>1. CASE _check_all_workers
  <2>1. PICK f : session_workers' = [session_workers EXCEPT ![detector] = f]
    BY <1>1 DEF _check_all_workers
  <2> QED
    BY <1>1, <2>1 DEF _check_all_workers, OnlyTouches, StoresTypeOK
<1>2. CASE handled
  BY <1>2, <1>c DEF handled
<1>3. ASSUME NEW w \in Workers, is_alive(w) PROVE OnlyTouches(detector)
  BY <1>3, <1>c DEF is_alive
<1>4. ASSUME NEW w \in Workers, _handle_dead_worker(w) PROVE OnlyTouches(detector)
  <2>1. PICK f, x : /\ session_tasks' = [session_tasks EXCEPT ![detector] = f]
                    /\ session_workers' = WithWorker(detector, w, x)
    BY <1>4 DEF _handle_dead_worker
  <2> QED
    BY <1>b, <2>1 DEF OnlyTouches, StoresTypeOK
<1>5. ASSUME NEW t \in Tasks, requeue(t) \/ exhausted(t) PROVE OnlyTouches(detector)
  BY <1>5, <1>b DEF requeue, exhausted, OnlyTouches
<1>6. ASSUME NEW t \in Tasks, raise(t) PROVE OnlyTouches(detector)
  BY <1>6, <1>d DEF raise, Rollback
<1>7. CASE fd_commit \/ fd_abort
  BY <1>7, <1>d DEF fd_commit, fd_abort, Commit, Rollback
<1> QED
  BY <1>1, <1>2, <1>3, <1>4, <1>5, <1>6, <1>7 DEF Detect, DetectError

\* The session a handler has not opened, or has closed, holds no objects.
IdleIsEmpty ==
    \A s \in Sessions : api[s].op = "idle" =>
        /\ \A t \in Tasks : session_tasks[s][t] = None
        /\ \A w \in Workers : session_workers[s][w] = None

\* Every request starts with a fresh session (db/session.py, get_db).
LEMMA IdleStep == TypeOK /\ IdleIsEmpty /\ [Next]_vars => IdleIsEmpty'
<1> SUFFICES ASSUME TypeOK, IdleIsEmpty, [Next]_vars, NEW s \in Sessions,
                    api'[s].op = "idle"
             PROVE  /\ \A t \in Tasks : session_tasks'[s][t] = None
                    /\ \A w \in Workers : session_workers'[s][w] = None
  BY DEF IdleIsEmpty
<1> USE DEF TypeOK
<1> DEFINE Empty == /\ \A t \in Tasks : session_tasks'[s][t] = None
                    /\ \A w \in Workers : session_workers'[s][w] = None
<1>a. s \in Actors /\ s # "scheduler" /\ s # "detector"
  BY SessionsAssumption DEF Actors
<1>b. ASSUME api[s].op = "idle", /\ session_tasks'[s] = session_tasks[s]
                                 /\ session_workers'[s] = session_workers[s]
      PROVE  Empty
  BY <1>b DEF IdleIsEmpty
<1>c. ASSUME UNCHANGED <<api, sessions>> PROVE Empty
  BY <1>b, <1>c DEF sessions
<1>d. ASSUME NEW z \in Sessions, OnlyTouches(z),
             NEW op \in Operation, NEW c, Open(z, op, c)
      PROVE  Empty
  <2>1. api'[z].op = op /\ op # "idle"
    BY <1>d DEF Open, ApiTypeOK, Operation
  <2>2. s # z
    BY <2>1
  <2>3. api'[s] = api[s]
    BY <1>d, <2>2 DEF Open, ApiTypeOK
  <2> QED
    BY <1>a, <1>b, <1>d, <2>2, <2>3 DEF OnlyTouches
<1>e. ASSUME NEW z \in Sessions, commit(z) \/ abort(z) PROVE Empty
  <2>1. z \in Actors /\ Forget(z)
    BY <1>e DEF commit, abort, Commit, Rollback, Actors
  <2>2. CASE s = z
    BY <2>1, <2>2, ForgetAt
  <2>3. CASE s # z
    <3>1. api'[s] = api[s]
      BY <1>e, <2>3 DEF commit, abort, ApiTypeOK
    <3> QED
      BY <1>a, <1>b, <2>1, <2>3, <3>1, ForgetAt
  <2> QED
    BY <2>2, <2>3
<1>f. ASSUME NEW x, OnlyTouches(x), x \in {"scheduler", "detector"}, UNCHANGED api PROVE Empty
  BY <1>a, <1>b, <1>f DEF OnlyTouches
<1> SUFFICES Empty
  OBVIOUS
<1> HIDE DEF Empty
<1>1. ASSUME NEW z \in Sessions, NEW t \in Tasks, Create(z, t) \/ Cancel(z, t) PROVE Empty
  <2>1. OnlyTouches(z)
    BY <1>1, HandlerTouches DEF Create, Cancel
  <2>2. Open(z, "create", None) \/ Open(z, "cancel", None)
    BY <1>1 DEF Create, Cancel, create_task, cancel_task
  <2> QED
    BY <1>d, <2>1, <2>2 DEF Operation
<1>2. ASSUME NEW z \in Sessions, Respond(z) \/ HandlerError(z) PROVE Empty
  BY <1>2, <1>e DEF Respond, HandlerError
<1>3. ASSUME NEW z \in Sessions, Timeout(z) PROVE Empty
  <2>1. UNCHANGED sessions /\ api'[s].op = api[s].op
    BY <1>3 DEF Timeout, ApiTypeOK
  <2> QED
    BY <2>1, <1>b DEF sessions
<1>4. ASSUME NEW z \in Sessions, NEW w \in Workers, PostHeartbeat(z, w) PROVE Empty
  BY <1>4, <1>d, HandlerTouches DEF PostHeartbeat, heartbeat, Operation
<1>5. CASE Loops
  <2>1. CASE Reconcile \/ ReconcileError \/ Tick \/ TickError
    <3>1. UNCHANGED api
      BY <2>1 DEF Reconcile, ReconcileError, Tick, TickError, apiVars
    <3>2. OnlyTouches("scheduler")
      BY <2>1, SchedulerTouches
    <3> QED
      BY <1>f, <3>1, <3>2
  <2>2. CASE Detect \/ DetectError
    <3>1. UNCHANGED api
      BY <2>2 DEF Detect, DetectError, apiVars
    <3>2. OnlyTouches("detector")
      BY <2>2, DetectorTouches
    <3> QED
      BY <1>f, <3>1, <3>2
  <2>3. CASE MasterRestart
    BY <2>3, <1>a DEF MasterRestart, Empty
  <2> QED
    BY <1>5, <2>1, <2>2, <2>3 DEF Loops
<1>6. ASSUME NEW w \in Workers, Process(w) PROVE Empty
  <2>1. CASE Register(w)
    BY <2>1, <1>d, HandlerTouches DEF Register, register_worker, Operation
  <2>2. CASE Stop(w)
    <3>1. UNCHANGED sessions /\ api'[s].op = api[s].op
      BY <2>2 DEF Stop, stop, ApiTypeOK
    <3> QED
      BY <3>1, <1>b DEF sessions
  <2>3. CASE Heartbeat(w) \/ Expire(w) \/ Listen(w)
    BY <2>3, <1>c DEF Heartbeat, Expire, Listen, send_heartbeat, heartbeat_expires,
                _preemption_listener, apiVars
  <2> QED
    BY <1>6, <2>1, <2>2, <2>3 DEF Process
<1>7. ASSUME NEW w \in Workers, NEW k \in Slots, Execution(w, k) PROVE Empty
  <2>1. CASE ReportRunning(w, k)
    BY <2>1, <1>c, <1>d, HandlerTouches DEF ReportRunning, update_task_state, Operation, apiVars
  <2>2. CASE ReportCompletion(w, k)
    BY <2>2, <1>c, <1>d, HandlerTouches DEF ReportCompletion, complete_task, Operation, apiVars
  <2>3. CASE ReportFailure(w, k)
    BY <2>3, <1>c, <1>d, HandlerTouches DEF ReportFailure, fail_task, Operation, apiVars
  <2>4. CASE Poll(w, k) \/ Fetch(w, k) \/ FetchError(w, k) \/ ReportLost(w, k)
             \/ Run(w, k) \/ Finally(w, k) \/ RedisError(w, k)
    BY <2>4, <1>c DEF Poll, Fetch, FetchError, ReportLost, Run, Finally, RedisError, poll_assignment,
                fetch_task, fetch_error, run_task, finally, add_active_task_error,
                remove_active_task_error, apiVars
  <2> QED
    BY <1>7, <2>1, <2>2, <2>3, <2>4 DEF Execution
<1>8. CASE UNCHANGED vars
  <2>1. UNCHANGED <<api, sessions>>
    BY <1>8 DEF vars, sessions
  <2> QED
    BY <1>c, <2>1
<1> QED
  BY <1>1, <1>2, <1>3, <1>4, <1>5, <1>6, <1>7, <1>8 DEF Next, Handlers

\* A handler never starts on the objects of an earlier request.
LEMMA IdleSound == Spec => []IdleIsEmpty
<1>1. Init => IdleIsEmpty
  BY DEF Init, StoresInit, IdleIsEmpty, Actors
<1>2. TypeOK /\ IdleIsEmpty /\ [Next]_vars => IdleIsEmpty'
  BY IdleStep
<1> QED
  BY <1>1, <1>2, TypeCorrect, PTL DEF Spec
====
