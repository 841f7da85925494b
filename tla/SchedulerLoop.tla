---- MODULE SchedulerLoop ----
(***************************************************************************)
(* The scheduler of the leader: scheduler_loop.py with the placement rule  *)
(* it uses (spread_schedule) and the preemption engine.                    *)
(*                                                                         *)
(* One tick pops a batch of ids from Redis, opens a session, places the    *)
(* tasks one by one and commits once at the end.  The ids of assigned      *)
(* tasks and the preemption signals reach Redis before that commit.        *)
(***************************************************************************)
EXTENDS Stores, FiniteSetsExt

CONSTANTS
    BatchSize,        \* settings.scheduler_batch_size
    ReconcileEvery    \* ticks between reconciliations (60 in the code)

ASSUME SchedulerAssumption == BatchSize \in Nat \ {0} /\ ReconcileEvery \in Nat \ {0}

VARIABLE sched
(* phase    what the loop does next                                        *)
(* ticks    tick_count % ReconcileEvery                                    *)
(* batch    the popped ids not yet dealt with                              *)
(* caps     the list of WorkerCapacity copies; None: worker not listed     *)
(* plan     the PreemptionPlan being executed: task, worker, victims left  *)
(* found    the rows a reconciliation has read and not yet dealt with      *)

NoPlan == [task |-> None, worker |-> None, victims |-> {}]

Phase == {"reconcile_pending", "enqueue_missing", "reconcile_scheduled",
          "repush", "idle", "popped", "batch", "evict"}

SchedTypeOK ==
    /\ sched \in [phase : Phase,
                  ticks : 0..(ReconcileEvery - 1),
                  batch : SUBSET Tasks,
                  caps : [Workers -> Int \cup {None}],
                  plan : [task : Tasks \cup {None},
                          worker : Workers \cup {None},
                          victims : SUBSET Tasks],
                  found : SUBSET Tasks]
    /\ sched.phase = "evict" => sched.plan.task \in Tasks /\ sched.plan.worker \in Workers

NoCaps == [w \in Workers |-> None]

\* run() reconciles before its first tick.
SchedStart == [phase |-> "reconcile_pending", ticks |-> 0, batch |-> {},
               caps |-> NoCaps, plan |-> NoPlan, found |-> {}]

me == "scheduler"

-----------------------------------------------------------------------------
(* Reconciliation *)

_reconcile_pending_tasks ==
    /\ sched.phase = "reconcile_pending"
    /\ sched' = [sched EXCEPT !.phase = "enqueue_missing",
                              !.found = {t \in Tasks : tasks[t].state = "PENDING"}]
    /\ UNCHANGED <<rows, sessions, redis>>

\* ZSCORE and ZADD for every row read; ids already queued keep their score.
enqueue_missing ==
    /\ sched.phase = "enqueue_missing"
    /\ queue' = queue \cup sched.found
    /\ sched' = [sched EXCEPT !.phase = "reconcile_scheduled", !.found = {}]
    /\ UNCHANGED <<rows, sessions, assignments, preempts, heartbeats>>

_reconcile_scheduled_tasks ==
    /\ sched.phase = "reconcile_scheduled"
    /\ sched' = [sched EXCEPT
                    !.phase = "repush",
                    !.found = {t \in Tasks : /\ tasks[t].state = "SCHEDULED"
                                             /\ tasks[t].worker # None}]
    /\ session_tasks' = [session_tasks EXCEPT ![me] =
        [t \in Tasks |-> IF tasks[t].state = "SCHEDULED" /\ tasks[t].worker # None
                         THEN [old |-> tasks[t], new |-> tasks[t]] ELSE None]]
    /\ UNCHANGED <<rows, session_workers, redis>>

\* An ACTIVE worker gets the assignment again, lost or not.  Otherwise the
\* task is reset in the session only, and its id is queued.
repush(t) ==
    /\ sched.phase = "repush"
    /\ t \in sched.found
    /\ LET row == TaskObject(me, t) IN
       \/ /\ workers[row.worker].status = "ACTIVE"
          /\ assign_task(row.worker, t)
          /\ UNCHANGED <<queue, session_tasks>>
       \/ /\ workers[row.worker].status # "ACTIVE"
          /\ queue' = queue \cup {t}
          /\ session_tasks' =
                WithTask(me, t, [row EXCEPT !.state = "PENDING", !.worker = None])
          /\ UNCHANGED assignments
    /\ sched' = [sched EXCEPT !.found = @ \ {t}]
    /\ UNCHANGED <<rows, session_workers, preempts, heartbeats>>

\* The session closes without a commit.
reconciled ==
    /\ sched.phase = "repush"
    /\ sched.found = {}
    /\ Rollback(me)
    /\ sched' = [sched EXCEPT !.phase = "idle"]
    /\ UNCHANGED redis

\* Each reconciliation catches and logs its own exceptions, and the loop goes
\* on.  Ids already pushed stay pushed.
reconcile_abort ==
    /\ sched.phase \in {"reconcile_pending", "enqueue_missing",
                        "reconcile_scheduled", "repush"}
    /\ Rollback(me)
    /\ \E F \in SUBSET sched.found :
        queue' = IF sched.phase = "enqueue_missing" THEN queue \cup F ELSE queue
    /\ sched' = [sched EXCEPT
                    !.phase = IF @ \in {"reconcile_pending", "enqueue_missing"}
                              THEN "reconcile_scheduled" ELSE "idle",
                    !.found = {}]
    /\ UNCHANGED <<assignments, preempts, heartbeats>>

-----------------------------------------------------------------------------
(* One tick *)

\* Mutant: reconciliation only at start-up.
TickDone_NoReconcile ==
    [phase |-> "idle", ticks |-> 0,
     batch |-> {}, caps |-> NoCaps, plan |-> NoPlan, found |-> {}]

\* tick_count += 1, and a reconciliation every ReconcileEvery ticks.
TickDone ==
    LET n == (sched.ticks + 1) % ReconcileEvery IN
    [phase |-> IF n = 0 THEN "reconcile_pending" ELSE "idle", ticks |-> n,
     batch |-> {}, caps |-> NoCaps, plan |-> NoPlan, found |-> {}]

_tick ==
    /\ sched.phase = "idle"
    /\ \/ /\ queue = {}
          /\ sched' = TickDone
          /\ UNCHANGED queue
       \/ \E B \in Batches(BatchSize) :
          /\ queue # {}
          /\ queue' = queue \ B
          /\ sched' = [sched EXCEPT !.phase = "popped", !.batch = B]
    /\ UNCHANGED <<rows, sessions, assignments, preempts, heartbeats>>

ActiveWorkers == {w \in Workers : workers[w].status = "ACTIVE"}

_get_available_workers ==
    [w \in Workers |->
        IF w \in ActiveWorkers THEN workers[w].cpu_available ELSE None]

_schedule_batch ==
    /\ sched.phase = "popped"
    /\ \/ /\ ActiveWorkers = {}
          /\ queue' = queue \cup {t \in sched.batch : tasks[t].state = "PENDING"}
          /\ sched' = TickDone
       \/ /\ ActiveWorkers # {}
          /\ sched' = [sched EXCEPT !.phase = "batch", !.caps = _get_available_workers]
          /\ UNCHANGED queue
    /\ UNCHANGED <<rows, sessions, assignments, preempts, heartbeats>>

\* The next task of the batch: ids were popped in order of priority.
Turn(t) ==
    /\ sched.phase = "batch"
    /\ t \in sched.batch
    /\ \A u \in sched.batch : priority[t] >= priority[u]

\* The row is missing or no longer PENDING: the id is dropped.
skip(t) ==
    /\ Turn(t)
    /\ TaskObject(me, t).state # "PENDING"
    /\ sched' = [sched EXCEPT !.batch = @ \ {t}]
    /\ UNCHANGED <<rows, sessions, redis>>

\* spread_schedule: the fitting worker with the most headroom, least id.
spread_schedule(t) ==
    LET Fits == {w \in Workers : /\ sched.caps[w] # None
                                 /\ sched.caps[w] - resource_cpu[t] >= 0}
    IN  {w \in Fits : \A v \in Fits : \/ sched.caps[w] > sched.caps[v]
                                      \/ sched.caps[w] = sched.caps[v] /\ w <= v}

\* Mutant: the worker's row keeps its cpu.
Placed_NoDeduction(t, w) ==
    /\ session_tasks' =
        WithTask(me, t, [TaskObject(me, t) EXCEPT !.state = "SCHEDULED", !.worker = w])
    /\ session_workers' = WithWorker(me, w, WorkerObject(me, w))
    /\ assign_task(w, t)

\* SCHEDULED on w in the session; the worker's cpu deducted.
Placed(t, w) ==
    /\ session_tasks' =
        WithTask(me, t, [TaskObject(me, t) EXCEPT !.state = "SCHEDULED", !.worker = w])
    /\ session_workers' =
        WithWorker(me, w, [WorkerObject(me, w) EXCEPT
                            !.cpu_available = @ - resource_cpu[t]])
    /\ assign_task(w, t)

_try_schedule_task(t) ==
    /\ Turn(t)
    /\ TaskObject(me, t).state = "PENDING"
    /\ \E w \in spread_schedule(t) :
        /\ Placed(t, w)
        /\ sched' = [sched EXCEPT !.batch = @ \ {t},
                                  !.caps[w] = @ - resource_cpu[t]]
    /\ UNCHANGED <<rows, queue, preempts, heartbeats>>

-----------------------------------------------------------------------------
(* Preemption, when no listed worker has room *)

\* Mutant: no filter on priority.
Evictable_Any(w, p) ==
    {v \in Tasks : /\ FlushedTask(me, v).worker = w
                   /\ FlushedTask(me, v).state = "RUNNING"}

\* The RUNNING tasks of w a task of priority p may evict.
Evictable(w, p) ==
    {v \in Tasks : /\ FlushedTask(me, v).worker = w
                   /\ FlushedTask(me, v).state = "RUNNING"
                   /\ priority[v] < p}

FreedCpu(w, V) ==
    WorkerObject(me, w).cpu_available + MapThenSumSet(LAMBDA v : resource_cpu[v], V)

\* The victims the greedy loop may end with on w: the lowest priorities
\* first (any order among equals), until there is room and no further.
VictimSets(w, t) ==
    LET E == Evictable(w, priority[t]) IN
    {V \in SUBSET E :
        /\ E # {}
        /\ \A v \in V, u \in E \ V : priority[v] <= priority[u]
        /\ FreedCpu(w, V) >= resource_cpu[t]
        /\ \/ V = {}
           \/ \E last \in V : /\ \A v \in V : priority[v] <= priority[last]
                              /\ FreedCpu(w, V \ {last}) < resource_cpu[t]}

\* Least waste wins; FlushedWorker is what the query for ACTIVE rows sees.
_find_preemption_candidates(t) ==
    LET Active == {w \in Workers : FlushedWorker(me, w).status = "ACTIVE"} IN
    {p \in [task : {t}, worker : Active, victims : SUBSET Tasks] :
        /\ p.victims \in VictimSets(p.worker, t)
        /\ \A w \in Active \ {p.worker} :
            \/ VictimSets(w, t) = {}
            \/ \E V \in VictimSets(w, t) :
                FreedCpu(p.worker, p.victims) <= FreedCpu(w, V)}

NeedsPreemption(t) ==
    /\ Turn(t)
    /\ TaskObject(me, t).state = "PENDING"
    /\ spread_schedule(t) = {}

\* The plan holds its worker, its victims and the task as they were read.
preempt(t) ==
    /\ NeedsPreemption(t)
    /\ \E p \in _find_preemption_candidates(t) :
        /\ sched' = [sched EXCEPT !.phase = "evict", !.plan = p, !.batch = @ \ {t}]
        /\ session_tasks' = [session_tasks EXCEPT ![me] =
            [u \in Tasks |-> IF u \in p.victims \cup {t} /\ @[u] = None
                             THEN [old |-> tasks[u], new |-> tasks[u]] ELSE @[u]]]
        /\ session_workers' = WithWorker(me, p.worker, WorkerObject(me, p.worker))
    /\ UNCHANGED <<rows, redis>>

\* Re-enqueue: no capacity at all.
no_capacity(t) ==
    /\ NeedsPreemption(t)
    /\ _find_preemption_candidates(t) = {}
    /\ queue' = queue \cup {t}
    /\ sched' = [sched EXCEPT !.batch = @ \ {t}]
    /\ UNCHANGED <<rows, sessions, assignments, preempts, heartbeats>>

\* A victim whose retries are used up stays PREEMPTED, with its worker.
Preempted(row, t) ==
    IF HasRetries(row, t) THEN Requeued(row) ELSE [row EXCEPT !.state = "PREEMPTED"]

\* One turn of the loop over plan.victims in _execute_preemption.
evict(v) ==
    LET w == sched.plan.worker  row == TaskObject(me, v) IN
    /\ sched.phase = "evict"
    /\ v \in sched.plan.victims
    /\ \A u \in sched.plan.victims : priority[v] <= priority[u]
    /\ validate_transition(row.state, "PREEMPTED")
    /\ send_preempt_signal(w, v)
    /\ session_workers' =
        WithWorker(me, w, [WorkerObject(me, w) EXCEPT
                            !.cpu_available = @ + resource_cpu[v]])
    /\ session_tasks' = WithTask(me, v, Preempted(row, v))
    /\ queue' = IF HasRetries(row, v) THEN queue \cup {v} ELSE queue
    /\ sched' = [sched EXCEPT !.plan.victims = @ \ {v}]
    /\ UNCHANGED <<rows, assignments, heartbeats>>

\* The end of _execute_preemption.  The list sched.caps is not updated.
place ==
    /\ sched.phase = "evict"
    /\ sched.plan.victims = {}
    /\ Placed(sched.plan.task, sched.plan.worker)
    /\ sched' = [sched EXCEPT !.phase = "batch", !.plan = NoPlan]
    /\ UNCHANGED <<rows, queue, preempts, heartbeats>>

-----------------------------------------------------------------------------

batch_commit ==
    /\ sched.phase = "batch"
    /\ sched.batch = {}
    /\ Commit(me)
    /\ sched' = TickDone
    /\ UNCHANGED redis

\* An exception inside the batch: _tick logs it.  The popped ids are gone
\* from Redis, what was pushed to Redis stays.
batch_abort ==
    /\ sched.phase \in {"popped", "batch", "evict"}
    /\ Rollback(me)
    /\ sched' = TickDone
    /\ UNCHANGED redis
====
