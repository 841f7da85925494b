---- MODULE LoopProofs ----
(***************************************************************************)
(* Theorems about the two background loops of the master in Cluster.        *)
(*                                                                         *)
(* The scheduler: whatever a batch evicts, it evicts for a task of strictly *)
(* higher priority that it places there.  The invariant says what the       *)
(* session holds in each phase of the loop.  It has to: the query for       *)
(* victims sees the session's own changes, so that a task is not evicted    *)
(* twice, or after it was placed, follows from what the batch did before.   *)
(*                                                                         *)
(* The failure detector: the transaction that declares a worker DEAD        *)
(* settles every task the pass found there.  The step of the theorem is a   *)
(* commit, so the invariant speaks of what the open sessions hold: of every *)
(* session but the detector's, that it never turns a status into DEAD; of   *)
(* the detector's, that the tasks it has dealt with are changed, and out of *)
(* RUNNING and SCHEDULED.                                                   *)
(***************************************************************************)
EXTENDS ClusterProofs

-----------------------------------------------------------------------------
(* The scheduler's session *)

Object(t) == session_tasks["scheduler"][t]

\* An object the batch has dealt with: it was placed, or evicted, or both.
Changed(o) ==
    /\ o.old.state \in {"PENDING", "RUNNING"}
    /\ o.new.state \notin {o.old.state, "RUNNING"}

\* A victim of the plan that is still to be evicted.
Doomed(v) ==
    /\ Object(v) # None
    /\ Object(v).old.state = "RUNNING"
    /\ Object(v).new.state = "RUNNING"
    /\ Object(v).old.worker = sched.plan.worker
    /\ priority[v] < priority[sched.plan.task]

\* The session while the batch has no plan to execute.
BatchInv == \A t \in Tasks : Object(t) # None => Changed(Object(t))

\* The session while _execute_preemption runs.
PlanInv ==
    /\ sched.plan.task \notin sched.plan.victims
    /\ Object(sched.plan.task) # None
    /\ Object(sched.plan.task).old.state \in {"PENDING", "RUNNING"}
    /\ Object(sched.plan.task).new.state = "PENDING"
    /\ \A v \in Tasks : v \in sched.plan.victims => Doomed(v)
    /\ \A t \in Tasks : (/\ t \notin sched.plan.victims
                         /\ t # sched.plan.task
                         /\ Object(t) # None) => Changed(Object(t))

\* The session of a reconciliation.
RepushInv ==
    \A t \in Tasks : /\ t \in sched.found => Object(t) # None
                     /\ Object(t) # None => Object(t).old.state = "SCHEDULED"

SessionInv ==
    /\ sched.phase \notin {"repush", "batch", "evict"} => \A t \in Tasks : Object(t) = None
    /\ sched.phase = "repush" => RepushInv
    /\ sched.phase = "batch" => BatchInv
    /\ sched.phase = "evict" => PlanInv

\* t makes the eviction of v right: it is placed where v was, or about to be.
Justifies(t, v) ==
    /\ priority[t] > priority[v]
    /\ \/ /\ sched.phase = "evict"
          /\ sched.plan.task = t
          /\ sched.plan.worker = Object(v).old.worker
       \/ /\ Object(t) # None
          /\ Object(t).new.state = "SCHEDULED"
          /\ Object(t).new.worker = Object(v).old.worker

Evicted(o) == o # None /\ o.old.state = "RUNNING" /\ o.new.state # "RUNNING"

EvictionsInv ==
    \A v \in Tasks : Evicted(Object(v)) => \E t \in Tasks : Justifies(t, v)

SInv == TypeOK /\ SessionInv /\ EvictionsInv

-----------------------------------------------------------------------------
(* Steps that leave the session alone, and its end *)

\* The session and the plan stay as they are.
LEMMA KeepSession ==
    ASSUME SessionInv, EvictionsInv,
           session_tasks'["scheduler"] = session_tasks["scheduler"],
           sched'.phase = sched.phase, sched'.plan = sched.plan, sched'.found = sched.found
    PROVE  SessionInv' /\ EvictionsInv'
<1>1. \A t \in Tasks : Object(t)' = Object(t)
  BY DEF Object
<1>2. SessionInv'
  BY <1>1 DEF SessionInv, RepushInv, BatchInv, PlanInv, Doomed, Object
<1>3. EvictionsInv'
  BY <1>1 DEF EvictionsInv, Justifies
<1> QED
  BY <1>2, <1>3

\* An empty session satisfies the invariant of every phase but two.
LEMMA EmptySession ==
    ASSUME \A t \in Tasks : session_tasks'["scheduler"][t] = None,
           sched'.phase \notin {"repush", "evict"}
    PROVE  SessionInv' /\ EvictionsInv'
<1>1. \A t \in Tasks : Object(t)' = None
  BY DEF Object
<1>2. SessionInv'
  BY <1>1 DEF SessionInv, BatchInv
<1>3. EvictionsInv'
  BY <1>1 DEF EvictionsInv, Evicted
<1> QED
  BY <1>2, <1>3

\* A commit or a rollback empties the session.
LEMMA ForgetSession ==
    ASSUME StoresTypeOK, Forget("scheduler"), sched'.phase \notin {"repush", "evict"}
    PROVE  SessionInv' /\ EvictionsInv'
<1>1. \A t \in Tasks : session_tasks'["scheduler"][t] = None
  BY ForgetAt DEF Actors
<1> QED
  BY <1>1, EmptySession

\* A tick ends in a phase whose session is empty.
LEMMA TickDonePhase == TickDone.phase \in {"reconcile_pending", "idle"}
BY DEF TickDone

-----------------------------------------------------------------------------
(* Reconciliation reads and resets SCHEDULED rows only *)

\* Each step of _reconcile_pending_tasks and _reconcile_scheduled_tasks.
LEMMA ReconcileSession ==
    ASSUME StoresTypeOK, SchedTypeOK, SessionInv, EvictionsInv,
           Reconcile \/ ReconcileError
    PROVE  SessionInv' /\ EvictionsInv'
<1> USE DEF me
<1>a. "scheduler" \in Actors
  BY DEF Actors
<1>1. CASE _reconcile_pending_tasks \/ enqueue_missing
  <2>1. /\ sched.phase \in {"reconcile_pending", "enqueue_missing"}
        /\ sched'.phase \notin {"repush", "evict"} /\ UNCHANGED session_tasks
    BY <1>1 DEF _reconcile_pending_tasks, enqueue_missing, SchedTypeOK, sessions
  <2>2. \A t \in Tasks : session_tasks'["scheduler"][t] = None
    BY <2>1 DEF SessionInv, Object
  <2> QED
    BY <2>1, <2>2, EmptySession
<1>2. CASE _reconcile_scheduled_tasks
  <2>1. sched'.phase = "repush" /\ sched'.found = {t \in Tasks : /\ tasks[t].state = "SCHEDULED"
                                                                 /\ tasks[t].worker # None}
    BY <1>2 DEF _reconcile_scheduled_tasks, SchedTypeOK
  <2>2. \A t \in Tasks : session_tasks'["scheduler"][t] =
            IF tasks[t].state = "SCHEDULED" /\ tasks[t].worker # None
            THEN [old |-> tasks[t], new |-> tasks[t]] ELSE None
    BY <1>2, <1>a DEF _reconcile_scheduled_tasks, StoresTypeOK
  <2>3. ASSUME NEW t \in Tasks
        PROVE  /\ t \in sched'.found => session_tasks'["scheduler"][t] # None
               /\ session_tasks'["scheduler"][t] # None =>
                    session_tasks'["scheduler"][t].old.state = "SCHEDULED"
    <3>1. [old |-> tasks[t], new |-> tasks[t]] # None
      BY NoneAssumption DEF StoresTypeOK, Loaded
    <3>2. CASE t \in sched'.found
      <4>1. session_tasks'["scheduler"][t] = [old |-> tasks[t], new |-> tasks[t]]
        BY <2>1, <2>2, <3>2
      <4>2. tasks[t].state = "SCHEDULED"
        BY <2>1, <3>2
      <4> QED
        BY <3>1, <4>1, <4>2
    <3>3. CASE t \notin sched'.found
      BY <2>1, <2>2, <3>3
    <3> QED
      BY <3>2, <3>3
  <2> QED
    BY <2>1, <2>3 DEF SessionInv, RepushInv, EvictionsInv, Evicted, Object
<1>3. ASSUME NEW t \in Tasks, repush(t) PROVE SessionInv' /\ EvictionsInv'
  <2>1. /\ sched.phase = "repush" /\ t \in sched.found
        /\ sched'.phase = "repush" /\ sched'.found = sched.found \ {t}
    BY <1>3 DEF repush, SchedTypeOK
  <2>2. RepushInv
    BY <2>1 DEF SessionInv
  <2>3. ASSUME NEW u \in Tasks
        PROVE  /\ u # t => session_tasks'["scheduler"][u] = session_tasks["scheduler"][u]
               /\ session_tasks'["scheduler"][t].old = session_tasks["scheduler"][t].old
    <3>1. CASE UNCHANGED session_tasks
      BY <3>1
    <3>2. ASSUME NEW row, session_tasks' = WithTask("scheduler", t, row)
          PROVE  /\ u # t => session_tasks'["scheduler"][u] = session_tasks["scheduler"][u]
                 /\ session_tasks'["scheduler"][t].old = session_tasks["scheduler"][t].old
      <4>1. session_tasks'["scheduler"][t] =
                [old |-> IF session_tasks["scheduler"][t] = None THEN tasks[t]
                         ELSE session_tasks["scheduler"][t].old,
                 new |-> row]
        BY <1>a, <3>2, WithTaskAt
      <4>2. session_tasks["scheduler"][t] # None
        BY <2>1, <2>2 DEF RepushInv, Object
      <4>3. u # t => session_tasks'["scheduler"][u] = session_tasks["scheduler"][u]
        BY <1>a, <3>2 DEF WithTask, StoresTypeOK
      <4> QED
        BY <4>1, <4>2, <4>3
    <3> QED
      BY <1>3, <3>1, <3>2 DEF repush
  <2>4. RepushInv'
    BY <2>1, <2>2, <2>3 DEF RepushInv, Object
  <2> QED
    BY <2>1, <2>4 DEF SessionInv, RepushInv, EvictionsInv, Evicted
<1>4. CASE reconciled \/ reconcile_abort
  <2>1. sched'.phase \notin {"repush", "evict"}
    BY <1>4 DEF reconciled, reconcile_abort, SchedTypeOK
  <2> QED
    BY <1>4, <2>1, ForgetSession DEF reconciled, reconcile_abort, Rollback
<1> QED
  BY <1>1, <1>2, <1>3, <1>4 DEF Reconcile, ReconcileError

-----------------------------------------------------------------------------
(* Placements *)

\* What a placement leaves of the session.
LEMMA PlacedObject ==
    ASSUME StoresTypeOK, NEW t \in Tasks, NEW w \in Workers, Placed(t, w)
    PROVE  /\ Object(t)' # None
           /\ Object(t)'.new.state = "SCHEDULED" /\ Object(t)'.new.worker = w
           /\ Object(t)'.old = IF Object(t) = None THEN tasks[t] ELSE Object(t).old
           /\ \A u \in Tasks \ {t} : Object(u)' = Object(u)
<1> DEFINE row == [TaskObject("scheduler", t) EXCEPT !.state = "SCHEDULED", !.worker = w]
<1>a. "scheduler" \in Actors
  BY DEF Actors
<1>b. TaskObject("scheduler", t) \in TaskRow
  BY <1>a, ObjectType
<1>1. row \in TaskRow /\ row.state = "SCHEDULED" /\ row.worker = w
  BY <1>b DEF TaskRow, TaskState
<1>2. session_tasks' = WithTask("scheduler", t, row)
  BY DEF Placed, me
<1> HIDE DEF row
<1>3. session_tasks'["scheduler"][t] =
        [old |-> IF session_tasks["scheduler"][t] = None THEN tasks[t]
                 ELSE session_tasks["scheduler"][t].old,
         new |-> row]
  BY <1>2, <1>a, WithTaskAt
<1>4. session_tasks'["scheduler"][t] # None
  <2>1. session_tasks'["scheduler"][t] \in Loaded(TaskRow)
    BY <1>1, <1>3 DEF StoresTypeOK, Loaded, Actors
  <2> QED
    BY <2>1, NoneAssumption
<1>5. \A u \in Tasks \ {t} : session_tasks'["scheduler"][u] = session_tasks["scheduler"][u]
  BY <1>2, <1>a DEF WithTask, StoresTypeOK
<1> QED
  BY <1>1, <1>3, <1>4, <1>5 DEF Object

\* A placement of a PENDING task keeps every eviction justified: the task it
\* places justified none but as the task of the plan, which it now is for good.
LEMMA PlacementJustified ==
    ASSUME StoresTypeOK, EvictionsInv, NEW t \in Tasks, NEW w \in Workers, Placed(t, w),
           TaskObject("scheduler", t).state = "PENDING",
           sched.phase = "evict" => sched.plan.task = t /\ sched.plan.worker = w
    PROVE  EvictionsInv'
<1> SUFFICES ASSUME NEW v \in Tasks, Evicted(Object(v)')
             PROVE  \E u \in Tasks : Justifies(u, v)'
  BY DEF EvictionsInv
<1>a. Object(t) = None => tasks[t].state = "PENDING"
  BY DEF Object, TaskObject
<1>b. Object(t) # None => Object(t).new.state = "PENDING"
  BY DEF Object, TaskObject
<1>1. Evicted(Object(v)) /\ Object(v)'.old = Object(v).old
  <2>1. CASE v = t
    BY <2>1, <1>a, <1>b, PlacedObject DEF Evicted
  <2>2. CASE v # t
    BY <2>2, PlacedObject
  <2> QED
    BY <2>1, <2>2
<1>2. PICK u \in Tasks : Justifies(u, v)
  BY <1>1 DEF EvictionsInv
<1>3. CASE sched.phase = "evict" /\ sched.plan.task = u /\ sched.plan.worker = Object(v).old.worker
  <2>1. u = t /\ w = Object(v).old.worker
    BY <1>3
  <2> QED
    BY <1>1, <1>2, <2>1, PlacedObject DEF Justifies
<1>4. CASE /\ Object(u) # None
           /\ Object(u).new.state = "SCHEDULED"
           /\ Object(u).new.worker = Object(v).old.worker
  <2>1. u # t
    BY <1>4, <1>b
  <2>2. Object(u)' = Object(u)
    BY <2>1, PlacedObject
  <2> QED
    BY <1>1, <1>2, <1>4, <2>2 DEF Justifies
<1> QED
  BY <1>2, <1>3, <1>4 DEF Justifies

\* _try_schedule_task
LEMMA TryScheduleSession ==
    ASSUME StoresTypeOK, SchedTypeOK, SessionInv, EvictionsInv,
           NEW t \in Tasks, _try_schedule_task(t)
    PROVE  SessionInv' /\ EvictionsInv'
<1>1. PICK w \in Workers : Placed(t, w)
  BY DEF _try_schedule_task, spread_schedule
<1>2. /\ sched.phase = "batch" /\ TaskObject("scheduler", t).state = "PENDING"
      /\ sched'.phase = "batch"
  BY DEF _try_schedule_task, Turn, SchedTypeOK, me
<1>3. BatchInv
  BY <1>2 DEF SessionInv
<1>4. Changed(Object(t)')
  <2>1. Object(t)'.old.state \in {"PENDING", "RUNNING"}
    BY <1>1, <1>2, <1>3, PlacedObject DEF BatchInv, Changed, TaskObject, Object
  <2> QED
    BY <1>1, <2>1, PlacedObject DEF Changed
<1>5. \A u \in Tasks \ {t} : Object(u)' = Object(u)
  BY <1>1, PlacedObject
<1>6. BatchInv'
  BY <1>3, <1>4, <1>5 DEF BatchInv
<1> QED
  BY <1>1, <1>2, <1>6, PlacementJustified DEF SessionInv

\* The end of _execute_preemption.
LEMMA PlaceSession ==
    ASSUME StoresTypeOK, SchedTypeOK, SessionInv, EvictionsInv, place
    PROVE  SessionInv' /\ EvictionsInv'
<1>0. /\ sched.phase = "evict" /\ sched.plan.victims = {}
      /\ sched.plan.task \in Tasks /\ sched.plan.worker \in Workers
      /\ Placed(sched.plan.task, sched.plan.worker)
      /\ sched'.phase = "batch"
  BY DEF place, SchedTypeOK
<1>1. PICK t \in Tasks, w \in Workers :
        t = sched.plan.task /\ w = sched.plan.worker /\ Placed(t, w)
  BY <1>0
<1>2. PlanInv
  BY <1>0 DEF SessionInv
<1>3. TaskObject("scheduler", t).state = "PENDING"
  BY <1>1, <1>2 DEF PlanInv, TaskObject, Object
<1>4. Changed(Object(t)')
  BY <1>1, <1>2, PlacedObject DEF PlanInv, Changed
<1>5. \A u \in Tasks \ {t} : Object(u)' = Object(u)
  BY <1>1, PlacedObject
<1>6. \A u \in Tasks \ {t} : Object(u) # None => Changed(Object(u))
  BY <1>0, <1>1, <1>2 DEF PlanInv
<1>7. BatchInv'
  BY <1>4, <1>5, <1>6 DEF BatchInv
<1> QED
  BY <1>0, <1>1, <1>3, <1>7, PlacementJustified DEF SessionInv

-----------------------------------------------------------------------------
(* Evictions *)

\* The query for victims returns RUNNING rows of lower priority that the batch
\* has not dealt with: what it has changed is not RUNNING to its own queries.
LEMMA VictimsAreNew ==
    ASSUME BatchInv, NEW t \in Tasks, NEW p \in _find_preemption_candidates(t),
           NEW v \in p.victims
    PROVE  /\ v \in Tasks
           /\ Object(v) = None
           /\ tasks[v].state = "RUNNING"
           /\ tasks[v].worker = p.worker
           /\ priority[v] < priority[t]
<1>1. v \in Evictable(p.worker, priority[t])
  BY DEF _find_preemption_candidates, VictimSets
<1>2. /\ v \in Tasks /\ priority[v] < priority[t]
      /\ FlushedTask("scheduler", v).state = "RUNNING"
      /\ FlushedTask("scheduler", v).worker = p.worker
  BY <1>1 DEF Evictable, me
<1>3. Object(v) = None
  <2> SUFFICES ASSUME Object(v) # None PROVE FALSE
    OBVIOUS
  <2>1. Changed(Object(v))
    BY <1>2 DEF BatchInv
  <2>2. FlushedTask("scheduler", v).state = Object(v).new.state
    BY <2>1 DEF FlushedTask, Column, Changed, Object
  <2> QED
    BY <1>2, <2>1, <2>2 DEF Changed
<1> QED
  BY <1>2, <1>3 DEF FlushedTask, Object

\* The plan is made and its rows are read.
LEMMA PreemptSession ==
    ASSUME StoresTypeOK, SchedTypeOK, SessionInv, EvictionsInv,
           NEW t \in Tasks, preempt(t)
    PROVE  SessionInv' /\ EvictionsInv'
<1>1. PICK p \in _find_preemption_candidates(t) :
        /\ sched' = [sched EXCEPT !.phase = "evict", !.plan = p, !.batch = @ \ {t}]
        /\ session_tasks' = [session_tasks EXCEPT !["scheduler"] =
                [u \in Tasks |-> IF u \in p.victims \cup {t} /\ @[u] = None
                                 THEN [old |-> tasks[u], new |-> tasks[u]] ELSE @[u]]]
  BY DEF preempt, me
<1>2. sched.phase = "batch" /\ TaskObject("scheduler", t).state = "PENDING"
  BY DEF preempt, NeedsPreemption, Turn, me
<1>3. sched'.phase = "evict" /\ sched'.plan = p /\ p.task = t
  BY <1>1 DEF SchedTypeOK, _find_preemption_candidates
<1>4. BatchInv
  BY <1>2 DEF SessionInv
<1>5. \A u \in Tasks : Object(u)' =
        IF u \in p.victims \cup {t} /\ Object(u) = None
        THEN [old |-> tasks[u], new |-> tasks[u]] ELSE Object(u)
  BY <1>1 DEF Object, StoresTypeOK, Actors
<1>6. \A u \in Tasks : [old |-> tasks[u], new |-> tasks[u]] # None
  BY NoneAssumption DEF StoresTypeOK, Loaded
<1>7. /\ Object(t)' # None
      /\ Object(t)'.old.state \in {"PENDING", "RUNNING"}
      /\ Object(t)'.new.state = "PENDING"
  <2>1. CASE Object(t) = None
    <3>1. Object(t)' = [old |-> tasks[t], new |-> tasks[t]] /\ tasks[t].state = "PENDING"
      BY <1>2, <1>5, <2>1 DEF TaskObject, Object
    <3> QED
      BY <1>6, <3>1
  <2>2. CASE Object(t) # None
    <3>1. Object(t)' = Object(t) /\ Object(t).new.state = "PENDING"
      BY <1>2, <1>5, <2>2 DEF TaskObject, Object
    <3> QED
      BY <1>4, <2>2, <3>1 DEF BatchInv, Changed
  <2> QED
    BY <2>1, <2>2
<1>8. ASSUME NEW v \in p.victims
      PROVE  /\ v \in Tasks /\ v # t
             /\ Object(v)' = [old |-> tasks[v], new |-> tasks[v]]
             /\ tasks[v].state = "RUNNING" /\ tasks[v].worker = p.worker
             /\ priority[v] < priority[t]
  <2>1. /\ v \in Tasks /\ Object(v) = None /\ priority[v] < priority[t]
        /\ tasks[v].state = "RUNNING" /\ tasks[v].worker = p.worker
    BY <1>4, VictimsAreNew
  <2>2. priority[t] \in Int
    BY ColumnsAssumption
  <2>3. v # t
    BY <2>1, <2>2
  <2> QED
    BY <1>5, <2>1, <2>3
<1>9. \A v \in Tasks : v \in p.victims => Doomed(v)'
  <2> SUFFICES ASSUME NEW v \in Tasks, v \in p.victims PROVE Doomed(v)'
    OBVIOUS
  <2>1. Object(v)' # None
    BY <1>6, <1>8
  <2>2. /\ Object(v)'.old.state = "RUNNING" /\ Object(v)'.new.state = "RUNNING"
        /\ Object(v)'.old.worker = p.worker
    BY <1>8
  <2> QED
    BY <1>3, <1>8, <2>1, <2>2 DEF Doomed
<1>10. \A u \in Tasks : u \notin p.victims /\ u # t => Object(u)' = Object(u)
  BY <1>5
<1>11. PlanInv'
  BY <1>3, <1>4, <1>7, <1>8, <1>9, <1>10 DEF PlanInv, BatchInv
<1>12. ASSUME NEW v \in Tasks, Evicted(Object(v)') PROVE \E u \in Tasks : Justifies(u, v)'
  <2>1. Object(v)' = Object(v)
    <3> SUFFICES ASSUME Object(v)' = [old |-> tasks[v], new |-> tasks[v]] PROVE FALSE
      BY <1>5
    <3> QED
      BY <1>12 DEF Evicted
  <2>2. PICK u \in Tasks : Justifies(u, v)
    BY <1>12, <2>1 DEF EvictionsInv
  <2>3. Object(u) # None
    BY <1>2, <2>2 DEF Justifies
  <2>4. Object(u)' = Object(u)
    BY <1>5, <2>3
  <2> QED
    BY <1>2, <2>1, <2>2, <2>4 DEF Justifies
<1> QED
  BY <1>3, <1>11, <1>12 DEF SessionInv, EvictionsInv

\* One victim is evicted: the task of the plan justifies it.
LEMMA EvictSession ==
    ASSUME StoresTypeOK, SchedTypeOK, SessionInv, EvictionsInv,
           NEW v \in Tasks, evict(v)
    PROVE  SessionInv' /\ EvictionsInv'
<1> DEFINE row == Preempted(TaskObject("scheduler", v), v)
<1>a. "scheduler" \in Actors
  BY DEF Actors
<1>1. /\ sched.phase = "evict" /\ v \in sched.plan.victims
      /\ session_tasks' = WithTask("scheduler", v, row)
      /\ sched' = [sched EXCEPT !.plan.victims = @ \ {v}]
  BY DEF evict, me
<1>2. /\ sched'.phase = "evict"
      /\ sched'.plan.task = sched.plan.task /\ sched'.plan.worker = sched.plan.worker
      /\ sched'.plan.victims = sched.plan.victims \ {v}
      /\ sched.plan.task \in Tasks
  BY <1>1 DEF SchedTypeOK
<1>3. PlanInv
  BY <1>1 DEF SessionInv
<1>4. Doomed(v) /\ v # sched.plan.task
  BY <1>1, <1>3 DEF PlanInv
<1>5. row \in TaskRow /\ row.state \in {"PENDING", "PREEMPTED"}
  <2>1. TaskObject("scheduler", v) \in TaskRow
    BY <1>a, ObjectType
  <2> QED
    BY <2>1 DEF Preempted, Requeued, TaskRow, TaskState
<1> HIDE DEF row
<1>6. Object(v)' = [old |-> Object(v).old, new |-> row]
  BY <1>a, <1>1, <1>4, WithTaskAt DEF Object, Doomed
<1>7. Object(v)' # None
  <2>1. Object(v)' \in Loaded(TaskRow)
    BY <1>a, <1>4, <1>5, <1>6 DEF Doomed, StoresTypeOK, Object, Loaded
  <2> QED
    BY <2>1, NoneAssumption
<1>8. \A u \in Tasks \ {v} : Object(u)' = Object(u)
  BY <1>a, <1>1 DEF WithTask, StoresTypeOK, Object
<1>9. Changed(Object(v)')
  BY <1>4, <1>5, <1>6 DEF Changed, Doomed
<1>10. PlanInv'
  <2>1. Object(sched.plan.task)' = Object(sched.plan.task)
    BY <1>2, <1>4, <1>8
  <2>2. \A u \in Tasks : u \in sched'.plan.victims => Doomed(u)'
    BY <1>2, <1>3, <1>8 DEF PlanInv, Doomed
  <2>3. \A u \in Tasks : (/\ u \notin sched'.plan.victims
                          /\ u # sched'.plan.task
                          /\ Object(u)' # None) => Changed(Object(u)')
    BY <1>2, <1>3, <1>8, <1>9 DEF PlanInv
  <2>4. /\ Object(sched.plan.task)' # None
        /\ Object(sched.plan.task)'.old.state \in {"PENDING", "RUNNING"}
        /\ Object(sched.plan.task)'.new.state = "PENDING"
    BY <1>2, <1>3, <2>1 DEF PlanInv, Object
  <2> QED
    BY <1>2, <1>3, <2>2, <2>3, <2>4 DEF PlanInv
<1>11. ASSUME NEW x \in Tasks, Evicted(Object(x)') PROVE \E u \in Tasks : Justifies(u, x)'
  <2>1. CASE x = v
    <3>1. /\ priority[sched.plan.task] > priority[v]
          /\ sched.plan.worker = Object(v)'.old.worker
      BY <1>4, <1>6, <1>2, ColumnsAssumption DEF Doomed
    <3>2. Justifies(sched.plan.task, x)'
      BY <1>2, <2>1, <3>1 DEF Justifies
    <3> QED
      BY <1>2, <3>2
  <2>2. CASE x # v
    <3>1. Object(x)' = Object(x)
      BY <1>8, <2>2
    <3>2. PICK u \in Tasks : Justifies(u, x)
      BY <1>11, <3>1 DEF EvictionsInv
    <3>3. u # v \/ (sched.phase = "evict" /\ sched.plan.task = u
                        /\ sched.plan.worker = Object(x).old.worker)
      BY <1>4, <3>2 DEF Justifies, Doomed
    <3> QED
      BY <1>2, <1>8, <3>1, <3>2, <3>3 DEF Justifies
  <2> QED
    BY <2>1, <2>2
<1> QED
  BY <1>2, <1>10, <1>11 DEF SessionInv, EvictionsInv

-----------------------------------------------------------------------------
(* Every step *)

\* A tick, from the pop to the commit or the rollback.
LEMMA TickSession ==
    ASSUME StoresTypeOK, SchedTypeOK, SessionInv, EvictionsInv, Tick \/ TickError
    PROVE  SessionInv' /\ EvictionsInv'
<1>1. CASE _tick \/ _schedule_batch
  <2>1. /\ sched.phase \in {"idle", "popped"}
        /\ sched'.phase \notin {"repush", "evict"}
        /\ UNCHANGED session_tasks
    <3>1. CASE _tick
      BY <3>1, TickDonePhase DEF _tick, SchedTypeOK, sessions
    <3>2. CASE _schedule_batch
      BY <3>2, TickDonePhase DEF _schedule_batch, SchedTypeOK, sessions
    <3> QED
      BY <1>1, <3>1, <3>2
  <2>2. \A t \in Tasks : session_tasks'["scheduler"][t] = None
    BY <2>1 DEF SessionInv, Object
  <2> QED
    BY <2>1, <2>2, EmptySession
<1>2. ASSUME NEW t \in Tasks, skip(t) \/ no_capacity(t) PROVE SessionInv' /\ EvictionsInv'
  <2>1. /\ UNCHANGED session_tasks
        /\ sched'.phase = sched.phase /\ sched'.plan = sched.plan /\ sched'.found = sched.found
    BY <1>2 DEF skip, no_capacity, SchedTypeOK, sessions
  <2> QED
    BY <2>1, KeepSession
<1>3. CASE batch_commit \/ batch_abort
  <2>1. Forget("scheduler") /\ sched'.phase \notin {"repush", "evict"}
    BY <1>3, TickDonePhase DEF batch_commit, batch_abort, Commit, Rollback, me
  <2> QED
    BY <2>1, ForgetSession
<1> QED
  BY <1>1, <1>2, <1>3, TryScheduleSession, PreemptSession, EvictSession, PlaceSession
  DEF Tick, TickError

\* Every step of the cluster: only the scheduler writes into its transaction.
LEMMA SessionStep ==
    ASSUME TypeOK, SessionInv, EvictionsInv, [Next]_vars
    PROVE  SessionInv' /\ EvictionsInv'
<1> USE DEF TypeOK
<1>a. ASSUME session_tasks'["scheduler"] = session_tasks["scheduler"], UNCHANGED sched
      PROVE  SessionInv' /\ EvictionsInv'
  BY <1>a, KeepSession
<1>1. CASE UNCHANGED vars
  BY <1>1, <1>a DEF vars
<1>2. CASE \/ Handlers
           \/ \E w \in Workers : Process(w)
           \/ \E w \in Workers, k \in Slots : Execution(w, k)
  BY <1>2, <1>a, LoopsUntouched
<1>3. CASE Reconcile \/ ReconcileError
  BY <1>3, ReconcileSession
<1>4. CASE Tick \/ TickError
  BY <1>4, TickSession
<1>5. CASE Detect \/ DetectError
  <2>1. session_tasks'["scheduler"] = session_tasks["scheduler"]
    BY <1>5, DetectorTouches DEF OnlyTouches, Actors
  <2>2. UNCHANGED sched
    BY <1>5 DEF Detect, DetectError
  <2> QED
    BY <1>a, <2>1, <2>2
<1>6. CASE MasterRestart
  <2>1. \A t \in Tasks : session_tasks'["scheduler"][t] = None
    BY <1>6 DEF MasterRestart, Actors
  <2>2. sched'.phase = "reconcile_pending"
    BY <1>6 DEF MasterRestart, SchedStart
  <2> QED
    BY <2>1, <2>2, EmptySession
<1> QED
  BY <1>1, <1>2, <1>3, <1>4, <1>5, <1>6 DEF Next, Loops

\* The invariant of the scheduler's session holds.
LEMMA SchedulerInvariance == Spec => []SInv
<1>1. Init => SInv
  <2> SUFFICES ASSUME Init PROVE SInv
    OBVIOUS
  <2>1. \A t \in Tasks : Object(t) = None
    BY DEF Init, StoresInit, Object, Actors
  <2>2. sched.phase = "reconcile_pending"
    BY DEF Init, SchedStart
  <2> QED
    BY <2>1, <2>2, InitTypeOK DEF SInv, SessionInv, EvictionsInv, Evicted
<1>2. SInv /\ [Next]_vars => SInv'
  BY TypeStep, SessionStep DEF SInv
<1> QED
  BY <1>1, <1>2, PTL DEF Spec

\* Every RUNNING task a batch takes off a worker makes room there for a task of
\* strictly higher priority that the same transaction places: no sequence of
\* placements, plans, evictions and requeues inside a batch breaks that,
\* whatever other transactions commit while it is under way.
THEOREM EvictionsSound == Spec => []EvictedForHigherPriority
<1>1. SInv => EvictedForHigherPriority
  BY DEF SInv, EvictionsInv, Evicted, Justifies, Object, EvictedForHigherPriority
<1> QED
  BY <1>1, SchedulerInvariance, PTL

-----------------------------------------------------------------------------
(* The failure detector's session *)

\* The session does not change the status of the worker to DEAD.
NotKilled(o) == o # None /\ o.new.status = "DEAD" => o.old.status = "DEAD"

NobodyElseKills ==
    \A a \in Actors \ {"detector"}, w \in Workers : NotKilled(session_workers[a][w])

InPlace == {"RUNNING", "SCHEDULED"}

\* A Task object the pass has dealt with, and one it has only read.
Settled(o) == o.new.state \notin InPlace /\ o.new.state # o.old.state
Untouched(o) == o # None /\ o.new = o.old /\ o.old.state \in InPlace

PassInv ==
    /\ fd.phase # "orphans" => fd.orphans = {}
    /\ fd.phase = "idle" => \A t \in Tasks : session_tasks["detector"][t] = None
    /\ \A t \in Tasks : t \in fd.orphans => Untouched(session_tasks["detector"][t])
    /\ \A t \in Tasks : t \notin fd.orphans /\ session_tasks["detector"][t] # None
                            => Settled(session_tasks["detector"][t])

DInv == TypeOK /\ IdleIsEmpty /\ NobodyElseKills /\ PassInv

-----------------------------------------------------------------------------
(* Nobody but the detector declares a worker dead *)

\* A session that sets an object without touching a status that is already
\* DEAD, or with a status other than DEAD.
LEMMA WithWorkerKills ==
    ASSUME StoresTypeOK, NobodyElseKills, NEW a \in Actors \ {"detector"},
           NEW w \in Workers, NEW row,
           row.status = WorkerObject(a, w).status \/ row.status # "DEAD",
           session_workers' = WithWorker(a, w, row)
    PROVE  NobodyElseKills'
<1> SUFFICES ASSUME NEW b \in Actors \ {"detector"}, NEW v \in Workers
             PROVE  NotKilled(session_workers'[b][v])
  BY DEF NobodyElseKills
<1>1. CASE b = a /\ v = w
  <2>1. session_workers'[b][v] =
            [old |-> IF session_workers[a][w] = None THEN workers[w]
                     ELSE session_workers[a][w].old,
             new |-> row]
    BY <1>1, WithWorkerAt
  <2>2. CASE row.status # "DEAD"
    BY <2>1, <2>2 DEF NotKilled
  <2>3. CASE row.status = WorkerObject(a, w).status
    <3>1. CASE session_workers[a][w] = None
      BY <2>1, <2>3, <3>1 DEF NotKilled, WorkerObject
    <3>2. CASE session_workers[a][w] # None
      BY <2>1, <2>3, <3>2 DEF NotKilled, WorkerObject, NobodyElseKills
    <3> QED
      BY <3>1, <3>2
  <2> QED
    BY <2>2, <2>3
<1>2. CASE ~(b = a /\ v = w)
  <2>1. WithWorker(a, w, row)[b][v] = session_workers[b][v]
    BY <1>2 DEF WithWorker, StoresTypeOK
  <2> QED
    BY <2>1 DEF NobodyElseKills
<1> QED
  BY <1>1, <1>2

\* Writing cpu_available keeps the status.
LEMMA CpuKeepsStatus ==
    ASSUME NEW row \in WorkerRow, NEW c
    PROVE  [row EXCEPT !.cpu_available = c].status = row.status
BY DEF WorkerRow

\* Steps that leave the identity maps of workers alone, or empty some.
LEMMA KeepKills ==
    ASSUME NobodyElseKills,
           \A a \in Actors \ {"detector"}, w \in Workers :
                \/ session_workers'[a][w] = session_workers[a][w]
                \/ session_workers'[a][w] = None
    PROVE  NobodyElseKills'
BY DEF NobodyElseKills, NotKilled

\* A handler that starts with an empty session and sets the worker the row
\* names: a report gives cpu back and keeps the status it read, a
\* registration sets ACTIVE, a heartbeat keeps the status.
LEMMA HandlerKills ==
    ASSUME StoresTypeOK, IdleIsEmpty, NobodyElseKills, NEW s \in Sessions,
           api[s] = Idle, NEW w \in Workers, NEW row,
           row.status = workers[w].status \/ row.status # "DEAD",
           session_workers' = WithWorker(s, w, row)
    PROVE  NobodyElseKills'
<1>1. s \in Actors \ {"detector"}
  BY SessionsAssumption DEF Actors
<1>2. session_workers[s][w] = None
  BY DEF IdleIsEmpty, Idle
<1>3. WorkerObject(s, w) = workers[w]
  BY <1>2 DEF WorkerObject
<1> QED
  BY <1>1, <1>3, WithWorkerKills

\* The handlers of the reports that end a task.
LEMMA ReportKills ==
    ASSUME StoresTypeOK, IdleIsEmpty, NobodyElseKills,
           NEW s \in Sessions, NEW t \in Tasks, NEW c,
           complete_task(s, t, c) \/ fail_task(s, t, c)
    PROVE  NobodyElseKills'
<1>1. api[s] = Idle /\ session_workers' = Freed(s, t)
  BY DEF complete_task, fail_task, Open
<1>2. CASE tasks[t].worker = None
  BY <1>1, <1>2, KeepKills DEF Freed
<1>3. CASE tasks[t].worker # None
  <2> DEFINE v == tasks[t].worker
             row == [workers[v] EXCEPT !.cpu_available = @ + resource_cpu[t]]
  <2>1. v \in Workers
    BY <1>3 DEF StoresTypeOK, TaskRow
  <2>2. row.status = workers[v].status
    BY <2>1 DEF StoresTypeOK, WorkerRow
  <2>3. session_workers' = WithWorker(s, v, row)
    BY <1>1, <1>3 DEF Freed
  <2> HIDE DEF v, row
  <2> QED
    BY <1>1, <2>1, <2>2, <2>3, HandlerKills
<1> QED
  BY <1>2, <1>3

\* The end of a session and a restart of the master.
LEMMA ForgetKills ==
    ASSUME StoresTypeOK, NobodyElseKills, NEW a \in Actors, Forget(a)
    PROVE  NobodyElseKills'
<1>1. \A b \in Actors, w \in Workers : \/ session_workers'[b][w] = session_workers[b][w]
                                       \/ session_workers'[b][w] = None
  BY ForgetAt
<1> QED
  BY <1>1, KeepKills

\* The scheduler changes only the cpu of the workers it uses.
LEMMA SchedulerKills ==
    ASSUME StoresTypeOK, SchedTypeOK, NobodyElseKills,
           Reconcile \/ ReconcileError \/ Tick \/ TickError
    PROVE  NobodyElseKills'
<1> USE DEF me
<1>a. me \in Actors /\ me \in Actors \ {"detector"}
  BY DEF Actors
<1>b. ASSUME UNCHANGED session_workers PROVE NobodyElseKills'
  BY <1>b, KeepKills
<1>c. ASSUME NEW w \in Workers, NEW n,
             session_workers' = WithWorker(me, w,
                        [WorkerObject(me, w) EXCEPT !.cpu_available = n])
      PROVE  NobodyElseKills'
  <2>1. WorkerObject(me, w) \in WorkerRow
    BY <1>a, ObjectType
  <2> QED
    BY <1>a, <1>c, <2>1, CpuKeepsStatus, WithWorkerKills
<1>1. CASE Reconcile \/ ReconcileError
  <2>1. CASE reconciled \/ reconcile_abort
    BY <2>1, <1>a, ForgetKills DEF reconciled, reconcile_abort, Rollback
  <2>2. CASE _reconcile_pending_tasks \/ enqueue_missing \/ _reconcile_scheduled_tasks
    BY <2>2, <1>b DEF _reconcile_pending_tasks, enqueue_missing, _reconcile_scheduled_tasks,
                      sessions
  <2>3. ASSUME NEW t \in Tasks, repush(t) PROVE NobodyElseKills'
    BY <2>3, <1>b DEF repush
  <2> QED
    BY <1>1, <2>1, <2>2, <2>3 DEF Reconcile, ReconcileError
<1>2. CASE Tick \/ TickError
  <2>1. CASE _tick
    BY <2>1, <1>b DEF _tick, sessions
  <2>2. CASE _schedule_batch
    BY <2>2, <1>b DEF _schedule_batch, sessions
  <2>3. ASSUME NEW t \in Tasks, skip(t) \/ no_capacity(t) PROVE NobodyElseKills'
    BY <2>3, <1>b DEF skip, no_capacity, sessions
  <2>4. ASSUME NEW t \in Tasks, _try_schedule_task(t) PROVE NobodyElseKills'
    <3>1. PICK w \in Workers : Placed(t, w)
      BY <2>4 DEF _try_schedule_task, spread_schedule
    <3> QED
      BY <1>c, <3>1 DEF Placed
  <2>5. ASSUME NEW t \in Tasks, preempt(t) PROVE NobodyElseKills'
    <3>1. PICK w \in Workers : session_workers' = WithWorker(me, w, WorkerObject(me, w))
      BY <2>5 DEF preempt, _find_preemption_candidates
    <3> QED
      BY <1>a, <3>1, WithWorkerKills
  <2>6. ASSUME NEW v \in Tasks, evict(v) PROVE NobodyElseKills'
    <3>1. sched.plan.worker \in Workers
      BY <2>6 DEF evict, SchedTypeOK
    <3> QED
      BY <1>c, <2>6, <3>1 DEF evict
  <2>7. CASE place
    <3>1. sched.plan.worker \in Workers
      BY <2>7 DEF place, SchedTypeOK
    <3> QED
      BY <1>c, <2>7, <3>1 DEF place, Placed
  <2>8. CASE batch_commit \/ batch_abort
    BY <2>8, <1>a, ForgetKills DEF batch_commit, batch_abort, Commit, Rollback
  <2> QED
    BY <1>2, <2>1, <2>2, <2>3, <2>4, <2>5, <2>6, <2>7, <2>8 DEF Tick, TickError
<1> QED
  BY <1>1, <1>2

\* No step makes a session other than the detector's declare a worker dead.
LEMMA KillsStep ==
    ASSUME TypeOK, IdleIsEmpty, NobodyElseKills, [Next]_vars
    PROVE  NobodyElseKills'
<1> USE DEF TypeOK
<1>a. ASSUME UNCHANGED session_workers PROVE NobodyElseKills'
  BY <1>a, KeepKills
<1>1. CASE UNCHANGED vars
  BY <1>1, <1>a DEF vars
<1>2. CASE Handlers
  <2>1. ASSUME NEW s \in Sessions, NEW t \in Tasks, Create(s, t) \/ Cancel(s, t)
        PROVE  NobodyElseKills'
    BY <2>1, <1>a DEF Create, Cancel, create_task, cancel_task
  <2>2. ASSUME NEW s \in Sessions, Respond(s) \/ HandlerError(s) PROVE NobodyElseKills'
    <3>1. s \in Actors /\ Forget(s)
      BY <2>2 DEF Respond, HandlerError, commit, abort, Commit, Rollback, Actors
    <3> QED
      BY <3>1, ForgetKills
  <2>3. ASSUME NEW s \in Sessions, Timeout(s) PROVE NobodyElseKills'
    BY <2>3, <1>a DEF Timeout, sessions
  <2>4. ASSUME NEW s \in Sessions, NEW w \in Workers, PostHeartbeat(s, w)
        PROVE  NobodyElseKills'
    <3>1. PICK n : heartbeat(s, w, n)
      BY <2>4 DEF PostHeartbeat
    <3>2. PICK row : /\ row = [workers[w] EXCEPT !.cpu_available = n]
                     /\ session_workers' = WithWorker(s, w, row)
      BY <3>1 DEF heartbeat
    <3>3. row.status = workers[w].status
      BY <3>2 DEF StoresTypeOK, WorkerRow
    <3>4. api[s] = Idle
      BY <3>1 DEF heartbeat, Open
    <3> QED
      BY <3>2, <3>3, <3>4, HandlerKills
  <2> QED
    BY <1>2, <2>1, <2>2, <2>3, <2>4 DEF Handlers
<1>3. CASE Loops
  <2>1. CASE Detect \/ DetectError
    <3>1. OnlyTouches("detector")
      BY <2>1, DetectorTouches
    <3> QED
      BY <3>1, KeepKills DEF OnlyTouches
  <2>2. CASE MasterRestart
    BY <2>2, KeepKills DEF MasterRestart
  <2> QED
    BY <1>3, <2>1, <2>2, SchedulerKills DEF Loops
<1>4. ASSUME NEW w \in Workers, Process(w) PROVE NobodyElseKills'
  <2>1. CASE Register(w)
    <3>1. PICK s \in Sessions : register_worker(s, w, <<w, Main>>)
      BY <2>1 DEF Register
    <3> DEFINE row == [status |-> "ACTIVE", cpu_available |-> cpu_total[w]]
    <3>2. api[s] = Idle /\ session_workers' = WithWorker(s, w, row)
      BY <3>1 DEF register_worker, Open
    <3>3. row.status # "DEAD"
      OBVIOUS
    <3> HIDE DEF row
    <3> QED
      BY <3>2, <3>3, HandlerKills
  <2>2. CASE Stop(w) \/ Heartbeat(w) \/ Expire(w) \/ Listen(w)
    BY <2>2, <1>a DEF Stop, Heartbeat, Expire, Listen, stop, send_heartbeat,
                      heartbeat_expires, _preemption_listener, sessions
  <2> QED
    BY <1>4, <2>1, <2>2 DEF Process
<1>5. ASSUME NEW w \in Workers, NEW k \in Slots, Execution(w, k) PROVE NobodyElseKills'
  <2> DEFINE t == exec[w][k].task
  <2>1. CASE Poll(w, k) \/ Fetch(w, k) \/ FetchError(w, k) \/ ReportLost(w, k)
             \/ Run(w, k) \/ Finally(w, k) \/ RedisError(w, k)
    BY <2>1, <1>a DEF Poll, Fetch, FetchError, ReportLost, Run, Finally, RedisError,
                poll_assignment, fetch_task, fetch_error, run_task, finally,
                add_active_task_error, remove_active_task_error, sessions
  <2>2. CASE ReportRunning(w, k)
    BY <2>2, <1>a DEF ReportRunning, update_task_state, sessions
  <2>3. CASE ReportCompletion(w, k)
    <3>1. t \in Tasks
      BY <2>3 DEF ReportCompletion, _report_completion, At, NodeTypeOK
    <3>2. \/ \E s \in Sessions : complete_task(s, t, <<w, k>>)
          \/ UNCHANGED session_workers
      BY <2>3 DEF ReportCompletion, sessions
    <3> HIDE DEF t
    <3> QED
      BY <1>a, <3>1, <3>2, ReportKills
  <2>4. CASE ReportFailure(w, k)
    <3>1. t \in Tasks
      BY <2>4 DEF ReportFailure, _report_failure, At, NodeTypeOK
    <3>2. \/ \E s \in Sessions : fail_task(s, t, <<w, k>>)
          \/ UNCHANGED session_workers
      BY <2>4 DEF ReportFailure, sessions
    <3> HIDE DEF t
    <3> QED
      BY <1>a, <3>1, <3>2, ReportKills
  <2> QED
    BY <1>5, <2>1, <2>2, <2>3, <2>4 DEF Execution
<1> QED
  BY <1>1, <1>2, <1>3, <1>4, <1>5 DEF Next

-----------------------------------------------------------------------------
(* The detector's own transaction *)

\* The end of a pass, committed or not, leaves its session empty.
LEMMA PassEnds ==
    ASSUME StoresTypeOK, Forget("detector"), fd' = FdIdle
    PROVE  PassInv'
<1>1. \A t \in Tasks : session_tasks'["detector"][t] = None
  BY ForgetAt DEF Actors
<1> QED
  BY <1>1 DEF PassInv, FdIdle

\* One orphan dealt with: its state leaves RUNNING and SCHEDULED.
LEMMA OrphanSettled ==
    ASSUME StoresTypeOK, FdTypeOK, PassInv, NEW t \in Tasks, t \in fd.orphans,
           fd.phase = "orphans", NEW row, row.state \in {"PENDING", "FAILED"},
           session_tasks' = WithTask("detector", t, row),
           fd'.phase = "orphans", fd'.orphans = fd.orphans \ {t}
    PROVE  PassInv'
<1>a. "detector" \in Actors
  BY DEF Actors
<1>1. session_tasks'["detector"][t] =
        [old |-> IF session_tasks["detector"][t] = None THEN tasks[t]
                 ELSE session_tasks["detector"][t].old,
         new |-> row]
  BY <1>a, WithTaskAt
<1>2. Settled(session_tasks'["detector"][t])
  <2>1. /\ session_tasks["detector"][t] # None
        /\ session_tasks["detector"][t].old.state \in InPlace
    BY DEF PassInv, Untouched
  <2> QED
    BY <1>1, <2>1 DEF Settled, InPlace
<1>3. \A u \in Tasks \ {t} : session_tasks'["detector"][u] = session_tasks["detector"][u]
  BY <1>a DEF WithTask, StoresTypeOK
<1> QED
  BY <1>2, <1>3 DEF PassInv

\* The query for the tasks of a dead worker returns rows the session has not
\* read yet: those it has read are settled.
LEMMA OrphansAreNew ==
    ASSUME StoresTypeOK, PassInv, fd.phase = "check", NEW w \in Workers,
           NEW t \in Orphans(w)
    PROVE  session_tasks["detector"][t] = None /\ tasks[t].state \in InPlace
<1>1. t \in Tasks /\ FlushedTask("detector", t).state \in InPlace
  BY DEF Orphans, InPlace, detector
<1>2. session_tasks["detector"][t] = None
  <2> SUFFICES ASSUME session_tasks["detector"][t] # None PROVE FALSE
    OBVIOUS
  <2>1. Settled(session_tasks["detector"][t])
    BY <1>1 DEF PassInv
  <2> QED
    BY <1>1, <2>1 DEF FlushedTask, Column, Settled
<1> QED
  BY <1>1, <1>2 DEF FlushedTask

\* The worker is declared dead and its tasks are loaded.
LEMMA DeadWorkerPass ==
    ASSUME StoresTypeOK, FdTypeOK, PassInv, NEW w \in Workers, _handle_dead_worker(w)
    PROVE  PassInv'
<1>1. /\ fd.phase = "check" /\ fd.orphans = {}
      /\ fd'.phase = "orphans" /\ fd'.orphans = Orphans(w)
  BY DEF _handle_dead_worker, PassInv, FdTypeOK
<1>2. \A t \in Tasks : session_tasks'["detector"][t] =
        IF t \in Orphans(w) /\ session_tasks["detector"][t] = None
        THEN [old |-> tasks[t], new |-> tasks[t]] ELSE session_tasks["detector"][t]
  BY DEF _handle_dead_worker, StoresTypeOK, Actors, detector
<1>3. ASSUME NEW t \in Tasks, t \in Orphans(w)
      PROVE  Untouched(session_tasks'["detector"][t])
  <2>1. session_tasks["detector"][t] = None /\ tasks[t].state \in InPlace
    BY <1>1, <1>3, OrphansAreNew
  <2>2. session_tasks'["detector"][t] = [old |-> tasks[t], new |-> tasks[t]]
    BY <1>2, <1>3, <2>1
  <2>3. [old |-> tasks[t], new |-> tasks[t]] # None
    BY NoneAssumption DEF StoresTypeOK, Loaded
  <2> QED
    BY <2>1, <2>2, <2>3 DEF Untouched
<1>4. \A t \in Tasks : t \notin Orphans(w) =>
            session_tasks'["detector"][t] = session_tasks["detector"][t]
  BY <1>2
<1> QED
  BY <1>1, <1>3, <1>4 DEF PassInv

\* Every step of a pass.
LEMMA DetectPass ==
    ASSUME StoresTypeOK, FdTypeOK, PassInv, Detect \/ DetectError
    PROVE  PassInv'
<1> USE DEF detector
<1>1. CASE _check_all_workers
  <2>1. /\ fd.phase = "idle" /\ UNCHANGED session_tasks
        /\ fd'.phase = "check" /\ fd'.orphans = {}
    BY <1>1 DEF _check_all_workers, FdIdle
  <2> QED
    BY <2>1 DEF PassInv
<1>2. ASSUME NEW w \in Workers, is_alive(w) PROVE PassInv'
  <2>1. fd'.phase = fd.phase /\ fd'.orphans = fd.orphans /\ UNCHANGED session_tasks
    BY <1>2 DEF is_alive, FdTypeOK, sessions
  <2> QED
    BY <2>1 DEF PassInv
<1>3. ASSUME NEW w \in Workers, _handle_dead_worker(w) PROVE PassInv'
  BY <1>3, DeadWorkerPass
<1>4. ASSUME NEW t \in Tasks, requeue(t) PROVE PassInv'
  <2> DEFINE row == Requeued(TaskObject("detector", t))
  <2>1. row.state = "PENDING"
    BY DEF Requeued
  <2>2. /\ session_tasks' = WithTask("detector", t, row)
        /\ fd.phase = "orphans" /\ t \in fd.orphans
        /\ fd' = [fd EXCEPT !.orphans = @ \ {t}, !.old_state = TRUE]
    BY <1>4 DEF requeue, Orphan
  <2>3. fd'.phase = "orphans" /\ fd'.orphans = fd.orphans \ {t}
    BY <2>2 DEF FdTypeOK
  <2> HIDE DEF row
  <2> QED
    BY <2>1, <2>2, <2>3, OrphanSettled
<1>5. ASSUME NEW t \in Tasks, exhausted(t) PROVE PassInv'
  <2> DEFINE row == [TaskObject("detector", t) EXCEPT !.state = "FAILED"]
  <2>1. row.state = "FAILED"
    BY ObjectType DEF TaskRow, Actors
  <2>2. /\ session_tasks' = WithTask("detector", t, row)
        /\ fd.phase = "orphans" /\ t \in fd.orphans
        /\ fd' = [fd EXCEPT !.orphans = @ \ {t}]
    BY <1>5 DEF exhausted, Orphan
  <2>3. fd'.phase = "orphans" /\ fd'.orphans = fd.orphans \ {t}
    BY <2>2 DEF FdTypeOK
  <2> HIDE DEF row
  <2> QED
    BY <2>1, <2>2, <2>3, OrphanSettled
<1>6. ASSUME NEW t \in Tasks, raise(t) PROVE PassInv'
  BY <1>6, PassEnds DEF raise, Rollback
<1>7. CASE fd_commit \/ fd_abort
  BY <1>7, PassEnds DEF fd_commit, fd_abort, Commit, Rollback
<1>8. CASE handled
  <2>1. fd'.phase = "check" /\ fd'.orphans = fd.orphans /\ fd.orphans = {}
        /\ UNCHANGED session_tasks
    BY <1>8 DEF handled, FdTypeOK, sessions
  <2> QED
    BY <2>1 DEF PassInv
<1> QED
  BY <1>1, <1>2, <1>3, <1>4, <1>5, <1>6, <1>7, <1>8 DEF Detect, DetectError

\* Every step of the cluster: only the detector writes into its transaction.
LEMMA PassStep ==
    ASSUME TypeOK, PassInv, [Next]_vars
    PROVE  PassInv'
<1> USE DEF TypeOK
<1>a. ASSUME session_tasks'["detector"] = session_tasks["detector"], UNCHANGED fd
      PROVE  PassInv'
  BY <1>a DEF PassInv
<1>1. CASE UNCHANGED vars
  BY <1>1, <1>a DEF vars
<1>2. CASE \/ Handlers
           \/ \E w \in Workers : Process(w)
           \/ \E w \in Workers, k \in Slots : Execution(w, k)
  BY <1>2, <1>a, LoopsUntouched
<1>3. CASE Reconcile \/ ReconcileError \/ Tick \/ TickError
  <2>1. session_tasks'["detector"] = session_tasks["detector"]
    BY <1>3, SchedulerTouches DEF OnlyTouches, Actors
  <2>2. UNCHANGED fd
    BY <1>3 DEF Reconcile, ReconcileError, Tick, TickError
  <2> QED
    BY <1>a, <2>1, <2>2
<1>4. CASE Detect \/ DetectError
  BY <1>4, DetectPass
<1>5. CASE MasterRestart
  <2>1. \A t \in Tasks : session_tasks'["detector"][t] = None
    BY <1>5 DEF MasterRestart, Actors
  <2>2. fd' = FdIdle
    BY <1>5 DEF MasterRestart
  <2> QED
    BY <2>1, <2>2 DEF PassInv, FdIdle
<1> QED
  BY <1>1, <1>2, <1>3, <1>4, <1>5 DEF Next, Loops

-----------------------------------------------------------------------------

\* The invariant of the sessions holds.
LEMMA DetectorInvariance == Spec => []DInv
<1>1. Init => DInv
  <2>1. Init => IdleIsEmpty
    BY DEF Init, StoresInit, IdleIsEmpty, Actors
  <2>2. Init => NobodyElseKills
    BY DEF Init, StoresInit, NobodyElseKills, NotKilled
  <2>3. Init => PassInv
    BY DEF Init, StoresInit, PassInv, FdIdle, Actors
  <2> QED
    BY <2>1, <2>2, <2>3, InitTypeOK DEF DInv
<1>2. DInv /\ [Next]_vars => DInv'
  BY TypeStep, IdleStep, KillsStep, PassStep DEF DInv
<1> QED
  BY <1>1, <1>2, PTL DEF Spec

\* A commit of anybody else leaves an ACTIVE worker alive.
LEMMA OthersKeepAlive ==
    ASSUME NobodyElseKills, NEW a \in Actors \ {"detector"}, Commit(a),
           NEW w \in Workers, workers[w].status = "ACTIVE"
    PROVE  workers'[w].status # "DEAD"
<1>1. workers'[w] = FlushedWorker(a, w)
  BY DEF Commit
<1>2. NotKilled(session_workers[a][w])
  BY DEF NobodyElseKills
<1> QED
  BY <1>1, <1>2 DEF FlushedWorker, Column, NotKilled

\* What the property says of one step.
DeathStep ==
    \A w \in Workers :
        (workers[w].status = "ACTIVE" /\ workers'[w].status = "DEAD") =>
            \A t \in Tasks : session_tasks["detector"][t] # None =>
                                tasks'[t].state \notin {"RUNNING", "SCHEDULED"}

\* The invariant makes every step such a step.
LEMMA DeathStepHolds ==
    ASSUME DInv, [Next]_vars
    PROVE  DeathStep
<1> USE DEF DInv, TypeOK
<1>a. ASSUME UNCHANGED workers PROVE DeathStep
  BY <1>a DEF DeathStep
<1>b. ASSUME NEW a \in Actors \ {"detector"}, Commit(a) PROVE DeathStep
  BY <1>b, OthersKeepAlive DEF DeathStep
<1>1. CASE fd_commit
  <2>1. fd.orphans = {} /\ \A t \in Tasks : tasks'[t] = FlushedTask("detector", t)
    BY <1>1 DEF fd_commit, Commit, PassInv, detector
  <2>2. ASSUME NEW t \in Tasks, session_tasks["detector"][t] # None
        PROVE  tasks'[t].state \notin {"RUNNING", "SCHEDULED"}
    <3>1. Settled(session_tasks["detector"][t])
      BY <2>1, <2>2 DEF PassInv
    <3>2. FlushedTask("detector", t).state = session_tasks["detector"][t].new.state
      BY <2>2, <3>1 DEF FlushedTask, Column, Settled
    <3> QED
      BY <2>1, <3>1, <3>2 DEF Settled, InPlace
  <2> QED
    BY <2>2 DEF DeathStep
<1>2. CASE UNCHANGED vars
  BY <1>2, <1>a DEF vars
<1>3. CASE Handlers
  <2>1. ASSUME NEW s \in Sessions, Respond(s) PROVE DeathStep
    <3>1. s \in Actors \ {"detector"} /\ Commit(s)
      BY <2>1, SessionsAssumption DEF Respond, commit, Actors
    <3> QED
      BY <1>b, <3>1
  <2>2. ASSUME NEW s \in Sessions, HandlerError(s) \/ Timeout(s) PROVE DeathStep
    BY <2>2, <1>a DEF HandlerError, Timeout, abort, Rollback, rows
  <2>3. ASSUME NEW s \in Sessions, NEW t \in Tasks, Create(s, t) \/ Cancel(s, t)
        PROVE  DeathStep
    BY <2>3, <1>a DEF Create, Cancel, create_task, cancel_task, rows
  <2>4. ASSUME NEW s \in Sessions, NEW w \in Workers, PostHeartbeat(s, w) PROVE DeathStep
    BY <2>4, <1>a DEF PostHeartbeat, heartbeat, rows
  <2> QED
    BY <1>3, <2>1, <2>2, <2>3, <2>4 DEF Handlers
<1>4. CASE Reconcile \/ ReconcileError \/ TickError \/ MasterRestart
  BY <1>4, <1>a DEF Reconcile, ReconcileError, TickError, MasterRestart, rows, Rollback,
                    _reconcile_pending_tasks, enqueue_missing, _reconcile_scheduled_tasks,
                    repush, reconciled, reconcile_abort, batch_abort
<1>5. CASE Tick
  <2>1. CASE batch_commit
    BY <2>1, <1>b DEF batch_commit, me, Actors
  <2>2. CASE _tick \/ _schedule_batch \/ place
    BY <2>2, <1>a DEF _tick, _schedule_batch, place, rows
  <2>3. ASSUME NEW t \in Tasks, skip(t) \/ _try_schedule_task(t) \/ preempt(t)
                                \/ no_capacity(t) \/ evict(t)
        PROVE  DeathStep
    BY <2>3, <1>a DEF skip, _try_schedule_task, preempt, no_capacity, evict, rows
  <2> QED
    BY <1>5, <2>1, <2>2, <2>3 DEF Tick
<1>6. CASE Detect \/ DetectError
  <2>1. CASE _check_all_workers \/ handled \/ fd_abort
    BY <2>1, <1>a DEF _check_all_workers, handled, fd_abort, Rollback, rows
  <2>2. ASSUME NEW w \in Workers, is_alive(w) \/ _handle_dead_worker(w) PROVE DeathStep
    BY <2>2, <1>a DEF is_alive, _handle_dead_worker, rows
  <2>3. ASSUME NEW t \in Tasks, requeue(t) \/ exhausted(t) \/ raise(t) PROVE DeathStep
    BY <2>3, <1>a DEF requeue, exhausted, raise, Rollback, rows
  <2> QED
    BY <1>1, <1>6, <2>1, <2>2, <2>3 DEF Detect, DetectError
<1>7. ASSUME NEW w \in Workers, Process(w) PROVE DeathStep
  BY <1>7, <1>a DEF Process, Register, Stop, Heartbeat, Expire, Listen, register_worker,
                    stop, send_heartbeat, heartbeat_expires, _preemption_listener, rows
<1>8. ASSUME NEW w \in Workers, NEW k \in Slots, Execution(w, k) PROVE DeathStep
  BY <1>8, <1>a DEF Execution, Poll, Fetch, FetchError, ReportRunning, ReportCompletion,
                    ReportFailure, ReportLost, Run, Finally, RedisError, poll_assignment,
                    fetch_task, fetch_error, run_task, finally, add_active_task_error,
                    remove_active_task_error, update_task_state, complete_task,
                    fail_task, rows
<1> QED
  BY <1>2, <1>3, <1>4, <1>5, <1>6, <1>7, <1>8 DEF Next, Loops

\* A worker goes from ACTIVE to DEAD only by the commit of a pass of the
\* failure detector, and that commit takes every task the pass found on a dead
\* worker out of RUNNING and SCHEDULED, whatever other transactions have
\* committed since the pass read them.
THEOREM DeathCommitsItsTasks == Spec => DeathIsCommittedWithItsTasks
<1>1. DInv /\ [Next]_vars => DeathStep
  BY DeathStepHolds
<1>2. DInv /\ [Next]_vars => [DeathStep]_vars
  BY <1>1
<1>3. Spec => [][DeathStep]_vars
  BY <1>2, DetectorInvariance, PTL DEF Spec
<1> QED
  BY <1>3 DEF DeathStep, DeathIsCommittedWithItsTasks
====
