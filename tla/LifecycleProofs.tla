---- MODULE LifecycleProofs ----
(***************************************************************************)
(* Cluster implements TaskLifecycle: every state a client can observe of a  *)
(* task is one legal move on from a state some transaction has read.        *)
(*                                                                         *)
(* The sessions are the point: a commit writes what was decided on a row    *)
(* that may have changed since, so the invariant is about the pair of rows  *)
(* every session object holds, not about the table.  It rests on what is    *)
(* proved of the scheduler's and the detector's sessions.                   *)
(***************************************************************************)
EXTENDS LoopProofs

\* The object takes its task at most one move on from where it was read.
Legal(o) ==
    \/ o.new.state = o.old.state
    \/ <<o.old.state, o.new.state>> \in Lifecycle!Moves

ObjectsLegal ==
    \A a \in Actors, t \in Tasks : session_tasks[a][t] # None => Legal(session_tasks[a][t])

\* Nobody has read or written the row of an id that create_task has not drawn.
Minting ==
    \A t \in Tasks : t \notin minted =>
        /\ tasks[t].state = "ABSENT"
        /\ \A a \in Actors : session_tasks[a][t] = None

\* The row is in the table.
Exists(t) == tasks[t].state # "ABSENT"

\* Ids the system holds outside the table, other than in a creation that has
\* not committed, are ids of rows.
SessionsExist ==
    \A a \in Actors, t \in Tasks :
        (session_tasks[a][t] # None /\ session_tasks[a][t].old.state # "ABSENT") => Exists(t)

AssignmentsExist ==
    \A w \in Workers : \A i \in 1..Len(assignments[w]) : Exists(assignments[w][i])

ExecutionsExist ==
    \A w \in Workers, k \in Slots : exec[w][k].stage # "free" => Exists(exec[w][k].task)

LifeInv == ObjectsLegal /\ Minting /\ SessionsExist /\ AssignmentsExist /\ ExecutionsExist

RInv == IInv /\ SInv /\ DInv /\ LifeInv

-----------------------------------------------------------------------------
(* What a step does to the rows and the identity maps of tasks *)

Keeps == UNCHANGED <<tasks, session_tasks>>

\* The transaction of a reads rows, or sets them one legal move on.
Sets(a) ==
    /\ UNCHANGED tasks
    /\ \A b \in Actors \ {a} : session_tasks'[b] = session_tasks[b]
    /\ \A t \in Tasks :
        \/ session_tasks'[a][t] = session_tasks[a][t]
        \/ /\ session_tasks'[a][t] # None
           /\ session_tasks'[a][t].old = IF session_tasks[a][t] = None THEN tasks[t]
                                         ELSE session_tasks[a][t].old
           /\ Legal(session_tasks'[a][t])
           /\ t \in minted'

\* The transaction of a ends.
Ends(a) ==
    /\ Forget(a)
    /\ UNCHANGED tasks \/ tasks' = [t \in Tasks |-> FlushedTask(a, t)]

\* All transactions end with the process.
Resets ==
    /\ UNCHANGED tasks
    /\ session_tasks' = [a \in Actors |-> [t \in Tasks |-> None]]

Effect ==
    /\ minted \subseteq minted'
    /\ \/ /\ Keeps
          /\ \/ UNCHANGED succeeded
             \/ \E t \in Tasks : Exists(t) /\ succeeded' = succeeded \cup {t}
       \/ Resets /\ UNCHANGED succeeded
       \/ \E a \in Actors : (Sets(a) \/ Ends(a)) /\ UNCHANGED succeeded

\* An id whose row some session sees in a state was drawn by create_task.
LEMMA SeenIsMinted ==
    ASSUME Minting, NEW a \in Actors, NEW t \in Tasks, TaskObject(a, t).state # "ABSENT"
    PROVE  t \in minted
BY DEF Minting, TaskObject

\* A loaded row is an object.
LEMMA LoadedIsObject ==
    ASSUME NEW x \in TaskRow, NEW y \in TaskRow
    PROVE  [old |-> x, new |-> y] # None
<1>1. [old |-> x, new |-> y] \in Loaded(TaskRow)
  BY DEF Loaded
<1> QED
  BY <1>1, NoneAssumption

\* One object set, a legal move on from the row it was loaded with.
LEMMA WithSets ==
    ASSUME StoresTypeOK, NEW a \in Actors, NEW t \in Tasks, NEW old \in TaskRow,
           NEW row \in TaskRow,
           old = IF session_tasks[a][t] = None THEN tasks[t] ELSE session_tasks[a][t].old,
           \/ row.state = old.state
           \/ <<old.state, row.state>> \in Lifecycle!Moves,
           session_tasks' = WithTask(a, t, row), UNCHANGED tasks, t \in minted'
    PROVE  Sets(a)
<1>1. session_tasks'[a][t] = [old |-> old, new |-> row]
  BY WithTaskAt
<1>2. \A u \in Tasks \ {t} : session_tasks'[a][u] = session_tasks[a][u]
  BY DEF WithTask, StoresTypeOK
<1>3. \A b \in Actors \ {a} : session_tasks'[b] = session_tasks[b]
  BY WithTouches
<1>4. session_tasks'[a][t] # None
  BY <1>1, LoadedIsObject
<1>5. session_tasks'[a][t].old = old /\ session_tasks'[a][t].new = row
  BY <1>1
<1>6. Legal(session_tasks'[a][t])
  BY <1>5 DEF Legal
<1> QED
  BY <1>2, <1>3, <1>4, <1>5, <1>6 DEF Sets

\* A handler's first object: its session is empty, so the move is from the row
\* in the table.
LEMMA HandlerSets ==
    ASSUME StoresTypeOK, IdleIsEmpty, NEW s \in Sessions, NEW t \in Tasks, api[s] = Idle,
           NEW row \in TaskRow, <<tasks[t].state, row.state>> \in Lifecycle!Moves,
           session_tasks' = WithTask(s, t, row), UNCHANGED tasks, t \in minted'
    PROVE  Sets(s)
<1>1. s \in Actors /\ tasks[t] \in TaskRow
  BY DEF Actors, StoresTypeOK
<1>2. session_tasks[s][t] = None
  BY DEF IdleIsEmpty, Idle
<1> QED
  BY <1>1, <1>2, WithSets

\* A query loads rows that exist.
LEMMA LoadSets ==
    ASSUME StoresTypeOK, Minting, NEW a \in Actors, NEW V,
           \A u \in Tasks : u \in V /\ session_tasks[a][u] = None => Exists(u),
           session_tasks' = [session_tasks EXCEPT ![a] =
                [u \in Tasks |-> IF u \in V /\ @[u] = None
                                 THEN [old |-> tasks[u], new |-> tasks[u]] ELSE @[u]]],
           UNCHANGED tasks, minted \subseteq minted'
    PROVE  Sets(a)
<1>1. \A b \in Actors \ {a} : session_tasks'[b] = session_tasks[b]
  BY DEF StoresTypeOK
<1>2. \A u \in Tasks : session_tasks'[a][u] =
        IF u \in V /\ session_tasks[a][u] = None
        THEN [old |-> tasks[u], new |-> tasks[u]] ELSE session_tasks[a][u]
  BY DEF StoresTypeOK
<1>3. ASSUME NEW u \in Tasks, u \in V, session_tasks[a][u] = None
      PROVE  /\ session_tasks'[a][u] # None
             /\ session_tasks'[a][u].old = tasks[u]
             /\ Legal(session_tasks'[a][u])
             /\ u \in minted'
  <2>1. session_tasks'[a][u] = [old |-> tasks[u], new |-> tasks[u]]
    BY <1>2, <1>3
  <2>2. tasks[u] \in TaskRow
    BY DEF StoresTypeOK
  <2>3. session_tasks'[a][u] # None
    BY <2>1, <2>2, LoadedIsObject
  <2>4. Legal(session_tasks'[a][u]) /\ session_tasks'[a][u].old = tasks[u]
    BY <2>1 DEF Legal
  <2>5. u \in minted'
    BY <1>3 DEF Minting, Exists
  <2> QED
    BY <2>3, <2>4, <2>5
<1>4. \A u \in Tasks : ~(u \in V /\ session_tasks[a][u] = None) =>
        session_tasks'[a][u] = session_tasks[a][u]
  BY <1>2
<1> QED
  BY <1>1, <1>3, <1>4 DEF Sets

-----------------------------------------------------------------------------
(* The handlers *)

\* A handler's validated write is a move; a retry passes through FAILED.
LEMMA HandlerEffect ==
    ASSUME StoresTypeOK, IdleIsEmpty, Minting, NEW s \in Sessions, NEW t \in Tasks, NEW c
    PROVE  /\ create_task(s, t) \/ cancel_task(s, t) => Sets(s)
           /\ update_task_state(s, t, "RUNNING", c) => Sets(s)
           /\ complete_task(s, t, c) => Sets(s)
           /\ fail_task(s, t, c) => Sets(s)
           /\ commit(s) \/ abort(s) => Ends(s)
<1>a. tasks[t] \in TaskRow
  BY DEF StoresTypeOK
<1>b. ASSUME NEW n, validate_transition(tasks[t].state, n)
      PROVE  t \in minted /\ <<tasks[t].state, n>> \in Lifecycle!Moves
  <2>1. <<tasks[t].state, n>> \in Lifecycle!Moves
    BY <1>b DEF validate_transition, VALID_TRANSITIONS, Lifecycle!Moves,
                Lifecycle!VALID_TRANSITIONS
  <2>2. tasks[t].state # "ABSENT"
    BY <1>b DEF validate_transition, VALID_TRANSITIONS
  <2> QED
    BY <2>1, <2>2 DEF Minting
<1>1. ASSUME create_task(s, t) PROVE Sets(s)
  <2> DEFINE row == [state |-> "PENDING", worker |-> None, retry |-> 0]
  <2>1. row \in TaskRow /\ row.state = "PENDING"
    BY DEF TaskRow, TaskState
  <2>2. /\ session_tasks' = WithTask(s, t, row) /\ UNCHANGED tasks
        /\ t \in minted' /\ api[s] = Idle /\ tasks[t].state = "ABSENT"
    BY <1>1 DEF create_task, rows, Open, Minting
  <2> HIDE DEF row
  <2>3. <<tasks[t].state, row.state>> \in Lifecycle!Moves
    BY <2>1, <2>2 DEF Lifecycle!Moves
  <2> QED
    BY <2>1, <2>2, <2>3, HandlerSets
<1>2. ASSUME cancel_task(s, t) PROVE Sets(s)
  <2> DEFINE row == [tasks[t] EXCEPT !.state = "CANCELLED", !.worker = None]
  <2>1. row \in TaskRow /\ row.state = "CANCELLED"
    BY <1>a DEF TaskRow, TaskState
  <2>2. /\ session_tasks' = WithTask(s, t, row) /\ UNCHANGED <<tasks, minted>>
        /\ api[s] = Idle /\ validate_transition(tasks[t].state, "CANCELLED")
    BY <1>2 DEF cancel_task, rows, Open
  <2> HIDE DEF row
  <2> QED
    BY <1>b, <2>1, <2>2, HandlerSets
<1>3. ASSUME update_task_state(s, t, "RUNNING", c) PROVE Sets(s)
  <2> DEFINE row == [tasks[t] EXCEPT !.state = "RUNNING"]
  <2>1. row \in TaskRow /\ row.state = "RUNNING"
    BY <1>a DEF TaskRow, TaskState
  <2>2. /\ session_tasks' = WithTask(s, t, row) /\ UNCHANGED <<tasks, minted>>
        /\ api[s] = Idle /\ validate_transition(tasks[t].state, "RUNNING")
    BY <1>3 DEF update_task_state, rows, Open
  <2> HIDE DEF row
  <2> QED
    BY <1>b, <2>1, <2>2, HandlerSets
<1>4. ASSUME complete_task(s, t, c) PROVE Sets(s)
  <2> DEFINE row == [tasks[t] EXCEPT !.state = "COMPLETED"]
  <2>1. row \in TaskRow /\ row.state = "COMPLETED"
    BY <1>a DEF TaskRow, TaskState
  <2>2. /\ session_tasks' = WithTask(s, t, row) /\ UNCHANGED <<tasks, minted>>
        /\ api[s] = Idle /\ validate_transition(tasks[t].state, "COMPLETED")
    BY <1>4 DEF complete_task, rows, Open
  <2> HIDE DEF row
  <2> QED
    BY <1>b, <2>1, <2>2, HandlerSets
<1>5. ASSUME fail_task(s, t, c) PROVE Sets(s)
  <2>1. /\ UNCHANGED <<tasks, minted>> /\ api[s] = Idle
        /\ validate_transition(tasks[t].state, "FAILED")
        /\ \/ session_tasks' = WithTask(s, t, Requeued(tasks[t]))
           \/ session_tasks' = WithTask(s, t, [tasks[t] EXCEPT !.state = "FAILED"])
    BY <1>5 DEF fail_task, rows, Open
  <2>2. Requeued(tasks[t]) \in TaskRow /\ Requeued(tasks[t]).state = "PENDING"
    BY <1>a DEF TaskRow, TaskState, Requeued
  <2>3. /\ [tasks[t] EXCEPT !.state = "FAILED"] \in TaskRow
        /\ [tasks[t] EXCEPT !.state = "FAILED"].state = "FAILED"
    BY <1>a DEF TaskRow, TaskState
  <2>4. tasks[t].state = "RUNNING"
    BY <2>1 DEF validate_transition, VALID_TRANSITIONS
  <2>5. <<tasks[t].state, "PENDING">> \in Lifecycle!Moves
    BY <2>4 DEF Lifecycle!Moves
  <2> QED
    BY <1>b, <2>1, <2>2, <2>3, <2>5, HandlerSets
<1>6. ASSUME commit(s) \/ abort(s) PROVE Ends(s)
  BY <1>6 DEF commit, abort, Commit, Rollback, Ends, rows
<1> QED
  BY <1>1, <1>2, <1>3, <1>4, <1>5, <1>6

-----------------------------------------------------------------------------
(* The scheduler *)

\* The state a placed task was read in.
LEMMA PlacementEffect ==
    ASSUME StoresTypeOK, Minting, NEW t \in Tasks, NEW w \in Workers, Placed(t, w),
           UNCHANGED <<tasks, minted>>,
           TaskObject("scheduler", t).state = "PENDING",
           Object(t) # None => Object(t).old.state \in {"PENDING", "RUNNING"}
    PROVE  Sets("scheduler")
<1> DEFINE row == [TaskObject("scheduler", t) EXCEPT !.state = "SCHEDULED", !.worker = w]
           old == IF session_tasks["scheduler"][t] = None THEN tasks[t]
                  ELSE session_tasks["scheduler"][t].old
<1>a. "scheduler" \in Actors
  BY DEF Actors
<1>b. TaskObject("scheduler", t) \in TaskRow
  BY <1>a, ObjectType
<1>1. row \in TaskRow /\ row.state = "SCHEDULED"
  BY <1>b DEF TaskRow, TaskState
<1>2. old \in TaskRow
  BY <1>a DEF StoresTypeOK, Loaded
<1>3. old.state \in {"PENDING", "RUNNING"}
  BY DEF TaskObject, Object
<1>4. t \in minted'
  BY <1>a, SeenIsMinted
<1>5. session_tasks' = WithTask("scheduler", t, row)
  BY DEF Placed, me
<1>6. old = IF session_tasks["scheduler"][t] = None THEN tasks[t]
            ELSE session_tasks["scheduler"][t].old
  OBVIOUS
<1> HIDE DEF row, old
<1>7. <<old.state, row.state>> \in Lifecycle!Moves
  BY <1>1, <1>3 DEF Lifecycle!Moves, Lifecycle!VALID_TRANSITIONS
<1> QED
  BY <1>a, <1>1, <1>2, <1>4, <1>5, <1>6, <1>7, WithSets

\* Every step of a reconciliation.
LEMMA ReconcileEffect ==
    ASSUME StoresTypeOK, SchedTypeOK, SessionInv, Minting, Reconcile \/ ReconcileError
    PROVE  Keeps \/ Sets("scheduler") \/ Ends("scheduler")
<1> USE DEF me
<1>a. "scheduler" \in Actors
  BY DEF Actors
<1>m. UNCHANGED minted
  BY DEF Reconcile, ReconcileError, apiVars
<1>1. CASE _reconcile_pending_tasks \/ enqueue_missing
  BY <1>1 DEF _reconcile_pending_tasks, enqueue_missing, rows, sessions, Keeps
<1>2. CASE _reconcile_scheduled_tasks
  <2> DEFINE V == {t \in Tasks : tasks[t].state = "SCHEDULED" /\ tasks[t].worker # None}
  <2>1. UNCHANGED tasks /\ sched.phase = "reconcile_scheduled"
    BY <1>2 DEF _reconcile_scheduled_tasks, rows
  <2>2. \A t \in Tasks : session_tasks["scheduler"][t] = None
    BY <2>1 DEF SessionInv, Object
  <2>3. session_tasks' = [session_tasks EXCEPT !["scheduler"] =
            [u \in Tasks |-> IF u \in V /\ @[u] = None
                             THEN [old |-> tasks[u], new |-> tasks[u]] ELSE @[u]]]
    <3>1. [u \in Tasks |-> IF u \in V /\ session_tasks["scheduler"][u] = None
                           THEN [old |-> tasks[u], new |-> tasks[u]]
                           ELSE session_tasks["scheduler"][u]]
          = [u \in Tasks |-> IF tasks[u].state = "SCHEDULED" /\ tasks[u].worker # None
                             THEN [old |-> tasks[u], new |-> tasks[u]] ELSE None]
      BY <2>2
    <3> QED
      BY <1>2, <3>1 DEF _reconcile_scheduled_tasks
  <2>4. \A u \in Tasks : u \in V => Exists(u)
    BY DEF Exists
  <2> HIDE DEF V
  <2> QED
    BY <1>a, <1>m, <2>1, <2>3, <2>4, LoadSets
<1>3. ASSUME NEW t \in Tasks, repush(t) PROVE Keeps \/ Sets("scheduler")
  <2>1. /\ Object(t) # None /\ Object(t).old.state = "SCHEDULED" /\ UNCHANGED tasks
    BY <1>3 DEF repush, rows, SessionInv, RepushInv
  <2>2. CASE UNCHANGED session_tasks
    BY <2>1, <2>2 DEF Keeps
  <2>3. ASSUME session_tasks' = WithTask("scheduler", t,
                    [TaskObject("scheduler", t) EXCEPT !.state = "PENDING", !.worker = None])
        PROVE  Sets("scheduler")
    <3> DEFINE row == [TaskObject("scheduler", t) EXCEPT !.state = "PENDING", !.worker = None]
               old == Object(t).old
    <3>1. row \in TaskRow /\ row.state = "PENDING"
      BY <1>a, ObjectType DEF TaskRow, TaskState
    <3>2. old \in TaskRow /\ <<old.state, "PENDING">> \in Lifecycle!Moves
      BY <1>a, <2>1 DEF StoresTypeOK, Loaded, Object, Lifecycle!Moves,
                        Lifecycle!VALID_TRANSITIONS
    <3>3. old = IF session_tasks["scheduler"][t] = None THEN tasks[t]
                ELSE session_tasks["scheduler"][t].old
      BY <2>1 DEF Object
    <3>4. t \in minted'
      BY <1>a, <1>m, <2>1 DEF Minting, Object
    <3>5. session_tasks' = WithTask("scheduler", t, row)
      BY <2>3
    <3> HIDE DEF row, old
    <3> QED
      BY <1>a, <2>1, <3>1, <3>2, <3>3, <3>4, <3>5, WithSets
  <2> QED
    BY <1>3, <2>2, <2>3 DEF repush
<1>4. CASE reconciled \/ reconcile_abort
  BY <1>4 DEF reconciled, reconcile_abort, Rollback, Ends, rows
<1> QED
  BY <1>1, <1>2, <1>3, <1>4 DEF Reconcile, ReconcileError

\* Every step of a tick.
LEMMA TickEffect ==
    ASSUME StoresTypeOK, SchedTypeOK, SessionInv, Minting, Tick \/ TickError
    PROVE  Keeps \/ Sets("scheduler") \/ Ends("scheduler")
<1> USE DEF me
<1>a. "scheduler" \in Actors
  BY DEF Actors
<1>m. UNCHANGED minted
  BY DEF Tick, TickError, apiVars
<1>1. CASE _tick
  BY <1>1 DEF _tick, rows, sessions, Keeps
<1>2. CASE _schedule_batch
  BY <1>2 DEF _schedule_batch, rows, sessions, Keeps
<1>3. ASSUME NEW t \in Tasks, skip(t) \/ no_capacity(t) PROVE Keeps
  BY <1>3 DEF skip, no_capacity, rows, sessions, Keeps
<1>4. ASSUME NEW t \in Tasks, _try_schedule_task(t) PROVE Sets("scheduler")
  <2>1. PICK w \in Workers : Placed(t, w)
    BY <1>4 DEF _try_schedule_task, spread_schedule
  <2>2. /\ UNCHANGED tasks /\ TaskObject("scheduler", t).state = "PENDING"
        /\ sched.phase = "batch"
    BY <1>4 DEF _try_schedule_task, Turn, rows
  <2>3. Object(t) # None => Object(t).old.state \in {"PENDING", "RUNNING"}
    BY <2>2 DEF SessionInv, BatchInv, Changed
  <2> QED
    BY <1>m, <2>1, <2>2, <2>3, PlacementEffect
<1>5. ASSUME NEW t \in Tasks, preempt(t) PROVE Sets("scheduler")
  <2>1. PICK p \in _find_preemption_candidates(t) :
            session_tasks' = [session_tasks EXCEPT !["scheduler"] =
                [u \in Tasks |-> IF u \in p.victims \cup {t} /\ @[u] = None
                                 THEN [old |-> tasks[u], new |-> tasks[u]] ELSE @[u]]]
    BY <1>5 DEF preempt
  <2>2. /\ UNCHANGED tasks /\ TaskObject("scheduler", t).state = "PENDING"
        /\ sched.phase = "batch"
    BY <1>5 DEF preempt, NeedsPreemption, Turn, rows
  <2>3. BatchInv
    BY <2>2 DEF SessionInv
  <2>4. \A u \in Tasks : u \in p.victims \cup {t} /\ session_tasks["scheduler"][u] = None
                            => Exists(u)
    <3>1. session_tasks["scheduler"][t] = None => Exists(t)
      BY <2>2 DEF TaskObject, Exists
    <3>2. \A u \in p.victims : Exists(u)
      BY <2>3, VictimsAreNew DEF Exists
    <3> QED
      BY <3>1, <3>2
  <2> QED
    BY <1>a, <1>m, <2>1, <2>2, <2>4, LoadSets
<1>6. ASSUME NEW v \in Tasks, evict(v) PROVE Sets("scheduler")
  <2> DEFINE row == Preempted(TaskObject("scheduler", v), v)
             old == Object(v).old
  <2>1. /\ UNCHANGED tasks /\ sched.phase = "evict" /\ v \in sched.plan.victims
        /\ session_tasks' = WithTask("scheduler", v, row)
    BY <1>6 DEF evict, rows
  <2>2. Doomed(v)
    BY <2>1 DEF SessionInv, PlanInv
  <2>3. row \in TaskRow /\ row.state \in {"PENDING", "PREEMPTED"}
    <3>1. TaskObject("scheduler", v) \in TaskRow
      BY <1>a, ObjectType
    <3> QED
      BY <3>1 DEF Preempted, Requeued, TaskRow, TaskState
  <2>4. old \in TaskRow /\ old.state = "RUNNING"
    BY <1>a, <2>2 DEF StoresTypeOK, Loaded, Object, Doomed
  <2>5. old = IF session_tasks["scheduler"][v] = None THEN tasks[v]
              ELSE session_tasks["scheduler"][v].old
    BY <2>2 DEF Object, Doomed
  <2>6. v \in minted'
    BY <1>a, <1>m, <2>2 DEF Minting, Object, Doomed
  <2> HIDE DEF row, old
  <2>7. <<old.state, row.state>> \in Lifecycle!Moves
    BY <2>3, <2>4 DEF Lifecycle!Moves, Lifecycle!VALID_TRANSITIONS
  <2> QED
    BY <1>a, <2>1, <2>3, <2>4, <2>5, <2>6, <2>7, WithSets
<1>7. CASE place
  <2>1. /\ sched.phase = "evict" /\ UNCHANGED tasks
        /\ sched.plan.task \in Tasks /\ sched.plan.worker \in Workers
        /\ Placed(sched.plan.task, sched.plan.worker)
    BY <1>7 DEF place, SchedTypeOK, rows
  <2>2. PICK t \in Tasks, w \in Workers : t = sched.plan.task /\ Placed(t, w)
    BY <2>1
  <2>3. /\ Object(t) # None /\ Object(t).old.state \in {"PENDING", "RUNNING"}
        /\ Object(t).new.state = "PENDING"
    BY <2>1, <2>2 DEF SessionInv, PlanInv
  <2>4. TaskObject("scheduler", t).state = "PENDING"
    BY <2>3 DEF TaskObject, Object
  <2> QED
    BY <1>m, <2>1, <2>2, <2>3, <2>4, PlacementEffect
<1>8. CASE batch_commit \/ batch_abort
  BY <1>8 DEF batch_commit, batch_abort, Commit, Rollback, Ends, rows
<1> QED
  BY <1>1, <1>2, <1>3, <1>4, <1>5, <1>6, <1>7, <1>8 DEF Tick, TickError

-----------------------------------------------------------------------------
(* The failure detector *)

\* An orphan the pass deals with was read RUNNING or SCHEDULED.
LEMMA OrphanEffect ==
    ASSUME StoresTypeOK, PassInv, Minting, NEW t \in Tasks, t \in fd.orphans,
           NEW row \in TaskRow, row.state \in {"PENDING", "FAILED"},
           row.state = "FAILED" => TaskObject("detector", t).state = "RUNNING",
           session_tasks' = WithTask("detector", t, row), UNCHANGED <<tasks, minted>>
    PROVE  Sets("detector")
<1> DEFINE old == session_tasks["detector"][t].old
<1>a. "detector" \in Actors
  BY DEF Actors
<1>1. Untouched(session_tasks["detector"][t])
  BY DEF PassInv
<1>2. /\ session_tasks["detector"][t] # None
      /\ old.state \in InPlace /\ TaskObject("detector", t) = old
  BY <1>1 DEF Untouched, TaskObject
<1>3. old \in TaskRow
  BY <1>a, <1>2 DEF StoresTypeOK, Loaded
<1>4. old = IF session_tasks["detector"][t] = None THEN tasks[t]
            ELSE session_tasks["detector"][t].old
  BY <1>2
<1>5. t \in minted'
  BY <1>a, <1>2 DEF Minting
<1> HIDE DEF old
<1>6. <<old.state, row.state>> \in Lifecycle!Moves
  BY <1>2 DEF InPlace, Lifecycle!Moves, Lifecycle!VALID_TRANSITIONS
<1> QED
  BY <1>a, <1>3, <1>4, <1>5, <1>6, WithSets

\* Every step of a pass.
LEMMA DetectEffect ==
    ASSUME StoresTypeOK, FdTypeOK, PassInv, Minting, Detect \/ DetectError
    PROVE  Keeps \/ Sets("detector") \/ Ends("detector")
<1> USE DEF detector
<1>a. "detector" \in Actors
  BY DEF Actors
<1>m. UNCHANGED minted
  BY DEF Detect, DetectError, apiVars
<1>1. CASE _check_all_workers \/ handled
  BY <1>1 DEF _check_all_workers, handled, rows, sessions, Keeps
<1>2. ASSUME NEW w \in Workers, is_alive(w) PROVE Keeps
  BY <1>2 DEF is_alive, rows, sessions, Keeps
<1>3. ASSUME NEW w \in Workers, _handle_dead_worker(w) PROVE Sets("detector")
  <2>1. /\ UNCHANGED tasks /\ fd.phase = "check"
        /\ session_tasks' = [session_tasks EXCEPT !["detector"] =
                [t \in Tasks |-> IF t \in Orphans(w) /\ @[t] = None
                                 THEN [old |-> tasks[t], new |-> tasks[t]] ELSE @[t]]]
    BY <1>3 DEF _handle_dead_worker, rows
  <2>2. \A u \in Tasks : u \in Orphans(w) => Exists(u)
    BY <2>1, OrphansAreNew DEF Exists, InPlace
  <2> QED
    BY <1>a, <1>m, <2>1, <2>2, LoadSets
<1>4. ASSUME NEW t \in Tasks, requeue(t) PROVE Sets("detector")
  <2> DEFINE row == Requeued(TaskObject("detector", t))
  <2>1. row \in TaskRow /\ row.state = "PENDING"
    <3>1. TaskObject("detector", t) \in TaskRow
      BY <1>a, ObjectType
    <3> QED
      BY <3>1 DEF Requeued, TaskRow, TaskState
  <2>2. /\ session_tasks' = WithTask("detector", t, row) /\ UNCHANGED tasks
        /\ t \in fd.orphans
    BY <1>4 DEF requeue, Orphan, rows
  <2> HIDE DEF row
  <2> QED
    BY <1>m, <2>1, <2>2, OrphanEffect
<1>5. ASSUME NEW t \in Tasks, exhausted(t) PROVE Sets("detector")
  <2> DEFINE row == [TaskObject("detector", t) EXCEPT !.state = "FAILED"]
  <2>1. row \in TaskRow /\ row.state = "FAILED"
    <3>1. TaskObject("detector", t) \in TaskRow
      BY <1>a, ObjectType
    <3> QED
      BY <3>1 DEF TaskRow, TaskState
  <2>2. /\ session_tasks' = WithTask("detector", t, row) /\ UNCHANGED tasks
        /\ t \in fd.orphans /\ validate_transition(TaskObject("detector", t).state, "FAILED")
    BY <1>5 DEF exhausted, Orphan, rows
  <2>3. TaskObject("detector", t).state = "RUNNING"
    BY <2>2 DEF validate_transition, VALID_TRANSITIONS
  <2> HIDE DEF row
  <2> QED
    BY <1>m, <2>1, <2>2, <2>3, OrphanEffect
<1>6. ASSUME NEW t \in Tasks, raise(t) PROVE Ends("detector")
  BY <1>6 DEF raise, Rollback, Ends, rows
<1>7. CASE fd_commit \/ fd_abort
  BY <1>7 DEF fd_commit, fd_abort, Commit, Rollback, Ends, rows
<1> QED
  BY <1>1, <1>2, <1>3, <1>4, <1>5, <1>6, <1>7 DEF Detect, DetectError

-----------------------------------------------------------------------------
(* Every step *)

\* The effect of every step of the cluster on the transactions.
LEMMA StepEffect ==
    ASSUME RInv, [Next]_vars
    PROVE  Effect
<1> USE DEF RInv, IInv, TypeOK
<1>a. IdleIsEmpty /\ PassInv /\ SessionInv /\ Minting /\ ExecutionsExist
  BY DEF DInv, SInv, LifeInv
<1>b. ASSUME Keeps, UNCHANGED <<minted, succeeded>> PROVE Effect
  BY <1>b DEF Effect
<1>c. ASSUME NEW a \in Actors, Sets(a) \/ Ends(a), minted \subseteq minted',
             UNCHANGED succeeded
      PROVE  Effect
  BY <1>c DEF Effect
<1>1. CASE UNCHANGED vars
  BY <1>1, <1>b DEF vars, Keeps
<1>2. CASE Handlers
  <2>1. ASSUME NEW s \in Sessions, NEW t \in Tasks, Create(s, t) \/ Cancel(s, t)
        PROVE  Effect
    <3>1. Sets(s) /\ s \in Actors
      BY <1>a, <2>1, HandlerEffect DEF Create, Cancel, Actors
    <3>2. minted \subseteq minted' /\ UNCHANGED succeeded
      BY <2>1 DEF Create, Cancel, create_task, cancel_task
    <3> QED
      BY <1>c, <3>1, <3>2
  <2>2. ASSUME NEW s \in Sessions, Respond(s) \/ HandlerError(s) PROVE Effect
    <3>1. Ends(s) /\ s \in Actors
      BY <2>2 DEF Respond, HandlerError, commit, abort, Commit, Rollback, Ends, rows, Actors
    <3>2. UNCHANGED <<minted, succeeded>>
      BY <2>2 DEF Respond, HandlerError, commit, abort
    <3> QED
      BY <1>c, <3>1, <3>2
  <2>3. ASSUME NEW s \in Sessions, Timeout(s) PROVE Effect
    BY <2>3, <1>b DEF Timeout, rows, sessions, Keeps
  <2>4. ASSUME NEW s \in Sessions, NEW w \in Workers, PostHeartbeat(s, w) PROVE Effect
    BY <2>4, <1>b DEF PostHeartbeat, heartbeat, rows, Keeps
  <2> QED
    BY <1>2, <2>1, <2>2, <2>3, <2>4 DEF Handlers
<1>3. CASE Reconcile \/ ReconcileError \/ Tick \/ TickError
  <2>1. Keeps \/ Sets("scheduler") \/ Ends("scheduler")
    BY <1>a, <1>3, ReconcileEffect, TickEffect
  <2>2. UNCHANGED <<minted, succeeded>> /\ "scheduler" \in Actors
    BY <1>3 DEF Reconcile, ReconcileError, Tick, TickError, apiVars, Actors
  <2> QED
    BY <1>b, <1>c, <2>1, <2>2
<1>4. CASE Detect \/ DetectError
  <2>1. Keeps \/ Sets("detector") \/ Ends("detector")
    BY <1>a, <1>4, DetectEffect
  <2>2. UNCHANGED <<minted, succeeded>> /\ "detector" \in Actors
    BY <1>4 DEF Detect, DetectError, apiVars, Actors
  <2> QED
    BY <1>b, <1>c, <2>1, <2>2
<1>5. CASE MasterRestart
  BY <1>5 DEF MasterRestart, rows, Resets, Effect
<1>6. ASSUME NEW w \in Workers, Process(w) PROVE Effect
  BY <1>6, <1>b DEF Process, Register, Stop, Heartbeat, Expire, Listen, register_worker, stop,
                    send_heartbeat, heartbeat_expires, _preemption_listener, rows, sessions,
                    apiVars, Keeps
<1>7. ASSUME NEW w \in Workers, NEW k \in Slots, Execution(w, k) PROVE Effect
  <2> DEFINE t == exec[w][k].task
  <2>1. CASE Poll(w, k) \/ Fetch(w, k) \/ FetchError(w, k) \/ ReportLost(w, k)
             \/ Finally(w, k) \/ RedisError(w, k)
    BY <2>1, <1>b DEF Poll, Fetch, FetchError, ReportLost, Finally, RedisError, poll_assignment,
                fetch_task, fetch_error, finally, add_active_task_error,
                remove_active_task_error, rows, sessions, apiVars, Keeps
  <2>2. CASE Run(w, k)
    <3>1. t \in Tasks /\ Exists(t)
      BY <1>a, <2>2 DEF Run, run_task, At, NodeTypeOK, ExecutionsExist
    <3>2. Keeps /\ UNCHANGED minted
      BY <2>2 DEF Run, run_task, rows, sessions, apiVars, Keeps
    <3>3. UNCHANGED succeeded \/ succeeded' = succeeded \cup {t}
      BY <2>2 DEF Run
    <3> HIDE DEF t
    <3> QED
      BY <3>1, <3>2, <3>3 DEF Effect
  <2>3. CASE ReportRunning(w, k)
    <3>1. t \in Tasks
      BY <2>3 DEF ReportRunning, _report_state, At, NodeTypeOK
    <3>2. /\ UNCHANGED succeeded
          /\ \/ \E s \in Sessions : update_task_state(s, t, "RUNNING", <<w, k>>)
             \/ UNCHANGED <<tasks, session_tasks, minted>>
      BY <2>3 DEF ReportRunning, rows, sessions, apiVars
    <3> HIDE DEF t
    <3>3. ASSUME NEW s \in Sessions, update_task_state(s, t, "RUNNING", <<w, k>>)
          PROVE  Sets(s) /\ s \in Actors /\ UNCHANGED minted
      BY <1>a, <3>1, <3>3, HandlerEffect DEF update_task_state, Actors
    <3> QED
      BY <1>b, <1>c, <3>2, <3>3 DEF Keeps
  <2>4. CASE ReportCompletion(w, k)
    <3>1. t \in Tasks
      BY <2>4 DEF ReportCompletion, _report_completion, At, NodeTypeOK
    <3>2. /\ UNCHANGED succeeded
          /\ \/ \E s \in Sessions : complete_task(s, t, <<w, k>>)
             \/ UNCHANGED <<tasks, session_tasks, minted>>
      BY <2>4 DEF ReportCompletion, rows, sessions, apiVars
    <3> HIDE DEF t
    <3>3. ASSUME NEW s \in Sessions, complete_task(s, t, <<w, k>>)
          PROVE  Sets(s) /\ s \in Actors /\ UNCHANGED minted
      BY <1>a, <3>1, <3>3, HandlerEffect DEF complete_task, Actors
    <3> QED
      BY <1>b, <1>c, <3>2, <3>3 DEF Keeps
  <2>5. CASE ReportFailure(w, k)
    <3>1. t \in Tasks
      BY <2>5 DEF ReportFailure, _report_failure, At, NodeTypeOK
    <3>2. /\ UNCHANGED succeeded
          /\ \/ \E s \in Sessions : fail_task(s, t, <<w, k>>)
             \/ UNCHANGED <<tasks, session_tasks, minted>>
      BY <2>5 DEF ReportFailure, rows, sessions, apiVars
    <3> HIDE DEF t
    <3>3. ASSUME NEW s \in Sessions, fail_task(s, t, <<w, k>>)
          PROVE  Sets(s) /\ s \in Actors /\ UNCHANGED minted
      BY <1>a, <3>1, <3>3, HandlerEffect DEF fail_task, Actors
    <3> QED
      BY <1>b, <1>c, <3>2, <3>3 DEF Keeps
  <2> QED
    BY <1>7, <2>1, <2>2, <2>3, <2>4, <2>5 DEF Execution
<1> QED
  BY <1>1, <1>2, <1>3, <1>4, <1>5, <1>6, <1>7 DEF Next, Loops

-----------------------------------------------------------------------------
(* The effect keeps the invariant *)

\* No move ends in ABSENT.
LEMMA MovesEnd ==
    ASSUME NEW m, NEW n, <<m, n>> \in Lifecycle!Moves
    PROVE  n \in TaskState /\ n # "ABSENT"
BY DEF Lifecycle!Moves, Lifecycle!VALID_TRANSITIONS, TaskState

\* A commit leaves the state in the table or takes the move of its object.
LEMMA FlushedState ==
    ASSUME ObjectsLegal, NEW a \in Actors, NEW t \in Tasks
    PROVE  \/ FlushedTask(a, t).state = tasks[t].state
           \/ /\ session_tasks[a][t] # None
              /\ FlushedTask(a, t).state = session_tasks[a][t].new.state
              /\ <<session_tasks[a][t].old.state, FlushedTask(a, t).state>>
                    \in Lifecycle!Moves
<1>1. CASE session_tasks[a][t] = None
  BY <1>1 DEF FlushedTask
<1>2. CASE session_tasks[a][t] # None
  <2>1. Legal(session_tasks[a][t])
    BY <1>2 DEF ObjectsLegal
  <2>2. FlushedTask(a, t).state = Column(tasks[t].state, session_tasks[a][t].old.state,
                                         session_tasks[a][t].new.state)
    BY <1>2 DEF FlushedTask
  <2> QED
    BY <1>2, <2>1, <2>2 DEF Column, Legal
<1> QED
  BY <1>1, <1>2

\* A row in the table stays there.
LEMMA ExistsStable ==
    ASSUME ObjectsLegal, Effect, NEW t \in Tasks, Exists(t)
    PROVE  Exists(t)'
<1>1. CASE UNCHANGED tasks
  BY <1>1 DEF Exists
<1>2. ASSUME NEW a \in Actors, tasks' = [u \in Tasks |-> FlushedTask(a, u)]
      PROVE  Exists(t)'
  <2>1. tasks'[t].state = FlushedTask(a, t).state
    BY <1>2
  <2> QED
    BY <2>1, FlushedState, MovesEnd DEF Exists
<1> QED
  BY <1>1, <1>2 DEF Effect, Keeps, Resets, Sets, Ends

\* The sessions go on as legal objects of drawn ids whose rows exist.
LEMMA ObjectsStep ==
    ASSUME StoresTypeOK, ObjectsLegal, Minting, SessionsExist, Effect
    PROVE  ObjectsLegal' /\ Minting' /\ SessionsExist'
<1>a. ASSUME NEW t \in Tasks, Exists(t) PROVE Exists(t)'
  BY <1>a, ExistsStable
<1>1. CASE Keeps
  BY <1>1 DEF Effect, Keeps, ObjectsLegal, Minting, SessionsExist, Exists
<1>2. CASE Resets
  <2>1. \A a \in Actors, t \in Tasks : session_tasks'[a][t] = None
    BY <1>2 DEF Resets
  <2> QED
    BY <1>2, <2>1 DEF Effect, Resets, ObjectsLegal, Minting, SessionsExist
<1>3. ASSUME NEW a \in Actors, Sets(a)
      PROVE  ObjectsLegal' /\ Minting' /\ SessionsExist'
  <2>1. ASSUME NEW b \in Actors, NEW t \in Tasks
        PROVE  \/ session_tasks'[b][t] = session_tasks[b][t]
               \/ /\ session_tasks'[b][t] # None
                  /\ session_tasks'[b][t].old = IF session_tasks[b][t] = None THEN tasks[t]
                                                ELSE session_tasks[b][t].old
                  /\ Legal(session_tasks'[b][t])
                  /\ t \in minted'
    <3>1. CASE b = a
      BY <1>3, <3>1 DEF Sets
    <3>2. CASE b # a
      BY <1>3, <3>2 DEF Sets
    <3> QED
      BY <3>1, <3>2
  <2>2. ObjectsLegal'
    BY <2>1 DEF ObjectsLegal
  <2>3. Minting'
    BY <1>3, <2>1 DEF Effect, Sets, Minting
  <2>4. SessionsExist'
    <3> SUFFICES ASSUME NEW b \in Actors, NEW t \in Tasks, session_tasks'[b][t] # None,
                        session_tasks'[b][t].old.state # "ABSENT"
                 PROVE  Exists(t)'
      BY DEF SessionsExist
    <3>1. CASE session_tasks'[b][t] = session_tasks[b][t]
      BY <1>a, <3>1 DEF SessionsExist
    <3>2. CASE session_tasks'[b][t].old = tasks[t]
      BY <1>a, <3>2 DEF Exists
    <3>3. CASE /\ session_tasks[b][t] # None
               /\ session_tasks'[b][t].old = session_tasks[b][t].old
      BY <1>a, <3>3 DEF SessionsExist
    <3> QED
      BY <2>1, <3>1, <3>2, <3>3
  <2> QED
    BY <2>2, <2>3, <2>4
<1>4. ASSUME NEW a \in Actors, Ends(a)
      PROVE  ObjectsLegal' /\ Minting' /\ SessionsExist'
  <2>1. \A b \in Actors, t \in Tasks : \/ session_tasks'[b][t] = session_tasks[b][t]
                                       \/ session_tasks'[b][t] = None
    BY <1>4, ForgetAt DEF Ends
  <2>2. ObjectsLegal'
    BY <2>1 DEF ObjectsLegal
  <2>3. SessionsExist'
    BY <1>a, <2>1 DEF SessionsExist
  <2>4. Minting'
    <3> SUFFICES ASSUME NEW t \in Tasks, t \notin minted'
                 PROVE  /\ tasks'[t].state = "ABSENT"
                        /\ \A b \in Actors : session_tasks'[b][t] = None
      BY DEF Minting
    <3>1. tasks[t].state = "ABSENT" /\ \A b \in Actors : session_tasks[b][t] = None
      BY DEF Effect, Minting
    <3>2. tasks'[t] = tasks[t]
      BY <1>4, <3>1 DEF Ends, FlushedTask
    <3> QED
      BY <2>1, <3>1, <3>2
  <2> QED
    BY <2>2, <2>3, <2>4
<1> QED
  BY <1>1, <1>2, <1>3, <1>4 DEF Effect

-----------------------------------------------------------------------------
(* The assignments and the executions *)

\* RPUSH of the id of a row.
LEMMA PushedExist ==
    ASSUME StoresTypeOK, AssignmentsExist, \A u \in Tasks : Exists(u) => Exists(u)',
           NEW w \in Workers, NEW t \in Tasks, Exists(t), assign_task(w, t)
    PROVE  AssignmentsExist'
<1> SUFFICES ASSUME NEW v \in Workers, NEW i \in 1..Len(assignments'[v])
             PROVE  tasks'[assignments'[v][i]].state # "ABSENT"
  BY DEF AssignmentsExist, Exists
<1>1. assignments'[v] = IF v = w THEN Append(assignments[w], t) ELSE assignments[v]
  BY DEF assign_task, StoresTypeOK
<1>2. assignments[v] \in Seq(Tasks) /\ assignments[w] \in Seq(Tasks)
  BY DEF StoresTypeOK
<1>3. ASSUME NEW j \in 1..Len(assignments[v])
      PROVE  assignments[v][j] \in Tasks /\ Exists(assignments[v][j])
  BY <1>2 DEF AssignmentsExist
<1>4. /\ assignments'[v][i] \in Tasks
      /\ tasks[assignments'[v][i]].state # "ABSENT"
  <2>1. CASE v # w
    BY <1>1, <1>3, <2>1 DEF Exists
  <2>2. CASE v = w
    <3>1. i \in 1..(Len(assignments[v]) + 1)
      BY <1>1, <1>2, <2>2
    <3>2. assignments'[v][i] = IF i = Len(assignments[v]) + 1 THEN t ELSE assignments[v][i]
      BY <1>1, <1>2, <2>2, <3>1
    <3>3. CASE i = Len(assignments[v]) + 1
      BY <3>2, <3>3 DEF Exists
    <3>4. CASE i # Len(assignments[v]) + 1
      <4>1. i \in 1..Len(assignments[v])
        BY <1>2, <3>1, <3>4
      <4> QED
        BY <1>3, <3>2, <3>4, <4>1 DEF Exists
    <3> QED
      BY <3>3, <3>4
  <2> QED
    BY <2>1, <2>2
<1> QED
  BY <1>4 DEF Exists

\* BLPOP.
LEMMA PoppedExist ==
    ASSUME StoresTypeOK, AssignmentsExist, \A u \in Tasks : Exists(u) => Exists(u)',
           NEW w \in Workers, assignments[w] # <<>>,
           assignments' = [assignments EXCEPT ![w] = Tail(@)]
    PROVE  AssignmentsExist' /\ Head(assignments[w]) \in Tasks /\ Exists(Head(assignments[w]))
<1>1. \A v \in Workers : assignments[v] \in Seq(Tasks)
  BY DEF StoresTypeOK
<1>2. ASSUME NEW v \in Workers, NEW j \in 1..Len(assignments[v])
      PROVE  assignments[v][j] \in Tasks /\ Exists(assignments[v][j])
  BY <1>1 DEF AssignmentsExist
<1>3. Head(assignments[w]) = assignments[w][1] /\ 1 \in 1..Len(assignments[w])
  BY <1>1
<1>4. AssignmentsExist'
  <2> SUFFICES ASSUME NEW v \in Workers, NEW i \in 1..Len(assignments'[v])
               PROVE  tasks'[assignments'[v][i]].state # "ABSENT"
    BY DEF AssignmentsExist, Exists
  <2>1. assignments'[v] = IF v = w THEN Tail(assignments[w]) ELSE assignments[v]
    BY DEF StoresTypeOK
  <2>2. PICK j \in 1..Len(assignments[v]) : assignments'[v][i] = assignments[v][j]
    <3>1. CASE v # w
      BY <2>1, <3>1
    <3>2. CASE v = w
      <4>1. PICK q \in Seq(Tasks) : q = assignments[v] /\ q # <<>>
        BY <1>1, <3>2
      <4>2. i \in 1..Len(Tail(q))
        BY <2>1, <3>2, <4>1
      <4>3. i + 1 \in 1..Len(q) /\ Tail(q)[i] = q[i + 1]
        BY <4>1, <4>2
      <4> QED
        BY <2>1, <3>2, <4>1, <4>3
    <3> QED
      BY <3>1, <3>2
  <2> QED
    BY <1>2, <2>2 DEF Exists
<1> QED
  BY <1>2, <1>3, <1>4

\* What is pushed to a worker was read in the table by the scheduler.
LEMMA ReconcilePushes ==
    ASSUME StoresTypeOK, SessionInv, SessionsExist, Reconcile \/ ReconcileError
    PROVE  \/ UNCHANGED assignments
           \/ \E w \in Workers, t \in Tasks : Exists(t) /\ assign_task(w, t)
<1> USE DEF me
<1>a. "scheduler" \in Actors
  BY DEF Actors
<1>1. ASSUME NEW t \in Tasks, repush(t)
      PROVE  \/ UNCHANGED assignments
             \/ \E w \in Workers : Exists(t) /\ assign_task(w, t)
  <2>1. Object(t) # None /\ Object(t).old.state = "SCHEDULED"
    BY <1>1 DEF repush, SessionInv, RepushInv
  <2>2. Exists(t)
    BY <1>a, <2>1 DEF SessionsExist, Object
  <2>3. PICK w : assign_task(w, t) \/ UNCHANGED assignments
    BY <1>1 DEF repush
  <2>4. CASE w \notin Workers
    BY <2>3, <2>4 DEF assign_task, StoresTypeOK
  <2> QED
    BY <2>2, <2>3, <2>4
<1> QED
  BY <1>1 DEF Reconcile, ReconcileError, _reconcile_pending_tasks, enqueue_missing,
              _reconcile_scheduled_tasks, reconciled, reconcile_abort, redis

\* The same of a tick: a placed task was read PENDING, or evicted in the batch.
LEMMA TickPushes ==
    ASSUME StoresTypeOK, SchedTypeOK, SessionInv, SessionsExist, Tick \/ TickError
    PROVE  \/ UNCHANGED assignments
           \/ \E w \in Workers, t \in Tasks : Exists(t) /\ assign_task(w, t)
<1> USE DEF me
<1>a. "scheduler" \in Actors
  BY DEF Actors
<1>1. ASSUME NEW t \in Tasks, _try_schedule_task(t)
      PROVE  \E w \in Workers : Exists(t) /\ assign_task(w, t)
  <2>1. PICK w \in Workers : assign_task(w, t)
    BY <1>1 DEF _try_schedule_task, spread_schedule, Placed
  <2>2. sched.phase = "batch" /\ TaskObject("scheduler", t).state = "PENDING"
    BY <1>1 DEF _try_schedule_task, Turn
  <2>3. Object(t) # None => Object(t).old.state \in {"PENDING", "RUNNING"}
    BY <2>2 DEF SessionInv, BatchInv, Changed
  <2>4. Exists(t)
    BY <1>a, <2>2, <2>3 DEF SessionsExist, Object, TaskObject, Exists
  <2> QED
    BY <2>1, <2>4
<1>2. CASE place
  <2>1. /\ sched.phase = "evict" /\ sched.plan.task \in Tasks /\ sched.plan.worker \in Workers
        /\ assign_task(sched.plan.worker, sched.plan.task)
    BY <1>2 DEF place, SchedTypeOK, Placed
  <2>2. PICK t \in Tasks, w \in Workers : t = sched.plan.task /\ assign_task(w, t)
    BY <2>1
  <2>3. Object(t) # None /\ Object(t).old.state \in {"PENDING", "RUNNING"}
    BY <2>1, <2>2 DEF SessionInv, PlanInv
  <2>4. Exists(t)
    BY <1>a, <2>3 DEF SessionsExist, Object
  <2> QED
    BY <2>2, <2>4
<1> QED
  BY <1>1, <1>2 DEF Tick, TickError, _tick, _schedule_batch, skip, preempt, no_capacity, evict,
                    batch_commit, batch_abort, redis

\* Executions that start with the id of a row and go on with it.
LEMMA KeepExecutions ==
    ASSUME NodeTypeOK, ExecutionsExist, \A u \in Tasks : Exists(u) => Exists(u)',
           \A w \in Workers, k \in Slots :
                \/ exec'[w][k].stage = "free"
                \/ exec[w][k].stage # "free" /\ exec'[w][k].task = exec[w][k].task
                \/ exec'[w][k].task \in Tasks /\ Exists(exec'[w][k].task)
    PROVE  ExecutionsExist'
<1> SUFFICES ASSUME NEW w \in Workers, NEW k \in Slots, exec'[w][k].stage # "free"
             PROVE  tasks'[exec'[w][k].task].state # "ABSENT"
  BY DEF ExecutionsExist, Exists
<1>1. exec'[w][k].task \in Tasks /\ Exists(exec'[w][k].task)
  BY DEF ExecutionsExist, NodeTypeOK
<1> QED
  BY <1>1 DEF Exists

\* Every step keeps the assignments to ids of rows.
LEMMA AssignmentsStep ==
    ASSUME RInv, [Next]_vars
    PROVE  AssignmentsExist'
<1> USE DEF RInv, IInv, TypeOK
<1>a. SessionInv /\ SessionsExist /\ AssignmentsExist /\ ObjectsLegal
  BY DEF SInv, LifeInv
<1>b. \A u \in Tasks : Exists(u) => Exists(u)'
  BY <1>a, StepEffect, ExistsStable
<1>c. ASSUME UNCHANGED assignments PROVE AssignmentsExist'
  <2> SUFFICES ASSUME NEW v \in Workers, NEW i \in 1..Len(assignments[v])
               PROVE  tasks'[assignments[v][i]].state # "ABSENT"
    BY <1>c DEF AssignmentsExist, Exists
  <2>1. assignments[v][i] \in Tasks /\ Exists(assignments[v][i])
    BY <1>a DEF AssignmentsExist, StoresTypeOK
  <2> QED
    BY <1>b, <2>1 DEF Exists
<1>1. CASE UNCHANGED vars
  BY <1>1, <1>c DEF vars
<1>2. CASE Handlers
  BY <1>2, <1>c DEF Handlers, Create, Cancel, Respond, HandlerError, Timeout, PostHeartbeat,
                    create_task, cancel_task, commit, abort, heartbeat, redis
<1>3. CASE Reconcile \/ ReconcileError \/ Tick \/ TickError
  <2>1. \/ UNCHANGED assignments
        \/ \E w \in Workers, t \in Tasks : Exists(t) /\ assign_task(w, t)
    BY <1>a, <1>3, ReconcilePushes, TickPushes
  <2> QED
    BY <1>a, <1>b, <1>c, <2>1, PushedExist
<1>4. CASE Detect \/ DetectError
  BY <1>4, <1>c DEF Detect, DetectError, _check_all_workers, is_alive, _handle_dead_worker,
                    requeue, exhausted, raise, handled, fd_commit, fd_abort, redis
<1>5. CASE MasterRestart
  BY <1>5, <1>c DEF MasterRestart, redis
<1>6. ASSUME NEW w \in Workers, Process(w) PROVE AssignmentsExist'
  BY <1>6, <1>c DEF Process, Register, Stop, Heartbeat, Expire, Listen, register_worker, stop,
                    send_heartbeat, heartbeat_expires, _preemption_listener, redis
<1>7. ASSUME NEW w \in Workers, NEW k \in Slots, Poll(w, k) PROVE AssignmentsExist'
  BY <1>a, <1>b, <1>7, PoppedExist DEF Poll, poll_assignment
<1>8. ASSUME NEW w \in Workers, NEW k \in Slots, Execution(w, k), ~Poll(w, k)
      PROVE  AssignmentsExist'
  BY <1>8, <1>c DEF Execution, Fetch, FetchError, ReportRunning, ReportCompletion,
                    ReportFailure, ReportLost, Run, Finally, RedisError, fetch_task, fetch_error,
                    run_task, finally, add_active_task_error, remove_active_task_error,
                    update_task_state, complete_task, fail_task, redis
<1> QED
  BY <1>1, <1>2, <1>3, <1>4, <1>5, <1>6, <1>7, <1>8 DEF Next, Loops

\* Every step keeps the executions to ids of rows.
LEMMA ExecutionsStep ==
    ASSUME RInv, [Next]_vars
    PROVE  ExecutionsExist'
<1> USE DEF RInv, IInv, TypeOK
<1>a. AssignmentsExist /\ ExecutionsExist /\ ObjectsLegal
  BY DEF LifeInv
<1>b. \A u \in Tasks : Exists(u) => Exists(u)'
  BY <1>a, StepEffect, ExistsStable
<1>c. ASSUME UNCHANGED exec PROVE ExecutionsExist'
  BY <1>a, <1>b, <1>c, KeepExecutions
<1>1. CASE UNCHANGED vars
  BY <1>1, <1>c DEF vars
<1>2. CASE Handlers
  BY <1>2, <1>c DEF Handlers, Create, Cancel, Respond, HandlerError, Timeout, PostHeartbeat,
                    main, nodeVars, history
<1>3. CASE Loops
  BY <1>3, <1>c DEF Loops, Reconcile, ReconcileError, Tick, TickError, Detect, DetectError,
                    MasterRestart, nodeVars, history
<1>4. ASSUME NEW w \in Workers, Register(w) \/ Heartbeat(w) \/ Expire(w)
      PROVE  ExecutionsExist'
  BY <1>4, <1>c DEF Register, Heartbeat, Expire, register_with_master, send_heartbeat,
                    heartbeat_expires, nodeVars, history
<1>5. ASSUME NEW w \in Workers, Stop(w) PROVE ExecutionsExist'
  <2>1. \A v \in Workers, k \in Slots : exec'[v][k] = Free \/ exec'[v][k] = exec[v][k]
    BY <1>5 DEF Stop, stop, NodeTypeOK
  <2> QED
    BY <1>a, <1>b, <2>1, KeepExecutions DEF Free
<1>6. ASSUME NEW w \in Workers, Listen(w) PROVE ExecutionsExist'
  <2>1. \A v \in Workers, k \in Slots : /\ exec'[v][k].stage = exec[v][k].stage
                                        /\ exec'[v][k].task = exec[v][k].task
    <3>1. CASE UNCHANGED exec
      BY <3>1
    <3>2. ASSUME NEW j, exec' = [exec EXCEPT ![w][j].cancel = TRUE]
          PROVE  \A v \in Workers, k \in Slots : /\ exec'[v][k].stage = exec[v][k].stage
                                                 /\ exec'[v][k].task = exec[v][k].task
      BY <3>2 DEF NodeTypeOK, Coroutine
    <3> QED
      BY <1>6, <3>1, <3>2 DEF Listen, _preemption_listener
  <2> QED
    BY <1>a, <1>b, <2>1, KeepExecutions
<1>7. ASSUME NEW w \in Workers, NEW k \in Slots, Poll(w, k) PROVE ExecutionsExist'
  <2> DEFINE t == Head(assignments[w])
             x == [Free EXCEPT !.stage = "fetch", !.task = t]
  <2>1. x.task = t
    BY DEF Free
  <2>2. /\ exec' = [exec EXCEPT ![w][k] = x]
        /\ assignments[w] # <<>> /\ assignments' = [assignments EXCEPT ![w] = Tail(@)]
    BY <1>7 DEF Poll, poll_assignment
  <2>3. t \in Tasks /\ Exists(t)
    BY <1>a, <1>b, <2>2, PoppedExist
  <2> HIDE DEF t, x
  <2>4. \A v \in Workers, j \in Slots :
            exec'[v][j] = IF v = w /\ j = k THEN x ELSE exec[v][j]
    BY <2>2 DEF NodeTypeOK
  <2>5. ASSUME NEW v \in Workers, NEW j \in Slots
        PROVE  \/ exec'[v][j].stage = "free"
               \/ exec[v][j].stage # "free" /\ exec'[v][j].task = exec[v][j].task
               \/ exec'[v][j].task \in Tasks /\ Exists(exec'[v][j].task)
    <3>1. CASE v = w /\ j = k
      BY <2>1, <2>3, <2>4, <3>1
    <3>2. CASE ~(v = w /\ j = k)
      BY <2>4, <3>2
    <3> QED
      BY <3>1, <3>2
  <2> QED
    BY <1>a, <1>b, <2>5, KeepExecutions
<1>8. ASSUME NEW w \in Workers, NEW k \in Slots, Execution(w, k), ~Poll(w, k)
      PROVE  ExecutionsExist'
  <2>1. exec[w][k].stage # "free" /\ exec[w][k] \in Coroutine
    BY <1>8 DEF Execution, Fetch, FetchError, ReportRunning, ReportCompletion, ReportFailure,
                ReportLost, Run, Finally, RedisError, fetch_task, fetch_error, _report_state,
                _report_completion, _report_failure, run_task, finally,
                add_active_task_error, remove_active_task_error, At, NodeTypeOK
  <2>2. \/ exec' = [exec EXCEPT ![w][k] = Free]
        \/ \E st \in Stage : exec' = [exec EXCEPT ![w][k].stage = st]
        \/ \E st \in Stage : exec' = [exec EXCEPT ![w][k].stage = st, ![w][k].fetched = TRUE]
    BY <1>8 DEF Execution, Fetch, FetchError, ReportRunning, ReportCompletion, ReportFailure,
                ReportLost, Run, Finally, RedisError, fetch_task, fetch_error, _report_state,
                _report_completion, _report_failure, run_task, finally,
                add_active_task_error, remove_active_task_error, Stage
  <2>3. ASSUME NEW v \in Workers, NEW j \in Slots
        PROVE  \/ exec'[v][j].stage = "free"
               \/ v = w /\ j = k /\ exec'[v][j].task = exec[v][j].task
               \/ exec'[v][j] = exec[v][j]
    <3>1. CASE exec' = [exec EXCEPT ![w][k] = Free]
      BY <3>1 DEF NodeTypeOK, Free
    <3>2. ASSUME NEW st \in Stage, exec' = [exec EXCEPT ![w][k].stage = st]
          PROVE  \/ v = w /\ j = k /\ exec'[v][j].task = exec[v][j].task
                 \/ exec'[v][j] = exec[v][j]
      BY <2>1, <3>2 DEF NodeTypeOK, Coroutine
    <3>3. ASSUME NEW st \in Stage,
                 exec' = [exec EXCEPT ![w][k].stage = st, ![w][k].fetched = TRUE]
          PROVE  \/ v = w /\ j = k /\ exec'[v][j].task = exec[v][j].task
                 \/ exec'[v][j] = exec[v][j]
      BY <2>1, <3>3 DEF NodeTypeOK, Coroutine
    <3> QED
      BY <2>2, <3>1, <3>2, <3>3
  <2>4. ASSUME NEW v \in Workers, NEW j \in Slots
        PROVE  \/ exec'[v][j].stage = "free"
               \/ exec[v][j].stage # "free" /\ exec'[v][j].task = exec[v][j].task
    BY <2>1, <2>3
  <2> QED
    BY <1>a, <1>b, <2>4, KeepExecutions
<1> QED
  BY <1>1, <1>2, <1>3, <1>4, <1>5, <1>6, <1>7, <1>8 DEF Next, Process

\* The invariant of the refinement.
LEMMA LifecycleInvariance == Spec => []RInv
<1>1. Init => LifeInv
  <2> SUFFICES ASSUME Init PROVE LifeInv
    OBVIOUS
  <2>1. /\ \A t \in Tasks : tasks[t].state = "ABSENT"
        /\ \A a \in Actors, t \in Tasks : session_tasks[a][t] = None
    BY DEF Init, StoresInit
  <2>2. \A w \in Workers : assignments[w] = <<>>
    BY DEF Init, StoresInit
  <2>3. \A w \in Workers, k \in Slots : exec[w][k].stage = "free"
    BY DEF Init, NodeInit, Free
  <2>4. AssignmentsExist
    BY <2>2 DEF AssignmentsExist
  <2> QED
    BY <2>1, <2>3, <2>4 DEF LifeInv, ObjectsLegal, Minting, SessionsExist, ExecutionsExist
<1>2. IInv /\ SInv /\ DInv /\ LifeInv /\ [Next]_vars => LifeInv'
  <2> SUFFICES ASSUME RInv, [Next]_vars PROVE LifeInv'
    BY DEF RInv
  <2>1. ObjectsLegal' /\ Minting' /\ SessionsExist'
    BY StepEffect, ObjectsStep DEF RInv, IInv, TypeOK, LifeInv
  <2> QED
    BY <2>1, AssignmentsStep, ExecutionsStep DEF LifeInv
<1> QED
  BY <1>1, <1>2, Invariance, SchedulerInvariance, DetectorInvariance, PTL DEF Spec, RInv

-----------------------------------------------------------------------------
(* The refinement *)

\* The mapped variables.
State == [t \in Tasks |-> tasks[t].state]
Reads(a) == [t \in Tasks |-> IF session_tasks[a][t] = None THEN None
                             ELSE session_tasks[a][t].old.state]
Reading == [a \in Actors |-> Reads(a)]

\* A transaction that sets objects reads the rows it had not read.
LEMMA SetsRead ==
    ASSUME StoresTypeOK, NEW a \in Actors, Sets(a), UNCHANGED succeeded
    PROVE  Lifecycle!Read(a)
<1> DEFINE T == {t \in Tasks : session_tasks[a][t] = None /\ session_tasks'[a][t] # None}
<1>1. State' = State
  BY DEF Sets, State
<1>2. T \in SUBSET {t \in Tasks : Reading[a][t] = None}
  BY DEF Reading, Reads
<1>3. ASSUME NEW t \in Tasks
      PROVE  Reads(a)'[t] = IF t \in T THEN State[t] ELSE Reads(a)[t]
  BY DEF Sets, Reads, State
<1>4. \A b \in Actors \ {a} : Reads(b)' = Reads(b)
  BY DEF Sets, Reads
<1>5. Reads(a)' = [t \in Tasks |-> IF t \in T THEN State[t] ELSE Reading[a][t]]
  BY <1>3 DEF Reads, Reading
<1> HIDE DEF T
<1>6. Reading' = [Reading EXCEPT ![a] =
                    [t \in Tasks |-> IF t \in T THEN State[t] ELSE @[t]]]
  BY <1>4, <1>5 DEF Reading
<1> QED
  BY <1>1, <1>2, <1>6 DEF Lifecycle!Read, State, Reading, Reads

\* A transaction that ends, by a commit or a rollback, writes.
LEMMA EndsWrite ==
    ASSUME StoresTypeOK, StoresSound, ObjectsLegal, NEW a \in Actors, Ends(a),
           UNCHANGED succeeded
    PROVE  Lifecycle!Write(a)
<1>1. \A t \in Tasks : State[t] \in TaskState \cup {"ABSENT"}
  BY DEF State, StoresTypeOK, TaskRow
<1>2. ASSUME NEW t \in Tasks
      PROVE  \/ State'[t] = State[t]
             \/ /\ State'[t] \in TaskState
                /\ Reads(a)[t] # None
                /\ <<Reads(a)[t], State'[t]>> \in Lifecycle!Moves
                /\ State'[t] = "COMPLETED" => t \in succeeded
  <2>1. CASE UNCHANGED tasks
    BY <2>1 DEF State
  <2>2. CASE tasks' = [u \in Tasks |-> FlushedTask(a, u)]
    <3> DEFINE o == session_tasks[a][t]
    <3>1. State'[t] = FlushedTask(a, t).state
      BY <2>2 DEF State
    <3>2. CASE FlushedTask(a, t).state = tasks[t].state
      BY <3>1, <3>2 DEF State
    <3>3. CASE /\ o # None /\ FlushedTask(a, t).state = o.new.state
               /\ <<o.old.state, FlushedTask(a, t).state>> \in Lifecycle!Moves
      <4>1. Reads(a)[t] = o.old.state
        BY <3>3 DEF Reads
      <4>2. o.old.state \in TaskState \cup {"ABSENT"}
        BY <3>3 DEF StoresTypeOK, Loaded, TaskRow
      <4>3. Sound(t, o.new)
        BY <3>3 DEF StoresSound
      <4>4. Reads(a)[t] # None
        BY <4>1, <4>2, NoneAssumption
      <4>5. State'[t] \in TaskState
        BY <3>1, <3>3, MovesEnd
      <4> QED
        BY <3>1, <3>3, <4>1, <4>3, <4>4, <4>5 DEF Sound
    <3> QED
      BY <3>2, <3>3, FlushedState
  <2> QED
    BY <2>1, <2>2 DEF Ends
<1>3. State' \in [Tasks -> TaskState \cup {"ABSENT"}]
  <2>1. \A t \in Tasks : State'[t] \in TaskState \cup {"ABSENT"}
    BY <1>1, <1>2
  <2> QED
    BY <2>1 DEF State
<1>4. \A b \in Actors : Reads(b)' = IF b = a THEN [t \in Tasks |-> None] ELSE Reads(b)
  <2>1. \A t \in Tasks : session_tasks'[a][t] = None
    BY DEF Ends, Forget, StoresTypeOK
  <2>2. \A b \in Actors \ {a} : session_tasks'[b] = session_tasks[b]
    BY DEF Ends, Forget, StoresTypeOK
  <2> QED
    BY <2>1, <2>2 DEF Reads
<1>5. Reading' = [Reading EXCEPT ![a] = [t \in Tasks |-> None]]
  BY <1>4 DEF Reading
<1>6. \A t \in Tasks :
        State'[t] \in {State[t]} \cup
                      {s \in TaskState : /\ Reading[a][t] # None
                                         /\ <<Reading[a][t], s>> \in Lifecycle!Moves
                                         /\ s = "COMPLETED" => t \in succeeded}
  <2>1. Reading[a] = Reads(a)
    BY DEF Reading
  <2> QED
    BY <1>2, <2>1
<1> QED
  BY <1>3, <1>5, <1>6 DEF Lifecycle!Write, Lifecycle!Outcomes, Lifecycle!NoReads,
                          Lifecycle!TaskState, TaskState, State, Reading, Reads

\* Every step of the cluster is a step of the abstract specification, or none.
LEMMA LifecycleStep ==
    ASSUME RInv, [Next]_vars
    PROVE  [Lifecycle!Next]_(Lifecycle!vars)
<1>a. StoresTypeOK /\ StoresSound /\ ObjectsLegal
  BY DEF RInv, IInv, TypeOK, LifeInv
<1>b. Effect
  BY StepEffect
<1>1. CASE Keeps
  <2>1. UNCHANGED <<State, Reading>>
    BY <1>1 DEF Keeps, State, Reading, Reads
  <2>2. CASE UNCHANGED succeeded
    BY <2>1, <2>2 DEF Lifecycle!vars, State, Reading, Reads
  <2>3. ASSUME NEW t \in Tasks, Exists(t), succeeded' = succeeded \cup {t}
        PROVE  Lifecycle!Succeed(t)
    <3>1. State[t] # "ABSENT"
      BY <2>3 DEF Exists, State
    <3> QED
      BY <2>1, <2>3, <3>1 DEF Lifecycle!Succeed, State, Reading, Reads
  <2> QED
    BY <1>1, <1>b, <2>2, <2>3 DEF Effect, Lifecycle!Next
<1>2. CASE Resets /\ UNCHANGED succeeded
  <2>1. UNCHANGED State
    BY <1>2 DEF Resets, State
  <2>2. Reading' = [a \in Actors |-> [t \in Tasks |-> None]]
    <3>1. \A a \in Actors, t \in Tasks : session_tasks'[a][t] = None
      BY <1>2 DEF Resets
    <3> QED
      BY <3>1 DEF Reading, Reads
  <2>3. Lifecycle!Restart
    BY <1>2, <2>1, <2>2 DEF Lifecycle!Restart, Lifecycle!NoReads, State, Reading, Reads
  <2> QED
    BY <2>3 DEF Lifecycle!Next
<1>3. ASSUME NEW a \in Actors, Sets(a) \/ Ends(a), UNCHANGED succeeded
      PROVE  Lifecycle!Next
  <2>1. Lifecycle!Read(a) \/ Lifecycle!Write(a)
    BY <1>3, <1>a, SetsRead, EndsWrite
  <2> QED
    BY <2>1 DEF Lifecycle!Next
<1> QED
  BY <1>b, <1>1, <1>2, <1>3 DEF Effect

\* The cluster implements the lifecycle it promises its clients: whatever the
\* handlers, the scheduler, the detector and the workers interleave, with
\* lost, late and repeated requests and restarts, a state a client can observe
\* was written by a transaction one legal move on from the state it had read,
\* and COMPLETED only of a task some execution has ended well.
THEOREM LifecycleImplemented == Spec => ImplementsLifecycle
<1>1. Init => Lifecycle!Init
  BY DEF Init, StoresInit, Lifecycle!Init, Lifecycle!NoReads
<1>2. RInv /\ [Next]_vars => [Lifecycle!Next]_(Lifecycle!vars)
  BY LifecycleStep
<1> QED
  BY <1>1, <1>2, LifecycleInvariance, PTL DEF Spec, ImplementsLifecycle, Lifecycle!Spec
====
