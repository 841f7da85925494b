---- MODULE WorkerProofs ----
(***************************************************************************)
(* Theorems about the executors of Cluster and the preemption signals they *)
(* get: the cancel events a worker keeps under its task ids are those of   *)
(* live executions of these tasks, only executions of one task that        *)
(* overlap lose theirs, and only tasks that another one outranks are ever  *)
(* cancelled.                                                              *)
(***************************************************************************)
EXTENDS LifecycleProofs

\* A coroutine that has ended, or has not begun, names no task.  The entry of a
\* task in _running_tasks points to a slot, and a slot is reused: without this
\* the property would not survive the next poll.
FreeNamesNoTask ==
    \A w \in Workers, k \in Slots : exec[w][k].stage = "free" => exec[w][k].task = None

SignalsInv == SignalsReachTheirTask /\ FreeNamesNoTask

\* Steps that register no event, end no execution and change no task id.
LEMMA KeepSignals ==
    ASSUME NodeTypeOK, SignalsInv, UNCHANGED <<running_tasks, overlapped>>,
           \A w \in Workers, k \in Slots :
                /\ exec'[w][k].task = exec[w][k].task
                /\ exec'[w][k].stage = "free" => exec[w][k].stage = "free"
    PROVE  SignalsInv'
<1>1. FreeNamesNoTask'
  BY DEF SignalsInv, FreeNamesNoTask
<1>2. SignalsReachTheirTask'
  <2> SUFFICES ASSUME NEW w \in Workers, NEW t \in Tasks
               PROVE  IF running_tasks[w][t] # None
                      THEN exec'[w][running_tasks[w][t]].task = t
                      ELSE t \in overlapped[w] \/ \A j \in Slots : exec'[w][j].task # t
    BY DEF SignalsReachTheirTask
  <2>1. running_tasks[w][t] \in Slots \cup {None}
    BY DEF NodeTypeOK
  <2> QED
    BY <2>1 DEF SignalsInv, SignalsReachTheirTask
<1> QED
  BY <1>1, <1>2 DEF SignalsInv

\* A coroutine that moves on to another stage keeps its task.
LEMMA StageSignals ==
    ASSUME NodeTypeOK, SignalsInv, UNCHANGED <<running_tasks, overlapped>>,
           NEW w \in Workers, NEW k \in Slots, NEW st \in Stage \ {"free"},
           exec' = [exec EXCEPT ![w][k].stage = st]
    PROVE  SignalsInv'
<1>1. exec[w][k] \in Coroutine
  BY DEF NodeTypeOK
<1>2. ASSUME NEW v \in Workers, NEW j \in Slots
      PROVE  /\ exec'[v][j].task = exec[v][j].task
             /\ exec'[v][j].stage = "free" => exec[v][j].stage = "free"
  <2>1. exec'[v][j] = IF v = w /\ j = k THEN [exec[w][k] EXCEPT !.stage = st] ELSE exec[v][j]
    BY DEF NodeTypeOK
  <2> QED
    BY <1>1, <2>1 DEF Coroutine
<1> QED
  BY <1>2, KeepSignals

\* So does one that reserves the resources of its task on the way.
LEMMA FetchSignals ==
    ASSUME NodeTypeOK, SignalsInv, UNCHANGED <<running_tasks, overlapped>>,
           NEW w \in Workers, NEW k \in Slots, NEW st \in {"report", "fail"},
           exec' = [exec EXCEPT ![w][k].stage = st, ![w][k].fetched = TRUE]
    PROVE  SignalsInv'
<1>1. exec[w][k] \in Coroutine
  BY DEF NodeTypeOK
<1>2. ASSUME NEW v \in Workers, NEW j \in Slots
      PROVE  /\ exec'[v][j].task = exec[v][j].task
             /\ exec'[v][j].stage = "free" => exec[v][j].stage = "free"
  <2>1. exec'[v][j] = IF v = w /\ j = k
                      THEN [exec[w][k] EXCEPT !.stage = st, !.fetched = TRUE]
                      ELSE exec[v][j]
    BY DEF NodeTypeOK
  <2>2. /\ [exec[w][k] EXCEPT !.stage = st, !.fetched = TRUE].task = exec[w][k].task
        /\ [exec[w][k] EXCEPT !.stage = st, !.fetched = TRUE].stage = st
    BY <1>1 DEF Coroutine
  <2> QED
    BY <2>1, <2>2
<1> QED
  BY <1>2, KeepSignals

\* BLPOP takes a free slot, which no registered event points to, and registers
\* the new event in the place of the task's earlier one.
LEMMA PollSignals ==
    ASSUME NodeTypeOK, StoresTypeOK, SignalsInv,
           NEW w \in Workers, NEW k \in Slots, poll_assignment(w, k)
    PROVE  SignalsInv'
<1> DEFINE t == Head(assignments[w])
           x == [Free EXCEPT !.stage = "fetch", !.task = t]
<1>1. t \in Tasks
  <2>1. assignments[w] \in Seq(Tasks) /\ assignments[w] # <<>>
    BY DEF StoresTypeOK, poll_assignment
  <2> QED
    BY <2>1
<1>2. x.task = t /\ x.stage = "fetch"
  BY DEF Free
<1>3. /\ exec' = [exec EXCEPT ![w][k] = x]
      /\ running_tasks' = [running_tasks EXCEPT ![w][t] = k]
      /\ exec[w][k].stage = "free"
      /\ Overlap(w, k, t)
  BY DEF poll_assignment, FreeSlot
<1> HIDE DEF t, x
<1>4. \A v \in Workers, j \in Slots :
        exec'[v][j] = IF v = w /\ j = k THEN x ELSE exec[v][j]
  BY <1>3 DEF NodeTypeOK
<1>5. FreeNamesNoTask'
  BY <1>2, <1>4 DEF SignalsInv, FreeNamesNoTask
<1>6. ASSUME NEW v \in Workers, NEW u \in Tasks
      PROVE  IF running_tasks'[v][u] # None
             THEN exec'[v][running_tasks'[v][u]].task = u
             ELSE u \in overlapped'[v] \/ \A j \in Slots : exec'[v][j].task # u
  <2>1. CASE v = w /\ u = t
    <3>1. running_tasks'[v][u] = k /\ k # None
      BY <1>1, <1>3, <2>1, NoneAssumption DEF NodeTypeOK
    <3> QED
      BY <1>2, <1>4, <2>1, <3>1
  <2>2. CASE ~(v = w /\ u = t)
    <3>1. running_tasks'[v][u] = running_tasks[v][u] /\ running_tasks[v][u] \in Slots \cup {None}
      BY <1>1, <1>3, <2>2 DEF NodeTypeOK
    <3>2. u \in overlapped[v] => u \in overlapped'[v]
      BY <1>3, <2>2 DEF Overlap, NodeTypeOK
    <3>3. exec[w][k].task = None
      BY <1>3 DEF SignalsInv, FreeNamesNoTask
    <3>4. CASE running_tasks[v][u] # None
      <4>1. exec[v][running_tasks[v][u]].task = u
        BY <3>4 DEF SignalsInv, SignalsReachTheirTask
      <4>2. ~(v = w /\ running_tasks[v][u] = k)
        BY <3>3, <4>1, NoneAssumption
      <4> QED
        BY <1>4, <3>1, <3>4, <4>1, <4>2
    <3>5. CASE running_tasks[v][u] = None
      <4>1. u \in overlapped[v] \/ \A j \in Slots : exec[v][j].task # u
        BY <3>5 DEF SignalsInv, SignalsReachTheirTask
      <4> QED
        BY <1>2, <1>4, <2>2, <3>1, <3>2, <3>5, <4>1
    <3> QED
      BY <3>4, <3>5
  <2> QED
    BY <2>1, <2>2
<1> QED
  BY <1>5, <1>6 DEF SignalsInv, SignalsReachTheirTask

\* The end of an execution drops the entry of its own task: an event of the
\* same task's other execution goes with it, and the history says so; one of
\* another task does not point to the coroutine that ends.
LEMMA EndSignals ==
    ASSUME NodeTypeOK, SignalsInv, NEW w \in Workers, NEW k \in Slots,
           At(w, k, "finally"),
           exec' = [exec EXCEPT ![w][k] = Free],
           running_tasks' = [running_tasks EXCEPT ![w][exec[w][k].task] = None],
           Overlap(w, k, exec[w][k].task)
    PROVE  SignalsInv'
<1> DEFINE t == exec[w][k].task
<1>1. t \in Tasks
  BY DEF At, NodeTypeOK
<1>2. Free.stage = "free" /\ Free.task = None
  BY DEF Free
<1>3. \A v \in Workers, j \in Slots :
        exec'[v][j] = IF v = w /\ j = k THEN Free ELSE exec[v][j]
  BY DEF NodeTypeOK
<1>4. FreeNamesNoTask'
  BY <1>2, <1>3 DEF SignalsInv, FreeNamesNoTask
<1>5. ASSUME NEW v \in Workers, NEW u \in Tasks
      PROVE  IF running_tasks'[v][u] # None
             THEN exec'[v][running_tasks'[v][u]].task = u
             ELSE u \in overlapped'[v] \/ \A j \in Slots : exec'[v][j].task # u
  <2>1. CASE v = w /\ u = t
    <3>1. running_tasks'[v][u] = None
      BY <1>1, <2>1 DEF NodeTypeOK
    <3>2. CASE \E j \in Slots \ {k} : exec[w][j].task = t
      BY <1>1, <2>1, <3>1, <3>2 DEF Overlap, NodeTypeOK
    <3>3. CASE ~ \E j \in Slots \ {k} : exec[w][j].task = t
      BY <1>1, <1>2, <1>3, <2>1, <3>1, <3>3, NoneAssumption
    <3> QED
      BY <3>2, <3>3
  <2>2. CASE ~(v = w /\ u = t)
    <3>1. running_tasks'[v][u] = running_tasks[v][u] /\ running_tasks[v][u] \in Slots \cup {None}
      BY <1>1, <2>2 DEF NodeTypeOK
    <3>2. u \in overlapped[v] => u \in overlapped'[v]
      BY <2>2 DEF Overlap, NodeTypeOK
    <3>3. CASE running_tasks[v][u] # None
      <4>1. exec[v][running_tasks[v][u]].task = u
        BY <3>3 DEF SignalsInv, SignalsReachTheirTask
      <4>2. ~(v = w /\ running_tasks[v][u] = k)
        BY <2>2, <4>1
      <4> QED
        BY <1>3, <3>1, <3>3, <4>1, <4>2
    <3>4. CASE running_tasks[v][u] = None
      <4>1. u \in overlapped[v] \/ \A j \in Slots : exec[v][j].task # u
        BY <3>4 DEF SignalsInv, SignalsReachTheirTask
      <4> QED
        BY <1>2, <1>3, <3>1, <3>2, <3>4, <4>1, NoneAssumption
    <3> QED
      BY <3>3, <3>4
  <2> QED
    BY <2>1, <2>2
<1> QED
  BY <1>4, <1>5 DEF SignalsInv, SignalsReachTheirTask

\* Every stage of _execute_task keeps the events where they belong.
LEMMA ExecutionSignals ==
    ASSUME NodeTypeOK, StoresTypeOK, SignalsInv,
           NEW w \in Workers, NEW k \in Slots, Execution(w, k)
    PROVE  SignalsInv'
<1>1. CASE Poll(w, k)
  BY <1>1, PollSignals DEF Poll
<1>2. CASE Fetch(w, k)
  BY <1>2, FetchSignals DEF Fetch, fetch_task, history
<1>3. CASE FetchError(w, k)
  BY <1>3, StageSignals DEF FetchError, fetch_error, Stage, history
<1>4. CASE ReportRunning(w, k)
  BY <1>4, StageSignals DEF ReportRunning, _report_state, Stage, history
<1>5. CASE ReportCompletion(w, k)
  BY <1>5, StageSignals DEF ReportCompletion, _report_completion, Stage, history
<1>6. CASE ReportFailure(w, k)
  BY <1>6, StageSignals DEF ReportFailure, _report_failure, Stage, history
<1>7. CASE ReportLost(w, k)
  BY <1>7, StageSignals
  DEF ReportLost, _report_state, _report_completion, _report_failure, Stage, history
<1>8. CASE Run(w, k)
  BY <1>8, StageSignals DEF Run, run_task, Stage, history
<1>9. CASE Finally(w, k)
  BY <1>9, EndSignals DEF Finally, finally
<1>10. CASE RedisError(w, k)
  <2>1. CASE add_active_task_error(w, k)
    BY <2>1, FetchSignals DEF add_active_task_error, history
  <2>2. CASE remove_active_task_error(w, k)
    BY <2>2, EndSignals DEF remove_active_task_error
  <2> QED
    BY <1>10, <2>1, <2>2 DEF RedisError
<1> QED
  BY <1>1, <1>2, <1>3, <1>4, <1>5, <1>6, <1>7, <1>8, <1>9, <1>10 DEF Execution

\* Every step of the cluster keeps the events where they belong.
LEMMA SignalsStep ==
    TypeOK /\ SignalsInv /\ [Next]_vars => SignalsInv'
<1> SUFFICES ASSUME StoresTypeOK, NodeTypeOK, SignalsInv, [Next]_vars
             PROVE  SignalsInv'
  BY DEF TypeOK
<1>1. ASSUME UNCHANGED <<exec, running_tasks, overlapped>> PROVE SignalsInv'
  BY <1>1, KeepSignals
<1>2. CASE UNCHANGED vars
  BY <1>2, <1>1 DEF vars
<1>3. CASE Handlers
  BY <1>3, <1>1 DEF Handlers, Create, Cancel, Respond, HandlerError, Timeout, PostHeartbeat,
                    main, nodeVars, history
<1>4. CASE Loops
  BY <1>4, <1>1 DEF Loops, Reconcile, ReconcileError, Tick, TickError, Detect, DetectError,
                    MasterRestart, nodeVars, history
<1>5. ASSUME NEW w \in Workers, Register(w) \/ Heartbeat(w) \/ Expire(w)
      PROVE  SignalsInv'
  BY <1>5, <1>1 DEF Register, Heartbeat, Expire, register_with_master, send_heartbeat,
                    heartbeat_expires, nodeVars, history
<1>6. ASSUME NEW w \in Workers, Stop(w) PROVE SignalsInv'
  <2>1. /\ exec' = [exec EXCEPT ![w] = [k \in Slots |-> Free]]
        /\ running_tasks' = [running_tasks EXCEPT ![w] = [t \in Tasks |-> None]]
    BY <1>6 DEF Stop, stop
  <2>2. \A k \in Slots : exec'[w][k] = Free
    BY <2>1 DEF NodeTypeOK
  <2>3. Free.task = None
    BY DEF Free
  <2>4. \A t \in Tasks : running_tasks'[w][t] = None
    BY <2>1 DEF NodeTypeOK
  <2>5. \A v \in Workers : v # w => /\ running_tasks'[v] = running_tasks[v]
                                    /\ exec'[v] = exec[v]
                                    /\ overlapped'[v] = overlapped[v]
    BY <1>6, <2>1 DEF NodeTypeOK, Stop, stop
  <2>6. FreeNamesNoTask'
    BY <2>2, <2>3, <2>5 DEF SignalsInv, FreeNamesNoTask
  <2>7. SignalsReachTheirTask'
    BY <2>2, <2>3, <2>4, <2>5, NoneAssumption DEF SignalsInv, SignalsReachTheirTask
  <2> QED
    BY <2>6, <2>7 DEF SignalsInv
<1>7. ASSUME NEW w \in Workers, Listen(w) PROVE SignalsInv'
  <2>1. \A v \in Workers, k \in Slots : /\ exec'[v][k].stage = exec[v][k].stage
                                        /\ exec'[v][k].task = exec[v][k].task
    <3>1. CASE UNCHANGED exec
      BY <3>1
    <3>2. ASSUME NEW j, exec' = [exec EXCEPT ![w][j].cancel = TRUE]
          PROVE  \A v \in Workers, k \in Slots : /\ exec'[v][k].stage = exec[v][k].stage
                                                 /\ exec'[v][k].task = exec[v][k].task
      BY <3>2 DEF NodeTypeOK, Coroutine
    <3> QED
      BY <1>7, <3>1, <3>2 DEF Listen, _preemption_listener
  <2>2. UNCHANGED <<running_tasks, overlapped>>
    BY <1>7 DEF Listen, _preemption_listener, history
  <2> QED
    BY <2>1, <2>2, KeepSignals
<1>8. ASSUME NEW w \in Workers, NEW k \in Slots, Execution(w, k)
      PROVE  SignalsInv'
  BY <1>8, ExecutionSignals
<1> QED
  BY <1>2, <1>3, <1>4, <1>5, <1>6, <1>7, <1>8 DEF Next, Process

\* The invariant of the registered events holds.
LEMMA SignalsInvariance == Spec => []SignalsInv
<1>1. Init => SignalsInv
  <2> SUFFICES ASSUME Init PROVE SignalsInv
    OBVIOUS
  <2>1. \A w \in Workers, k \in Slots : exec[w][k] = Free
    BY DEF Init, NodeInit
  <2>2. \A w \in Workers, t \in Tasks : running_tasks[w][t] = None
    BY DEF Init, NodeInit
  <2>3. Free.task = None
    BY DEF Free
  <2> QED
    BY <2>1, <2>2, <2>3, NoneAssumption DEF SignalsInv, SignalsReachTheirTask, FreeNamesNoTask
<1>2. TypeOK /\ SignalsInv /\ [Next]_vars => SignalsInv'
  BY SignalsStep
<1> QED
  BY <1>1, <1>2, TypeCorrect, PTL DEF Spec

\* A preemption signal is never delivered to the execution of another task or
\* to a coroutine that has ended, and an execution no signal can reach is one
\* that overlaps, or has overlapped, another execution of its task: this is the
\* whole damage of the entry the finally blocks of _execute_task share.
THEOREM SignalsSound == Spec => []SignalsReachTheirTask
<1>1. SignalsInv => SignalsReachTheirTask
  BY DEF SignalsInv
<1> QED
  BY <1>1, SignalsInvariance, PTL

-----------------------------------------------------------------------------
(* From the plan of the scheduler to the cancel event *)

OutrankedIn(S, t) == \E u \in S : priority[u] > priority[t]

\* The signals on their way name outranked tasks.  The ids drawn so far only
\* grow, so a signal stays right however late it is read.
SignalsOutranked ==
    \A w \in Workers : \A i \in 1..Len(preempts[w]) : OutrankedIn(minted, preempts[w][i])

\* A victim of the plan is outranked by the task the plan makes room for,
\* which the session has read and which therefore has been created.
LEMMA VictimOutranked ==
    ASSUME RInv, NEW v \in Tasks, evict(v)
    PROVE  OutrankedIn(minted, v)
<1> USE DEF RInv, SInv, LifeInv, TypeOK
<1>1. sched.phase = "evict" /\ v \in sched.plan.victims
  BY DEF evict
<1>2. sched.plan.task \in Tasks
  BY <1>1 DEF SchedTypeOK
<1>3. Object(sched.plan.task) # None /\ Doomed(v)
  BY <1>1 DEF SessionInv, PlanInv
<1>4. sched.plan.task \in minted
  BY <1>2, <1>3 DEF Minting, Object, Actors
<1>5. priority[sched.plan.task] > priority[v]
  BY <1>2, <1>3, ColumnsAssumption DEF Doomed
<1> QED
  BY <1>4, <1>5 DEF OutrankedIn

\* RPUSH of a signal.
LEMMA PushedOutranked ==
    ASSUME StoresTypeOK, SignalsOutranked, UNCHANGED minted,
           NEW w \in Workers, NEW v \in Tasks, OutrankedIn(minted, v),
           preempts' = [preempts EXCEPT ![w] = Append(@, v)]
    PROVE  SignalsOutranked'
<1> SUFFICES ASSUME NEW u \in Workers, NEW i \in 1..Len(preempts'[u])
             PROVE  OutrankedIn(minted, preempts'[u][i])
  BY DEF SignalsOutranked
<1>1. preempts'[u] = IF u = w THEN Append(preempts[w], v) ELSE preempts[u]
  BY DEF StoresTypeOK
<1>2. PICK q \in Seq(Tasks) : q = preempts[u]
  BY DEF StoresTypeOK
<1>3. \A j \in 1..Len(q) : OutrankedIn(minted, q[j])
  BY <1>2 DEF SignalsOutranked
<1>4. CASE u # w
  BY <1>1, <1>2, <1>3, <1>4
<1>5. CASE u = w
  <2>1. i \in 1..(Len(q) + 1)
    BY <1>1, <1>2, <1>5
  <2>2. preempts'[u][i] = IF i = Len(q) + 1 THEN v ELSE q[i]
    BY <1>1, <1>2, <1>5, <2>1
  <2>3. i # Len(q) + 1 => i \in 1..Len(q)
    BY <2>1
  <2> QED
    BY <1>3, <2>2, <2>3
<1> QED
  BY <1>4, <1>5

\* LPOP of a signal.
LEMMA PoppedOutranked ==
    ASSUME StoresTypeOK, SignalsOutranked, UNCHANGED minted,
           NEW w \in Workers, preempts[w] # <<>>,
           preempts' = [preempts EXCEPT ![w] = Tail(@)]
    PROVE  /\ SignalsOutranked'
           /\ Head(preempts[w]) \in Tasks /\ OutrankedIn(minted, Head(preempts[w]))
<1>1. ASSUME NEW u \in Workers, NEW i \in 1..Len(preempts'[u])
      PROVE  OutrankedIn(minted, preempts'[u][i])
  <2>1. preempts'[u] = IF u = w THEN Tail(preempts[w]) ELSE preempts[u]
    BY DEF StoresTypeOK
  <2>2. CASE u # w
    BY <1>1, <2>1, <2>2 DEF SignalsOutranked
  <2>3. CASE u = w
    <3>1. PICK q \in Seq(Tasks) : q = preempts[w] /\ q # <<>>
      BY DEF StoresTypeOK
    <3>2. i \in 1..Len(Tail(q))
      BY <1>1, <2>1, <2>3, <3>1
    <3>3. i + 1 \in 1..Len(q) /\ Tail(q)[i] = q[i + 1]
      BY <3>1, <3>2
    <3> QED
      BY <2>1, <2>3, <3>1, <3>3 DEF SignalsOutranked
  <2> QED
    BY <2>2, <2>3
<1>2. PICK q \in Seq(Tasks) : q = preempts[w] /\ q # <<>>
  BY DEF StoresTypeOK
<1>3. Head(q) \in Tasks /\ Head(q) = q[1] /\ 1 \in 1..Len(q)
  BY <1>2
<1> QED
  BY <1>1, <1>2, <1>3 DEF SignalsOutranked

\* Every step keeps the signals to outranked tasks.
LEMMA SignalsOutrankedStep ==
    ASSUME RInv, SignalsOutranked, [Next]_vars
    PROVE  SignalsOutranked'
<1> USE DEF RInv, IInv, TypeOK
<1>a. minted \subseteq minted'
  BY StepEffect DEF Effect
<1>b. ASSUME UNCHANGED preempts PROVE SignalsOutranked'
  BY <1>a, <1>b DEF SignalsOutranked, OutrankedIn
<1>1. CASE UNCHANGED vars
  BY <1>1, <1>b DEF vars
<1>2. CASE Handlers
  BY <1>2, <1>b DEF Handlers, Create, Cancel, Respond, HandlerError, Timeout, PostHeartbeat,
                    create_task, cancel_task, commit, abort, heartbeat, redis
<1>3. CASE Reconcile \/ ReconcileError
  BY <1>3, <1>b DEF Reconcile, ReconcileError, _reconcile_pending_tasks, enqueue_missing,
                    _reconcile_scheduled_tasks, repush, reconciled, reconcile_abort, redis
<1>4. CASE Tick \/ TickError
  <2>1. ASSUME NEW v \in Tasks, evict(v), UNCHANGED apiVars PROVE SignalsOutranked'
    <3>1. sched.plan.worker \in Workers
      BY <2>1 DEF evict, SchedTypeOK
    <3>2. preempts' = [preempts EXCEPT ![sched.plan.worker] = Append(@, v)]
      BY <2>1 DEF evict, send_preempt_signal
    <3>3. OutrankedIn(minted, v)
      BY <2>1, VictimOutranked
    <3> QED
      BY <2>1, <3>1, <3>2, <3>3, PushedOutranked DEF apiVars
  <2>2. ASSUME ~ \E v \in Tasks : evict(v) PROVE SignalsOutranked'
    BY <1>4, <1>b, <2>2 DEF Tick, TickError, _tick, _schedule_batch, skip, _try_schedule_task,
                    preempt, no_capacity, place, batch_commit, batch_abort, redis
  <2> QED
    BY <1>4, <2>1, <2>2 DEF Tick, TickError, batch_abort
<1>5. CASE Detect \/ DetectError
  BY <1>5, <1>b DEF Detect, DetectError, _check_all_workers, is_alive, _handle_dead_worker,
                    requeue, exhausted, raise, handled, fd_commit, fd_abort, redis
<1>6. CASE MasterRestart
  BY <1>6, <1>b DEF MasterRestart, redis
<1>7. ASSUME NEW w \in Workers, Process(w), ~Listen(w) PROVE SignalsOutranked'
  BY <1>7, <1>b DEF Process, Register, Stop, Heartbeat, Expire, register_worker, stop,
                    send_heartbeat, heartbeat_expires, redis
<1>8. ASSUME NEW w \in Workers, Listen(w) PROVE SignalsOutranked'
  BY <1>8, PoppedOutranked DEF Listen, _preemption_listener, apiVars
<1>9. ASSUME NEW w \in Workers, NEW k \in Slots, Execution(w, k) PROVE SignalsOutranked'
  BY <1>9, <1>b DEF Execution, Poll, Fetch, FetchError, ReportRunning, ReportCompletion,
                    ReportFailure, ReportLost, Run, Finally, RedisError, poll_assignment,
                    fetch_task, fetch_error, run_task, finally, add_active_task_error,
                    remove_active_task_error, update_task_state, complete_task, fail_task,
                    redis
<1> QED
  BY <1>1, <1>2, <1>3, <1>4, <1>5, <1>6, <1>7, <1>8, <1>9 DEF Next, Loops

\* Steps that set no cancel event.
LEMMA KeepCancels ==
    ASSUME OnlyOutrankedAreCancelled, minted \subseteq minted',
           \A w \in Workers, k \in Slots :
                exec'[w][k].cancel => /\ exec[w][k].cancel
                                      /\ exec'[w][k].task = exec[w][k].task
    PROVE  OnlyOutrankedAreCancelled'
BY DEF OnlyOutrankedAreCancelled

\* A stage of _execute_task sets none: it keeps the event with the task, or
\* drops both.
LEMMA ExecutionCancels ==
    ASSUME NodeTypeOK, NEW w \in Workers, NEW k \in Slots, Execution(w, k),
           NEW v \in Workers, NEW j \in Slots, exec'[v][j].cancel
    PROVE  exec[v][j].cancel /\ exec'[v][j].task = exec[v][j].task
<1>1. exec[w][k] \in Coroutine
  BY DEF NodeTypeOK
<1>2. ASSUME NEW x, exec' = [exec EXCEPT ![w][k] = x],
             x.cancel => exec[w][k].cancel /\ x.task = exec[w][k].task
      PROVE  exec[v][j].cancel /\ exec'[v][j].task = exec[v][j].task
  <2>1. exec'[v][j] = IF v = w /\ j = k THEN x ELSE exec[v][j]
    BY <1>2 DEF NodeTypeOK
  <2> QED
    BY <1>2, <2>1
<1>3. CASE Poll(w, k)
  <2> DEFINE x == [Free EXCEPT !.stage = "fetch", !.task = Head(assignments[w])]
  <2>1. exec' = [exec EXCEPT ![w][k] = x]
    BY <1>3 DEF Poll, poll_assignment
  <2>2. x.cancel = FALSE
    BY DEF Free
  <2> HIDE DEF x
  <2> QED
    BY <1>2, <2>1, <2>2
<1>4. ASSUME NEW st, exec' = [exec EXCEPT ![w][k].stage = st]
      PROVE  exec[v][j].cancel /\ exec'[v][j].task = exec[v][j].task
  <2> DEFINE x == [exec[w][k] EXCEPT !.stage = st]
  <2>1. exec' = [exec EXCEPT ![w][k] = x]
    BY <1>4
  <2>2. x.cancel = exec[w][k].cancel /\ x.task = exec[w][k].task
    BY <1>1 DEF Coroutine
  <2> HIDE DEF x
  <2> QED
    BY <1>2, <2>1, <2>2
<1>5. ASSUME NEW st, exec' = [exec EXCEPT ![w][k].stage = st, ![w][k].fetched = TRUE]
      PROVE  exec[v][j].cancel /\ exec'[v][j].task = exec[v][j].task
  <2> DEFINE x == [exec[w][k] EXCEPT !.stage = st, !.fetched = TRUE]
  <2>1. exec' = [exec EXCEPT ![w][k] = x]
    BY <1>5 DEF NodeTypeOK
  <2>2. x.cancel = exec[w][k].cancel /\ x.task = exec[w][k].task
    BY <1>1 DEF Coroutine
  <2> HIDE DEF x
  <2> QED
    BY <1>2, <2>1, <2>2
<1>6. CASE exec' = [exec EXCEPT ![w][k] = Free]
  <2>1. Free.cancel = FALSE
    BY DEF Free
  <2> QED
    BY <1>2, <1>6, <2>1
<1>7. CASE Fetch(w, k)
  BY <1>5, <1>7 DEF Fetch, fetch_task
<1>8. CASE FetchError(w, k) \/ Run(w, k)
  BY <1>4, <1>8 DEF FetchError, fetch_error, Run, run_task
<1>9. CASE ReportRunning(w, k) \/ ReportCompletion(w, k) \/ ReportFailure(w, k) \/ ReportLost(w, k)
  BY <1>4, <1>9 DEF ReportRunning, ReportCompletion, ReportFailure, ReportLost, _report_state,
                    _report_completion, _report_failure
<1>10. CASE Finally(w, k)
  BY <1>6, <1>10 DEF Finally, finally
<1>11. CASE RedisError(w, k)
  BY <1>5, <1>6, <1>11 DEF RedisError, add_active_task_error, remove_active_task_error
<1> QED
  BY <1>3, <1>7, <1>8, <1>9, <1>10, <1>11 DEF Execution

\* The listener sets the event of the task the signal names.
LEMMA ListenCancels ==
    ASSUME StoresTypeOK, NodeTypeOK, SignalsInv, SignalsOutranked, OnlyOutrankedAreCancelled,
           NEW w \in Workers, Listen(w)
    PROVE  OnlyOutrankedAreCancelled'
<1> DEFINE t == Head(preempts[w])
           k == running_tasks[w][t]
<1>1. t \in Tasks /\ OutrankedIn(minted, t) /\ UNCHANGED minted
  BY PoppedOutranked DEF Listen, _preemption_listener, apiVars
<1>2. k \in Slots \cup {None}
  BY <1>1 DEF NodeTypeOK
<1>3. exec' = IF k = None THEN exec ELSE [exec EXCEPT ![w][k].cancel = TRUE]
  BY DEF Listen, _preemption_listener
<1>4. CASE k = None
  BY <1>1, <1>3, <1>4, KeepCancels
<1>5. CASE k # None
  <2>1. k \in Slots /\ exec[w][k].task = t /\ exec[w][k] \in Coroutine
    BY <1>1, <1>2, <1>5 DEF SignalsInv, SignalsReachTheirTask, NodeTypeOK
  <2> DEFINE x == [exec[w][k] EXCEPT !.cancel = TRUE]
  <2>2. exec' = [exec EXCEPT ![w][k] = x]
    BY <1>3, <1>5
  <2>3. x.task = t
    BY <2>1 DEF Coroutine
  <2> HIDE DEF x, t, k
  <2>4. ASSUME NEW v \in Workers, NEW j \in Slots, exec'[v][j].cancel
        PROVE  OutrankedIn(minted, exec'[v][j].task)
    <3>1. exec'[v][j] = IF v = w /\ j = k THEN x ELSE exec[v][j]
      BY <2>1, <2>2 DEF NodeTypeOK
    <3>2. CASE v = w /\ j = k
      BY <1>1, <2>3, <3>1, <3>2
    <3>3. CASE ~(v = w /\ j = k)
      BY <2>4, <3>1, <3>3 DEF OnlyOutrankedAreCancelled, OutrankedIn
    <3> QED
      BY <3>2, <3>3
  <2> QED
    BY <1>1, <2>4 DEF OnlyOutrankedAreCancelled, OutrankedIn
<1> QED
  BY <1>4, <1>5

\* Every step cancels outranked tasks only.
LEMMA CancelsStep ==
    ASSUME RInv, SignalsInv, SignalsOutranked, OnlyOutrankedAreCancelled, [Next]_vars
    PROVE  OnlyOutrankedAreCancelled'
<1> USE DEF RInv, IInv, TypeOK
<1>a. minted \subseteq minted'
  BY StepEffect DEF Effect
<1>b. ASSUME UNCHANGED exec PROVE OnlyOutrankedAreCancelled'
  BY <1>a, <1>b, KeepCancels
<1>1. CASE UNCHANGED vars
  BY <1>1, <1>b DEF vars
<1>2. CASE Handlers
  BY <1>2, <1>b DEF Handlers, Create, Cancel, Respond, HandlerError, Timeout, PostHeartbeat,
                    main, nodeVars
<1>3. CASE Loops
  BY <1>3, <1>b DEF Loops, Reconcile, ReconcileError, Tick, TickError, Detect, DetectError,
                    MasterRestart, nodeVars
<1>4. ASSUME NEW w \in Workers, Register(w) \/ Heartbeat(w) \/ Expire(w)
      PROVE  OnlyOutrankedAreCancelled'
  BY <1>4, <1>b DEF Register, Heartbeat, Expire, register_with_master, send_heartbeat,
                    heartbeat_expires, nodeVars
<1>5. ASSUME NEW w \in Workers, Stop(w) PROVE OnlyOutrankedAreCancelled'
  <2>1. exec' = [exec EXCEPT ![w] = [k \in Slots |-> Free]]
    BY <1>5 DEF Stop, stop
  <2>2. \A v \in Workers, k \in Slots : exec'[v][k] = IF v = w THEN Free ELSE exec[v][k]
    BY <2>1 DEF NodeTypeOK
  <2>3. Free.cancel = FALSE
    BY DEF Free
  <2> QED
    BY <1>a, <2>2, <2>3, KeepCancels
<1>6. ASSUME NEW w \in Workers, Listen(w) PROVE OnlyOutrankedAreCancelled'
  BY <1>6, ListenCancels
<1>7. ASSUME NEW w \in Workers, NEW k \in Slots, Execution(w, k)
      PROVE  OnlyOutrankedAreCancelled'
  BY <1>7, <1>a, ExecutionCancels, KeepCancels
<1> QED
  BY <1>1, <1>2, <1>3, <1>4, <1>5, <1>6, <1>7 DEF Next, Process

\* For any number of tasks, workers and executions: from the plan of a batch,
\* committed or rolled back, through the Redis list and the registered events to
\* the cancel event that run_task waits for, a signal only ever ends an
\* execution of a task that some created task outranks.
THEOREM CancelsSound == Spec => []OnlyOutrankedAreCancelled
<1>1. Init => SignalsOutranked
  BY DEF Init, StoresInit, SignalsOutranked
<1>2. Init => OnlyOutrankedAreCancelled
  BY DEF Init, NodeInit, Free, OnlyOutrankedAreCancelled
<1>3. RInv /\ SignalsOutranked /\ [Next]_vars => SignalsOutranked'
  BY SignalsOutrankedStep
<1>4. RInv /\ SignalsInv /\ SignalsOutranked /\ OnlyOutrankedAreCancelled /\ [Next]_vars
        => OnlyOutrankedAreCancelled'
  BY CancelsStep
<1> QED
  BY <1>1, <1>2, <1>3, <1>4, LifecycleInvariance, SignalsInvariance, PTL DEF Spec
====
