---- MODULE Cluster ----
(***************************************************************************)
(* One master (leader, or standalone) and its workers: the API handlers,   *)
(* the scheduler loop and the failure detector of the master interleave    *)
(* with each other and with the workers through PostgreSQL and Redis.      *)
(***************************************************************************)
EXTENDS MasterApi, SchedulerLoop, FailureDetector, WorkerNode

CONSTANTS
    DetectorRuns, \* bound: FALSE leaves out the failure detector's passes and
                  \* the heartbeats they look at
    FaultKinds,   \* which faults the environment may inject
    MaxFaults     \* bound: how many of them

ASSUME DetectorAssumption == DetectorRuns \in BOOLEAN

ASSUME FaultsAssumption ==
    /\ FaultKinds \subseteq {"request_lost", "timeout", "register_timeout", "worker_stop",
                             "master_crash", "db_error", "heartbeat_late", "fetch_error",
                             "heartbeat_post", "sadd_error", "srem_error"}
    /\ MaxFaults \in Nat

VARIABLES
    faults,      \* injected so far
    succeeded    \* history: the tasks for which some run_task has returned

vars == <<tasks, workers, session_tasks, session_workers, queue, assignments,
          preempts, heartbeats, api, minted, sched, fd, up, exec, running_tasks,
          reserved, active_tasks, leaked, unreserved, overlapped, faults, succeeded>>

TypeOK ==
    /\ StoresTypeOK
    /\ ApiTypeOK
    /\ SchedTypeOK
    /\ FdTypeOK
    /\ NodeTypeOK
    /\ faults \in 0..MaxFaults
    /\ succeeded \in SUBSET Tasks

Init ==
    /\ StoresInit
    /\ ApiInit
    /\ sched = SchedStart
    /\ fd = FdIdle
    /\ NodeInit
    /\ faults = 0
    /\ succeeded = {}

Fault(kind) ==
    /\ kind \in FaultKinds
    /\ faults < MaxFaults
    /\ faults' = faults + 1

-----------------------------------------------------------------------------
(* The master *)

Create(s, t) == create_task(s, t) /\ UNCHANGED <<sched, fd, nodeVars, faults, succeeded>>
Cancel(s, t) == cancel_task(s, t) /\ UNCHANGED <<sched, fd, nodeVars, faults, succeeded>>

\* The commit and the response, which a registering worker waits for.
Respond(s) ==
    /\ commit(s)
    /\ IF api[s].op = "register" /\ api[s].caller # None
       THEN main(api[s].caller[1]) ELSE UNCHANGED nodeVars
    /\ UNCHANGED <<sched, fd, faults, succeeded>>

HandlerError(s) ==
    /\ abort(s)
    /\ IF IntegrityError(s) THEN UNCHANGED faults ELSE Fault("db_error")
    /\ UNCHANGED <<sched, fd, nodeVars, succeeded>>

\* Somebody posts to the heartbeat endpoint: the workers write to Redis.
PostHeartbeat(s, w) ==
    /\ \E cpu \in 0..cpu_total[w] : heartbeat(s, w, cpu)
    /\ Fault("heartbeat_post")
    /\ UNCHANGED <<sched, fd, nodeVars, succeeded>>

Reconcile ==
    /\ \/ _reconcile_pending_tasks
       \/ enqueue_missing
       \/ _reconcile_scheduled_tasks
       \/ \E t \in Tasks : repush(t)
       \/ reconciled
    /\ UNCHANGED <<apiVars, fd, nodeVars, faults, succeeded>>

ReconcileError ==
    reconcile_abort /\ Fault("db_error") /\ UNCHANGED <<apiVars, fd, nodeVars, succeeded>>

Tick ==
    /\ \/ _tick
       \/ _schedule_batch
       \/ \E t \in Tasks : \/ skip(t)
                           \/ _try_schedule_task(t)
                           \/ preempt(t)
                           \/ no_capacity(t)
                           \/ evict(t)
       \/ place
       \/ batch_commit
    /\ UNCHANGED <<apiVars, fd, nodeVars, faults, succeeded>>

TickError ==
    batch_abort /\ Fault("db_error") /\ UNCHANGED <<apiVars, fd, nodeVars, succeeded>>

Detect ==
    /\ DetectorRuns
    /\ \/ _check_all_workers
       \/ \E w \in Workers : is_alive(w) \/ _handle_dead_worker(w)
       \/ \E t \in Tasks : requeue(t) \/ exhausted(t) \/ raise(t)
       \/ handled
       \/ fd_commit
    /\ UNCHANGED <<apiVars, sched, nodeVars, faults, succeeded>>

DetectError ==
    fd_abort /\ Fault("db_error") /\ UNCHANGED <<apiVars, sched, nodeVars, succeeded>>

\* The process dies and is started again: open transactions roll back, the
\* callers of its handlers see an error, the loops start over.
MasterRestart ==
    /\ Fault("master_crash")
    /\ session_tasks' = [a \in Actors |-> [t \in Tasks |-> None]]
    /\ session_workers' = [a \in Actors |-> [w \in Workers |-> None]]
    /\ api' = [s \in Sessions |-> Idle]
    /\ sched' = SchedStart
    /\ fd' = FdIdle
    /\ UNCHANGED <<rows, redis, minted, nodeVars, succeeded>>

-----------------------------------------------------------------------------
(* The workers *)

Register(w) ==
    /\ register_with_master(w)
    /\ ~Waiting(<<w, Main>>)
    /\ \E s \in Sessions : register_worker(s, w, <<w, Main>>)
    /\ UNCHANGED <<sched, fd, faults, succeeded>>

\* Sessions that serve w go on, with nobody waiting for them.
Stop(w) ==
    /\ stop(w)
    /\ api' = [s \in Sessions |->
                IF \E k \in Slots : api[s].caller = <<w, k>>
                THEN [api[s] EXCEPT !.caller = None] ELSE api[s]]
    /\ Fault("worker_stop")
    /\ UNCHANGED <<minted, sched, fd, succeeded>>

Heartbeat(w) ==
    /\ DetectorRuns
    /\ send_heartbeat(w)
    /\ UNCHANGED <<apiVars, sched, fd, faults, succeeded>>

Expire(w) ==
    /\ heartbeat_expires(w)
    /\ IF w \in up THEN Fault("heartbeat_late") ELSE UNCHANGED faults
    /\ UNCHANGED <<apiVars, sched, fd, succeeded>>

Poll(w, k) == poll_assignment(w, k) /\ UNCHANGED <<apiVars, sched, fd, faults, succeeded>>

Fetch(w, k) == fetch_task(w, k) /\ UNCHANGED <<apiVars, sched, fd, faults, succeeded>>
FetchError(w, k) ==
    fetch_error(w, k) /\ Fault("fetch_error") /\ UNCHANGED <<apiVars, sched, fd, succeeded>>

\* A post of the worker reaches the handler, which opens a session or refuses.
ReportRunning(w, k) ==
    LET t == exec[w][k].task IN
    /\ _report_state(w, k)
    /\ \/ \E s \in Sessions : update_task_state(s, t, "RUNNING", <<w, k>>)
       \/ Refused(t, "RUNNING") /\ UNCHANGED <<rows, sessions, redis, apiVars>>
    /\ UNCHANGED <<sched, fd, faults, succeeded>>

ReportCompletion(w, k) ==
    LET t == exec[w][k].task IN
    /\ _report_completion(w, k)
    /\ \/ \E s \in Sessions : complete_task(s, t, <<w, k>>)
       \/ Refused(t, "COMPLETED") /\ UNCHANGED <<rows, sessions, redis, apiVars>>
    /\ UNCHANGED <<sched, fd, faults, succeeded>>

ReportFailure(w, k) ==
    LET t == exec[w][k].task IN
    /\ _report_failure(w, k)
    /\ \/ \E s \in Sessions : fail_task(s, t, <<w, k>>)
       \/ Refused(t, "FAILED") /\ UNCHANGED <<rows, sessions, redis, apiVars>>
    /\ UNCHANGED <<sched, fd, faults, succeeded>>

\* The post is lost; the worker logs the error and does not try again.
ReportLost(w, k) ==
    /\ _report_state(w, k) \/ _report_completion(w, k) \/ _report_failure(w, k)
    /\ Fault("request_lost")
    /\ UNCHANGED <<rows, sessions, redis, apiVars, sched, fd, succeeded>>

\* The client's timeout (10 s, 30 s for a registration): the worker goes on,
\* the handler too.
Timeout(s) ==
    /\ api[s].caller # None
    /\ api' = [api EXCEPT ![s].caller = None]
    /\ Fault(IF api[s].op = "register" THEN "register_timeout" ELSE "timeout")
    /\ UNCHANGED <<rows, sessions, redis, minted, sched, fd, nodeVars, succeeded>>

\* run_task starts once the post of RUNNING is answered or given up.
Run(w, k) ==
    /\ ~Waiting(<<w, k>>)
    /\ \E next \in {"complete", "fail", "finally"} :
        /\ run_task(w, k, next)
        /\ succeeded' = IF next = "complete" THEN succeeded \cup {exec[w][k].task}
                                             ELSE succeeded
    /\ UNCHANGED <<apiVars, sched, fd, faults>>

Finally(w, k) ==
    /\ ~Waiting(<<w, k>>)
    /\ finally(w, k)
    /\ UNCHANGED <<apiVars, sched, fd, faults, succeeded>>

\* Redis fails a worker where the error is not just logged.
RedisError(w, k) ==
    /\ ~Waiting(<<w, k>>)
    /\ \/ add_active_task_error(w, k) /\ Fault("sadd_error")
       \/ remove_active_task_error(w, k) /\ Fault("srem_error")
    /\ UNCHANGED <<apiVars, sched, fd, succeeded>>

Listen(w) ==
    _preemption_listener(w) /\ UNCHANGED <<apiVars, sched, fd, faults, succeeded>>

-----------------------------------------------------------------------------

Handlers ==
    \/ \E s \in Sessions, t \in Tasks : Create(s, t) \/ Cancel(s, t)
    \/ \E s \in Sessions : Respond(s) \/ HandlerError(s) \/ Timeout(s)
    \/ \E s \in Sessions, w \in Workers : PostHeartbeat(s, w)

Loops ==
    \/ Reconcile \/ ReconcileError
    \/ Tick \/ TickError
    \/ Detect \/ DetectError
    \/ MasterRestart

Process(w) == Register(w) \/ Stop(w) \/ Heartbeat(w) \/ Expire(w) \/ Listen(w)

Execution(w, k) ==
    \/ Poll(w, k) \/ Fetch(w, k) \/ FetchError(w, k)
    \/ ReportRunning(w, k) \/ ReportCompletion(w, k) \/ ReportFailure(w, k)
    \/ ReportLost(w, k) \/ Run(w, k) \/ Finally(w, k) \/ RedisError(w, k)

Next ==
    \/ Handlers
    \/ Loops
    \/ \E w \in Workers : Process(w)
    \/ \E w \in Workers, k \in Slots : Execution(w, k)

\* What the event loops of the processes and the databases run without being
\* asked.  Clients, faults and the restart of a stopped worker are not fair;
\* a container ends by itself or by its timeout_seconds.
Fairness ==
    /\ \A s \in Sessions : WF_vars(Respond(s)) /\ WF_vars(IntegrityError(s) /\ HandlerError(s))
    /\ WF_vars(Reconcile)
    /\ WF_vars(Tick)
    /\ WF_vars(Detect)
    /\ \A w \in Workers :
        /\ WF_vars(workers[w].status = "ABSENT" /\ Register(w))
        /\ WF_vars(Heartbeat(w))
        /\ WF_vars(w \notin up /\ Expire(w))
        /\ WF_vars(Listen(w))
        /\ \A k \in Slots :
            /\ WF_vars(Poll(w, k))
            /\ WF_vars(Fetch(w, k))
            /\ WF_vars(ReportRunning(w, k) \/ ReportCompletion(w, k) \/ ReportFailure(w, k))
            /\ WF_vars(Run(w, k))
            /\ WF_vars(Finally(w, k))

Spec == Init /\ [][Next]_vars
FairSpec == Spec /\ Fairness

\* Where the deployment starts a worker again that has stopped or given up its
\* registration (docker-compose.yml, restart: unless-stopped).
RestartingSpec == FairSpec /\ \A w \in Workers : WF_vars(Register(w))

-----------------------------------------------------------------------------
(* What holds *)

\* A task is COMPLETED only if some execution's run_task returned for it,
\* whatever reports, retries, preemptions and transactions came in between.
CompletedOnlyAfterSuccess ==
    \A t \in Tasks : tasks[t].state = "COMPLETED" => t \in succeeded

\* No interleaving of the three paths that requeue a task (fail_task,
\* preemption, failure detection) takes retry_count past max_retries.
RetriesBounded == \A t \in Tasks : tasks[t].retry <= max_retries[t]

\* The event a preemption signal would set is that of a live execution of the
\* task it names; a live execution that no signal can reach (its entry in
\* _running_tasks was dropped by another finally block) shares its task with
\* other executions that overlap: nothing else loses an event.
SignalsReachTheirTask ==
    \A w \in Workers, t \in Tasks :
        LET k == running_tasks[w][t] IN
        IF k # None THEN exec[w][k].task = t
        ELSE t \in overlapped[w] \/ \A j \in Slots : exec[w][j].task # t

\* Only an execution of a task that some created task outranks is ever
\* cancelled: the signal may be late, and may come from a batch that was rolled
\* back, but between the plan of the scheduler and the cancel event it is never
\* turned to a task that could not have been a victim.
OnlyOutrankedAreCancelled ==
    \A w \in Workers, k \in Slots :
        exec[w][k].cancel => \E u \in minted : priority[u] > priority[exec[w][k].task]

\* What the live executions of a worker have reserved.
Held(w) == MapThenSumSet(LAMBDA k : resource_cpu[exec[w][k].task],
                         {k \in Slots : exec[w][k].fetched})

\* The reporter's figure is what live executions hold, but for the two ways
\* _execute_task spoils it: a finally block that Redis cuts short before the
\* release leaves its cpu reserved, and one whose task was never fetched
\* releases a default nobody reserved.  No other path leaks or gives back twice.
ReservationsAccounted ==
    \A w \in Workers :
        /\ reserved[w] <= Held(w) + leaked[w]
        /\ Held(w) + leaked[w] <= reserved[w] + unreserved[w]

\* Every RUNNING task the scheduler's transaction takes off a worker makes
\* room there for a task of strictly higher priority in that transaction.
EvictedForHigherPriority ==
    \A v \in Tasks :
        LET o == session_tasks["scheduler"][v] IN
        (o # None /\ o.old.state = "RUNNING" /\ o.new.state # "RUNNING") =>
            \E t \in Tasks :
                /\ priority[t] > priority[v]
                /\ \/ sched.plan.task = t /\ sched.plan.worker = o.old.worker
                   \/ /\ session_tasks["scheduler"][t] # None
                      /\ session_tasks["scheduler"][t].new.state = "SCHEDULED"
                      /\ session_tasks["scheduler"][t].new.worker = o.old.worker

\* What the scheduler's transaction changes in a worker's cpu_available is
\* what it evicts there less what it places there, whatever else commits
\* while it is open.
SchedulerBooksBalance ==
    LET o(t) == session_tasks["scheduler"][t]
        Cpu(S) == MapThenSumSet(LAMBDA t : resource_cpu[t], S)
        Taken(w) == {t \in Tasks : /\ o(t) # None
                                     /\ o(t).new.state = "SCHEDULED"
                                     /\ o(t).new.worker = w
                                     /\ o(t).new # o(t).old}
        Evicted(w) == {v \in Tasks : /\ o(v) # None
                                     /\ o(v).old.state = "RUNNING"
                                     /\ o(v).old.worker = w
                                     /\ o(v).new.state # "RUNNING"}
    IN  \A w \in Workers :
            LET c == session_workers["scheduler"][w] IN
            c # None => c.new.cpu_available - c.old.cpu_available
                            = Cpu(Evicted(w)) - Cpu(Taken(w))

\* The cpu a worker has left and the cpu of the tasks assigned to it.
Ledger(w) ==
    workers[w].cpu_available
        + MapThenSumSet(LAMBDA t : resource_cpu[t],
                        {t \in Tasks : /\ tasks[t].worker = w
                                       /\ tasks[t].state \in {"SCHEDULED", "RUNNING"}})

\* No other transaction has changed what a has read.
Fresh(a) ==
    /\ \A t \in Tasks : session_tasks[a][t] # None => session_tasks[a][t].old = tasks[t]
    /\ \A w \in Workers : session_workers[a][w] # None =>
                            session_workers[a][w].old = workers[w]

\* A commit over rows nobody changed since they were read keeps the books: a
\* handler or a batch takes from a worker what it assigns to it and gives back
\* what it takes off it; a pass of the failure detector, which requeues or fails
\* tasks and gives nothing back, spoils only the books of workers it declares
\* DEAD.  Left out by the formula: a cancellation, which gives nothing back, and
\* a registration and a posted heartbeat, which write a figure of their own.
FreshCommitsKeepTheBooks ==
    [][\A a \in Actors :
        (/\ Fresh(a)
         /\ session_tasks[a] # session_tasks'[a]
         /\ rows # rows'
         /\ a \in Sessions => api[a].op \in {"create", "state", "complete", "fail"})
            => \A w \in Workers : \/ Ledger(w)' = Ledger(w)
                                  \/ a = "detector" /\ workers'[w].status = "DEAD"]_vars

\* The rows as a transaction-aware observer sees them.
Lifecycle == INSTANCE TaskLifecycle WITH
    state <- [t \in Tasks |-> tasks[t].state],
    reading <- [a \in Actors |-> [t \in Tasks |->
                    IF session_tasks[a][t] = None THEN None
                    ELSE session_tasks[a][t].old.state]],
    done <- succeeded

\* Every state a client can observe was written by a transaction that took
\* the task one legal move on from the state it had read, and COMPLETED only
\* of a task that has ended well: no chain of handlers, batches, retries and
\* evictions invents a move.
ImplementsLifecycle == Lifecycle!Spec

\* A pass of the failure detector is all or nothing: the transaction that
\* declares a worker DEAD also takes every task the pass found there out of
\* RUNNING and SCHEDULED.
DeathIsCommittedWithItsTasks ==
    [][\A w \in Workers :
        (workers[w].status = "ACTIVE" /\ workers'[w].status = "DEAD") =>
            \A t \in Tasks : session_tasks["detector"][t] # None =>
                                tasks'[t].state \notin {"RUNNING", "SCHEDULED"}]_vars

\* A PENDING row whose id is not in the Redis queue (dropped by a tick, lost
\* by a crash or with a batch that was rolled back) is found by a reconciliation.
PendingReturnsToQueue ==
    \A t \in Tasks : tasks[t].state = "PENDING" ~> (t \in queue \/ tasks[t].state # "PENDING")

\* The two ways the code gives a task up: a victim without retries stays
\* PREEMPTED, and a preemption signal that is read when the victim is in its
\* next attempt ends that attempt without a report.
GivenUp(t) ==
    /\ \E u \in minted : priority[u] > priority[t]
    /\ \/ tasks[t].state = "PREEMPTED"
       \/ /\ tasks[t].state = "RUNNING"
          /\ \A w \in Workers, k \in Slots : exec[w][k].task # t

\* Every created task ends (COMPLETED, FAILED with its retries used, or
\* cancelled) or is given up for good, as long as no fault happens: a lost
\* report or a failed transaction may leave it RUNNING.  A task that no task
\* outranks is never given up.
EveryTaskFinishes ==
    \A t \in Tasks :
        tasks[t].state = "PENDING"
            ~> (tasks[t].state \in {"COMPLETED", "FAILED", "CANCELLED"} \/ []GivenUp(t) \/ faults > 0)

-----------------------------------------------------------------------------
(* What the repository says and the code does not do: each of these is the *)
(* subject of a run that ends in a counterexample.                         *)

\* Placement filters on cpu_available >= cpu, so a worker is never given more
\* than it has.
NeverOvercommitted == \A w \in Workers : workers[w].cpu_available >= 0

\* The tasks of a worker that died are reassigned.
OrphansAreReassigned ==
    \A t \in Tasks, w \in Workers :
        (tasks[t].state = "RUNNING" /\ tasks[t].worker = w /\ w \notin up)
            ~> ~(tasks[t].state = "RUNNING" /\ tasks[t].worker = w)

\* A SCHEDULED task of a dead worker is reset for rescheduling.
DeadAssignmentsAreReset ==
    \A t \in Tasks, w \in Workers :
        (tasks[t].state = "SCHEDULED" /\ tasks[t].worker = w /\ workers[w].status = "DEAD")
            ~> ~(tasks[t].state = "SCHEDULED" /\ tasks[t].worker = w)
====
