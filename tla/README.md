# Verification of Chronos

Chronos is a distributed task scheduler: clients submit container tasks to a
master over REST, the master keeps them in PostgreSQL and queues them in Redis,
workers execute them in Docker. This directory holds TLA+ models of its
control, TLC configurations that check them on small instances, and TLAPS
proofs. `PROJECT.json` maps every definition to the lines it models. Paths below
are relative to `src/src/chronos/`.

## The system

| Part | State | Operations | Talks to |
|---|---|---|---|
| Task state machine (`state_machine/`, `models/enums.py`) | none | `validate_transition`, `transition_task` | every writer of `tasks.state` |
| PostgreSQL sessions (`models/`, `db/`) | tables `tasks`, `workers`; the identity map of each open session | load, change, flush, commit, rollback | all of the master |
| Redis (`redis_client/`) | task queue (sorted set), assignment and preemption lists per worker, heartbeat keys with TTL, active-task sets, scheduler lock | `enqueue`, `dequeue_batch`, `assign_task`, `poll_assignment`, `send_preempt_signal`, `is_alive` | master and workers |
| Task API (`master/services/task_service.py`, `master/api/tasks.py`) | one session per request | create, cancel (get and list read) | clients |
| Worker API (`master/api/workers.py`, `worker_service.py`) | one session per request | register, heartbeat, state, complete, fail | workers |
| Scheduler loop (`master/scheduler/scheduler_loop.py`, `bin_packing.py`) | tick counter, popped batch, capacities of the batch | reconcile pending, reconcile scheduled, tick, place | PostgreSQL, Redis |
| Preemption engine (`master/scheduler/preemption.py`) | the plan being executed | find candidates, evict, place | the scheduler's session |
| Failure detector (`master/scheduler/failure_detector.py`) | workers left in the pass, the orphans being handled | check all workers, handle a dead worker | PostgreSQL, heartbeat keys, queue |
| Worker executor (`worker/executor.py`, `heartbeat.py`, `resource_reporter.py`) | coroutines, `_running_tasks`, reservations | poll, fetch, report, run, `finally`, preemption listener, heartbeat | master (HTTP), Redis |
| Container runner (`worker/task_runner.py`) | one supervised container per run | start, monitor, time out, preempt, gather, clean up at start-up | Docker |
| Leader election (`etcd_client/leader_election.py`, `master/lifespan.py`) | election key, lease, `_is_leader` | campaign, keep alive, hold, wait, resign | etcd |
| Scheduler lock (`redis_client/distributed_lock.py`) | lock key with TTL and the token of its holder | acquire, time out, release | the scheduler loops of all masters |
| Event bus (`master/events.py`, `api/websocket.py`) | a bounded queue per connection | publish, subscribe, send | handlers and loops; dashboard |
| Dashboard (`src/dashboard/src/`) | connection, last event, query cache with its fetches | connect, invalidate, poll, show | event bus, REST API |
| Logs, health, metrics, schemas, settings, migrations, operator | none of the scheduler's | views, validation, deployment | |

What makes it hard:

* **Unlocked sessions.** Every handler and loop reads rows, decides, writes Redis
  and commits later; no row is locked and no version is checked. A commit
  writes absolute values of the columns the session changed.
* **Two stores without a common transaction.** Ids and assignments are in Redis
  before the row is committed, or are popped from Redis before it. Every crash
  or exception between the two leaves them apart; reconciliation repairs part of it.
* **Unreliable reports.** Workers report by HTTP with a 10 s timeout and never
  repeat a report. Handlers go on after the client has given up.
* **Repeated assignments.** Reconciliation pushes assignments that were not lost,
  so one task may be executed twice at once.
* **Several leaders.** The election key is read and then written, a master
  without etcd leads by itself, and every master reconciles when it starts. What
  is left between two batches is a Redis lock with a TTL.
* **Events before facts.** Handlers publish inside their transaction, queues are
  bounded, connections come and go, and the browser polls besides.
* **Daemon failures.** Docker calls fail at any point of the supervision, and
  Redis calls of the executor inside its `finally`.

What makes each part correct: every state follows by a legal move, and COMPLETED
from a real outcome; retries stay within their limit; a pending task is always found
again; eviction only serves higher priority, and resource books agree with the
rows; a death is recorded together with its consequences; signals reach the
task they are meant for; reservations follow the executions; a container never runs
unsupervised; a leader exists and is the only one; two batches do not place one
task; what a dashboard shows catches up and does not go back.

## Modules

    TaskStateMachine                      states and VALID_TRANSITIONS
      TaskLifecycle                       what the master promises of a task
      Stores                              rows, sessions, Redis
        MasterApi  SchedulerLoop  FailureDetector  WorkerNode
          Cluster                         composition, faults, properties;
                                          implements TaskLifecycle
            MCCluster                     for TLC
            ClusterProofs                 types, completion, retries; whose step
                                          touches which session
              LoopProofs                  scheduler's and detector's sessions
                LifecycleProofs           Cluster implements TaskLifecycle
                  WorkerProofs            preemption signals, from plan to event
                  BooksProofs             sums; reservations and resource books
    LeaderElection
      Masters                             elections, loops and lock of several masters
        MastersProofs
    EventBus
      LiveView                            handlers, bus and one dashboard
        LiveViewProofs
    ContainerRunner
      ContainerProofs

**Stores.** `tasks` and `workers` are the committed rows, reduced to the columns
control depends on (`state`, `assigned_worker_id`, `retry_count`; `status`,
`cpu_available`). `session_tasks` and `session_workers` are identity maps: a row
as it was loaded (`old`) and as the handler left it (`new`). `Commit` writes the
columns in which the two differ and keeps for the others what other
transactions committed (`Column`); `Rollback` forgets. `FlushedTask` is what the
session's own queries see through autoflush. Redis lists are sequences, the
task queue is a set from which `Batches` takes the best priorities. cpu stands
for cpu and memory, which the code updates at the same places by the same arithmetic.

**MasterApi.** A handler is two steps: reading, validating and writing Redis
(`create_task`, `cancel_task`, `register_worker`, `heartbeat`,
`update_task_state`, `complete_task`, `fail_task`), then `commit` or `abort`. Two
first registrations of one hostname cannot both commit (`IntegrityError`). Everything else may happen in between. A
refused request changes nothing.

**SchedulerLoop.** `sched.phase` is the program counter of `run`. Reconciliation
is read, write, then close without commit, as in the code. A tick pops
(`_tick`), lists capacities (`_schedule_batch`), places or preempts task by task
and commits once. `spread_schedule` picks the worker with most room left, ties
by id. `VictimSets` is the result of the greedy victim loop stated as a
set: lowest priorities first, until there is room and no further.

**FailureDetector.** One transaction per pass. `raise` covers its two exceptions:
a transition the table refuses, and the local `old_state` that is unbound on the
path where retries are exhausted.

**WorkerNode.** `exec[w][k]` is coroutine `k` of `_execute_task`; `running_tasks`
says which coroutine's cancel event is registered under a task, `reserved` is
`_cpu_reserved`. `finally` releases what the code releases, the default of 1.0
for a task never fetched included. The two Redis calls of `_execute_task` may
fail: `add_active_task_error` is an ordinary failure of the task after its
reservation, `remove_active_task_error` leaves the `finally` block before the
release. Three history variables, which no action reads, record what the code
does not: cpu left reserved that way (`leaked`), cpu released that was never
reserved (`unreserved`), and the tasks being executed more than once
(`overlapped`, until one execution of the task is alone again). `run_task` is
one step here; ContainerRunner has its detail.

**Cluster** joins worker posts with handlers (`Register`, `ReportRunning`,
`ReportCompletion`, `ReportFailure`) and adds the faults: `ReportLost`,
`Timeout`, `Stop`, `Expire` of a live worker's heartbeat, `FetchError`, `RedisError`,
`HandlerError`, `TickError`, `ReconcileError`, `DetectError`, `MasterRestart`, and
`PostHeartbeat`, a post to the heartbeat endpoint, which no worker uses.
`succeeded` is a history variable no action reads.

**LeaderElection.** `pc` is the campaign of each master. The etcd client blocks the
event loop, so two calls of one master do not interleave with its own other
tasks; those of two masters do. `key.own` tells whether the key hangs on the
writer's current lease or on one of an earlier attempt. Whether `refresh` raises
for a lapsed lease is the library's choice, and both are modelled. A master that
starts without etcd stands alone: it leads for as long as it runs.

**Masters** adds to the election the scheduler loop of every master. `loop` is the
program counter of `run`, `_tick` and the lock's context manager; `lock` is the
key's token. A master reconciles when it starts, leader or not; `_is_leader` is
looked at once per tick; the lock is tried for a while (`lock_timeout` ends the
tick), released only by its own token and lost by expiry, of a dead process or
under a batch that takes too long. Workers are left out: a batch places what it
pops and finds PENDING. `lapsed` is a history variable: the masters whose lock
expired under their batch, until no batch is under way.

**EventBus** has one handler per connection: subscribed, waiting in `queue.get` or
in `send_json`. `Put` is `put_nowait` with its `QueueFull` branch; the branch for
`QueueEmpty` cannot be taken, since nothing runs between the two calls. A
client's departure is noticed by a send that fails, and the subscription ends
when the abandoned generator is closed (`finalise`).

**LiveView** puts a dashboard beside it. The database is the number of committed
changes, the view the number the last applied response was computed from.
Handlers publish, then commit or fail; evictions commit without an event
(`quiet_commit`). In the browser every event invalidates the query, which
refetches it: `refetch` is the rule of TanStack Query as it is vendored
(`node_modules/@tanstack/query-core/src/query.ts:386`, called with
`cancelRefetch` from `queryClient.ts:321`), a fetch in flight is abandoned
unless the query has no data yet. Every poll fetches if nothing is in flight.

**ContainerRunner.** `pc` follows `run_task` between its sleeps; the container, as
the daemon sees it, moves on its own. `start_refused` is the ordinary failure of
a start that the daemon answers: no image, or a container that cannot be created
or, once created, not started, in which case it stays. `start_error` is a daemon that does not
answer. `Outage` is a kill or remove that fails and leaves any part of its work
undone.

## Runs

| Run | Checks | Instance | Distinct states |
|---|---|---|---|
| `handlers` | `CompletedOnlyAfterSuccess`, `ImplementsLifecycle` | 1 cancellable task, 2 sessions, 1 worker with 2 coroutines | 899,555 |
| `executions` | `SignalsReachTheirTask`, `OnlyOutrankedAreCancelled`, `ReservationsAccounted` | 2 tasks of different priority and size, 1 worker with 2 coroutines, preemption, one failed fetch or Redis call in `finally` | 2,425,148 |
| `preemption` | `EvictedForHigherPriority`, `SchedulerBooksBalance`, `ImplementsLifecycle`, `FreshCommitsKeepTheBooks` | 3 tasks, cpu 1, 2, 1 on a worker of 2, the low-priority one with a retry | 857,045 |
| `faults` | `TypeOK`, `RetriesBounded`, `DeathIsCommittedWithItsTasks`, `FreshCommitsKeepTheBooks` | 1 task with a retry, 2 sessions, one fault of any of 9 kinds, detector on | 1,457,663 |
| `progress` | `EveryTaskFinishes`, `PendingReturnsToQueue` | 2 tasks of different priority share one worker, the low one with a retry, one fault of 6 kinds, worker stop and master crash among them, fair, workers restarted | 333,309 |
| `masters` | `MastersTypeOK`, `LeadersHold`, `OneBatchAtATime`, `LockPreventsDuplicates`, `LeaderEmerges`, `PendingIsPlaced` | 2 masters, 1 task that comes back once, 2 faults of 9 kinds, fair | 218,805 |
| `containers` | `TypeOK`, `NoStaleContainer`, `CompletedMeansExitZero`, `RunsEnd` | 2 runs, one fault of each kind, fair | 44,594 |
| `liveview` | `TypeOK`, `StreamEndsWithNewest`, `ViewConverges`, `ViewNeverGoesBack`, `GoneClientsLeave` | 2 connections with queues of 2, 3 events, 2 changes, 1 fault of 4 kinds, fair | 181,211 |
| `orphans` | counterexample to `OrphansAreReassigned` | 1 task with a retry, worker stop, detector on, fair | |
| `dead_assignments` | counterexample to `DeadAssignmentsAreReset` | as `orphans` | |
| `overcommit` | counterexample to `NeverOvercommitted` | 3 tasks as in `preemption` | |
| `split_brain` | counterexample to `SplitBrainHeals` | 2 masters, no fault, fair | |

What the passing ones show: stale transactions, repeated executions and refused
reports never make a row COMPLETED without a success. A preemption signal,
however late it is read and even if its batch was rolled back, ends only
executions of tasks that some task outranks; executions that share a task are the
only ones a signal may fail to reach. A batch evicts only for higher priority and
accounts exactly for what it changes, whatever commits while it is under way. No fault
takes `retry_count` past its limit. A worker's reservations follow its
executions but for two defects, a `finally` block that Redis cuts short and a
release without reservation (*Other disagreements*): no third one is hidden
behind them. Whatever a crash of the master, a failed transaction or a stop of
the worker takes out of the queue comes back. The detector never commits half of a death. As long as no fault
happens every task ends, or is given up in one of the two
ways `GivenUp` names, and never the one that nothing outranks. `cpu_available`
agrees with the assignments after every creation, report, batch and detector pass
that committed over rows nobody had changed meanwhile. The ways it drifts are
lost updates, cancellation, registration and posted heartbeats, and a detector
pass, which requeues or fails the tasks of a worker without giving their cpu
back, though only of workers it leaves DEAD, whose figure the next registration
overwrites. Leadership
does not get stuck behind a key nobody renews, nor does a task stay PENDING
behind a leader that keeps its key undisturbed. With any number of leaders, one
batch runs at a time and no task is placed twice as long as no batch outlives its
lock, although ids return to the queue outside the lock. A dashboard may miss
events and still shows every change, in order, unless further events keep
arriving: each of them abandons the fetch in flight, and polling, which
`ViewConverges` rests on otherwise, waits for that fetch. No container that ran
outlives its `run_task` as long as the daemon answers, and the outcome of a run
is right under every race of exit, timeout, signal and error.

Every property has a mutant, an operator named after the definition it
replaces, that makes its run fail.

### The lifecycle a client may rely on

`TaskLifecycle` is the abstract specification of the state of a task. A
transaction reads states and, when it ends, takes some of the tasks it has read
one legal move on **from the state it read**; `COMPLETED` needs an execution that
ended well. `Cluster` implements it (`ImplementsLifecycle`, checked in `handlers`
and `preemption`) under this mapping: `state` is the committed column, `reading`
the state in each session's copy as it was loaded, `done` is `succeeded`. Besides
the table the moves are creation, the retry of `fail_task` and of an eviction
(RUNNING to PENDING in one transaction), and RUNNING to SCHEDULED, which a batch
makes when it evicts a victim and then places it again. The promise is weaker
than `VALID_TRANSITIONS` read as a rule on consecutive states, and has to be: see
*terminal states* below.

### Bounds

* Tasks, workers, sessions, coroutines: the smallest numbers that contain the
  races. Two sessions are two transactions on one row (the scheduler and the
  detector have sessions of their own besides); two coroutines are a task
  executed twice, or two tasks of which a signal must find the right one; three
  tasks are a victim, its preemptor and a third task of the same batch. One worker suffices for races between the master and that
  worker's reports. Placement among several workers is deterministic in the
  capacities and is not the subject of a run yet.
* `MaxQueue` bounds the Redis lists: the step waits for room, which is why
  `progress` needs the worker back that empties its list. Since repeated
  pushes are unbounded in the code, some bound is needed; with a queue of 1 and
  a coroutine in flight the second execution of a task is already possible.
* `MaxFaults` counts injected faults (per kind in ContainerRunner). One fault at
  every point reaches each recovery path; every fault is followed by normal
  operation in all orders. No single run has every kind: `faults` leaves out the
  stop of a worker, which would double it, and the failing call in `finally`. The
  latter is in `executions`, the stop in `progress`; with the detector on it is
  in the counterexamples only, while the deaths in `faults` come from late heartbeats
  and from a registration whose answer or first heartbeat is late. `masters` has two: a second leader already takes one.
* Two masters are a leader and a follower, or two leaders; `MaxRequeues` lets a
  placed task come back once, so that an id re-enters the queue while a batch
  that popped it is under way. Three masters with the liveness properties are
  beyond five minutes.
* `MaxSize` is 2 (256 in the code) against 3 events: a queue overflows. The bound
  on events ends every stream of them, so `ViewConverges` is stated per event: with
  `last` unchanged the view catches up. Without that premise it would hold in
  the run by the bound alone, and not in the code. Two
  connections are the dashboard's old and new one; `MaxChanges` bounds commits.
* `ReconcileEvery` is 1 (60 in the code), or 3 where a counterexample should not
  depend on reconciliation; `BatchSize` is 2, in `executions` 1.
* `Cancellable` limits which tasks clients cancel; ids are never reused.
* `DetectorRuns = FALSE` leaves the detector and the heartbeats out. `EveryTaskFinishes` needs it:
  see *late heartbeat* below.

Deadlock is checked in every run.

### Fairness

Weak fairness, on what an event loop or a store does unasked: a handler answers,
the scheduler and the detector take their next step, a worker that has never
registered registers, a running worker sends heartbeats, polls, fetches, reports, runs its
`finally` and listens for signals, a stopped worker's heartbeat key expires. `Run` is
fair since a container ends by itself or by `timeout_seconds`, which
ContainerRunner's `RunsEnd` establishes from time passing alone. In
LeaderElection the campaign of a running master and the lapse of leases are
fair, in Masters also the loop of a running master and the expiry of a dead
holder's lock, in LiveView the commit of an open transaction, the handlers of the connections,
reconnection, polling and the answering of requests. Clients, faults, the start of a master
and an exception from `refresh` are never assumed; where an action has a faulty
branch (the stall that lets a renewed key lapse, a read of the key that fails)
fairness is on the action without it (`key_expires /\ UNCHANGED faults`), so a
leader may keep its key and faults may stay unspent for ever. `progress` also
assumes that a worker that has stopped, or has given up its registration, is
started again and registers, as the deployment does (`docker-compose.yml:18`,
`restart: unless-stopped`); the counterexamples do without it.

## Where code and documentation disagree

Each has a run that ends in a counterexample, and a finding in `PROJECT.json`:

* **orphans** A RUNNING task of a dead worker with a retry left: `transition_task`
  refuses RUNNING to PENDING, the pass rolls back, and so does every later one.
* **dead_assignments** The reset of SCHEDULED tasks of a dead worker is made in a
  session that is never committed.
* **overcommit** Preemption does not update the batch's list of capacities; the
  next task of the batch is placed by the old figure.
* **split_brain** Two masters read no key, both write it, both stay leaders.

### Other disagreements

Met while modelling, reachable in the model, without a run of their own:

* *Terminal states.* Of two handlers that read RUNNING the second commit overwrites
  the COMPLETED or CANCELLED of the first; `transitions.py:16` and `:19` call these
  states `# terminal`, `src/README.md:23` the transitions strict.
* *Lock expiry.* When a batch takes longer than the lock's 10 s, a second leader
  or standalone master places the same task if its id was queued again
  meanwhile, by the reconciliation of a starting follower. `src/README.md:29` says
  the lock prevents "duplicate scheduling during leader transitions".
* *Re-registration.* It sets `cpu_available` to the total while tasks of the
  earlier process are still assigned (`worker_service.py:32`). If it read ACTIVE
  while the detector commits DEAD, setting ACTIVE changes no column and the
  registered worker stays DEAD (`worker_service.py:30`).
* *Silent evictions.* `_execute_preemption` publishes no event for its victims;
  `src/README.md:35` promises a push of all task state changes. The bus is in
  process, too: a dashboard served by one master sees no event of another.
  Polling covers both.
* *Live logs.* The id of a container reaches the row only with the report that
  ends the task, so the branch of `api/logs.py` for a live container finds none.
* *Operator.* kopf repeats a handler that failed, and `task_created` posts again
  (`src/k8s/operator/operator.py:36`); `worker_deleted` deregisters nothing.
* *Cancellation.* `cancel_task` does not tell the worker
  (`task_service.py:127`); `README.md:205` says it stops the container.
* *Repeated assignment.* `scheduler_loop.py:103` pushes again what was not lost;
  one worker then executes a task twice at once.
* *Shared cancel event.* Two executions of one task share one entry of
  `_running_tasks`; the first to end removes it (`executor.py:104`) and no signal
  reaches the other.
* *Leaked reservation.* `remove_active_task` is awaited inside `finally`
  (`executor.py:105`): when Redis fails there, the release in line 112 is skipped and
  the worker reports the cpu as reserved until it is restarted.
* *Excess release.* A coroutine whose fetch failed releases 1.0 cpu it never
  reserved (`executor.py:112`), out of what other executions hold.
* *Refused start.* A container that was created and could not be started
  (`task_runner.py:124`) is not removed before the next start of the worker.
* *Starved view.* Every event cancels the fetch in flight
  (`useRealtimeData.ts:20`), and no poll starts while one is: events that keep
  coming faster than a fetch is answered freeze what the dashboard shows.
* *Stale signal.* A preemption signal names the task, not the attempt
  (`executor.py:119`): read late, it stops the next attempt, which is not
  reported and stays RUNNING.
* *Lost report.* A report that is not delivered is dropped (`executor.py:159`),
  and the task stays RUNNING while the worker's heartbeats go on.
* *Late heartbeat.* A detector pass between registration and first heartbeat
  (`failure_detector.py:65`) makes a live worker DEAD until it is restarted.
* *Follower's shutdown.* `resign` deletes the key whoever wrote it
  (`leader_election.py:130`), and lifespan calls it for followers too.
* *Vanished container.* A container removed from outside counts as completed with
  exit code 0 (`task_runner.py:248`); `CompletedMeansExitZero` excepts it.

## Proofs

Every invariant and action property of the passing runs, and the refinement, is a
theorem, for every value of the constants: any finite sets of tasks, workers
and coroutines, any masters, sessions, connections, runs and bounds. The
provers take nothing but the assumptions named in the modules: the ranges of
the columns; ids of workers and coroutines are naturals; `Tasks`, `Workers` and
`Slots` are finite; batch size, period and queue size are positive; the two
loops are not API sessions; and the values that stand for "nothing" (`None`,
`Orphaned`) are no ids, coroutines, states or objects. TLC evaluates each of them in a run.

| Theorem | States | Invariant behind it |
|---|---|---|
| `TypeCorrect` | `TypeOK` of Cluster | itself |
| `CompletedSound`, `RetriesSound` | `CompletedOnlyAfterSuccess`, `RetriesBounded` | `IInv` |
| `SignalsSound` | `SignalsReachTheirTask` | `SignalsInv` |
| `CancelsSound` | `OnlyOutrankedAreCancelled` | `RInv`, `SignalsInv`, `SignalsOutranked` |
| `EvictionsSound` | `EvictedForHigherPriority` | `SInv` |
| `DeathCommitsItsTasks` | `DeathIsCommittedWithItsTasks` | `DInv` |
| `LifecycleImplemented` | `ImplementsLifecycle` | `RInv` |
| `ReservationsSound` | `ReservationsAccounted` | `FetchedOnce`, `Covered` |
| `BatchBooksBalance` | `SchedulerBooksBalance` | `SInv`, `BooksInv` |
| `FreshCommitsSound` | `FreshCommitsKeepTheBooks` | `RInv`, `BooksInv`, `HandlersBalanced`, `DeadOnly` |
| `ElectionCorrect`, `LeadersHoldTheKey` | `LeadersHold`, of LeaderElection and of Masters | `ElectionInv` |
| `MastersTypes`, `BatchesExclusive`, `NoDuplicatePlacement` | `MastersTypeOK`, `OneBatchAtATime`, `LockPreventsDuplicates` | `MInv` |
| `ContainerTypes`, `NoContainerOutlivesItsRun`, `CompletedExitsZero` | `TypeOK`, `NoStaleContainer`, `CompletedMeansExitZero` | `CInv` for the last |
| `LiveViewTypes`, `StreamsEndWithNewest`, `ViewMonotone` | `TypeOK`, `StreamEndsWithNewest`, `ViewNeverGoesBack` | `LInv`, `ViewInv` |

**ClusterProofs.** Types are preserved component by component; the operators of
`Stores` have lemmas of their own (`ObjectType`, `FlushedType`, `WithTaskType`,
`CommitType`, `PushType`). `IInv == TypeOK /\ StoresSound /\ ReportsSound`.
Completion and retries are not inductive over the table alone: a commit writes
what a session computed earlier from a row that may have changed since.
`Sound(t, row)` states both facts of one row; `StoresSound` demands it of the
table and of the changed copy in every session. `FlushedSound` is the heart of
the argument: a commit takes each column either from the table or from the
session, and since each fact of `Sound` is about a single column, the mixture is
sound as well. `ReportsSound` covers the gap between worker and master: a
coroutine about to post a completion belongs to a task that succeeded. The last
part says whose step touches which session (`HandlerTouches`,
`SchedulerTouches`, `DetectorTouches`) and that an idle session is empty
(`IdleSound`); the modules above it rest on that.

**LoopProofs.** What the scheduler's transaction may do follows from what it holds
in each phase (`SessionInv`): nothing between batches, rows read as SCHEDULED
during a reconciliation, only changed objects between two tasks of a batch, and
during a preemption also the plan's task, still PENDING, and its victims, still
RUNNING. The query for victims sees the session's own changes, which is why a
task placed or evicted in the batch is not found again (`VictimsAreNew`).
`DInv` speaks of all sessions: none but the detector's turns a status into DEAD
(`NobodyElseKills`), and the detector's holds orphans as read and all
others settled (`PassInv`).

**WorkerProofs.** `SignalsInv` adds to `SignalsReachTheirTask` that a free coroutine
names no task. What it rests on is the history of overlaps: an entry of
`_running_tasks` is replaced or dropped while an execution of the task goes on only if that
execution overlaps another (`Overlap`), and an execution that is alone
again stays marked until its own end. `CancelsSound` joins the two ends of a
signal: a victim of a plan is outranked by the plan's task, which has been created
(`VictimOutranked`, from the session invariant of LoopProofs and `Minting` of
LifecycleProofs); the lists in Redis name outranked tasks only (`SignalsOutranked`, which
later creations keep); and the listener sets the event of the task a signal
names (`ListenCancels`, from `SignalsInv`).

**LifecycleProofs** shows that the initial states map to initial states and that
every step of Cluster is a step of TaskLifecycle or a stutter. `StepEffect` sorts
the actions by what they do to the mapped variables: leave them, read or set
objects in one session, end a session, restart, or record a success.
`ObjectsLegal` says that a changed copy is one move on from the copy it was
loaded as; `Minting` and the three invariants on existing ids are what rules out
reports on tasks that have no row.

**BooksProofs** begins with the sums. `MapThenSumSet` is the library's recursion
over subsets, in whatever order `CHOOSE` gives. That the recursion has a
solution, and that an element may be taken out or two disjoint sets joined, is
shown by a minimal counterexample: the finite subsets are well-founded under
inclusion (`MinimalSubset`), which needs no induction principle with an
operator parameter. A worker's reservations are accounted for because a coroutine
that fetched holds exactly its task's cpu and one that did not is not counted
(`FetchedOnce`): every `finally` block takes its cpu out of both sides, or moves
it to `leaked` when Redis cuts it short, and a release nobody reserved, cut off at
zero, is within `unreserved` (`Covered`). For the books, `Balanced(a)` says
of any transaction that it changes a worker's figure by the cpu of the tasks it
takes off less that of the tasks it puts there. A balanced transaction that
commits over fresh rows keeps the ledger (`FreshCommit`). Handlers are balanced
from their first step (`BeginBalanced`), a batch when it commits (`BatchBalanced`,
from `BatchBooks`, which holds throughout the batch); a task evicted and
placed on the same worker again counts on both sides. A detector pass is not
balanced: `DeadOnly` says that it leaves every figure as read and takes
tasks off workers it declares DEAD only, so that all other ledgers are kept.

**MastersProofs.** The election and the lock are independent parts of `MInv`: the
lock keeps its promise whoever believes to be the leader. The additional
conjunct is `PlacedInTransaction`, that a master outside its transaction is not
about to place anything.

**ContainerProofs.** `NoStaleContainer` is inductive with the types, refused starts
included: what they leave behind was never started. `CInv` adds that `run_task` is under way only in a live process,
that nobody but an outsider removes a container under it, and that a result is
final once returned.

**LiveViewProofs.** `Stream` is a fact about three sequences, proved to survive a
publication with and without overflow, a `get`, a send and a receipt, before it
is claimed of any connection (`LInv`). `ViewInv`: an answer in flight is no older
than the view it will replace.

Model-checked only: liveness (`PendingReturnsToQueue`, `EveryTaskFinishes`,
`LeaderEmerges`, `PendingIsPlaced`, `RunsEnd`, `ViewConverges`,
`GoneClientsLeave`), since fairness and ENABLED are beyond the prover. The four
counterexamples are TLC's as well.

## Coarser than the code

* A handler's reads and its Redis writes are one step, its commit another. In the
  code `complete_task` and `fail_task` read the task and then, after an await,
  the worker's row: the model has no commit of another transaction between
  these two reads. It has every commit between them and the handler's own.
* The preemption engine reads the ACTIVE workers and then, worker by worker, the
  RUNNING tasks (`preemption.py:75-89`), each by an awaited query. The model reads
  them in one step together with the plan (`preempt`): no other transaction
  commits between these reads. Plan, evictions, placement and commit are steps of
  their own, with every commit of others between them.
* Rows flushed before commit lock them in PostgreSQL; the model has no row locks.
  A transaction aborted by a lock conflict is a `db_error`.
* A worker tries to register without the limit of ten attempts. The clean-up of
  containers at start-up is in ContainerRunner.
* The shutdown of a master is one step in Masters: its loops are cancelled, the lock
  released and the key deleted together.
* Masters has no scheduled-task reconciliation and no workers; what a batch does
  to them is in Cluster. `requeue` stands for no workers and for no room.
* In LiveView a failed request is repeated or given up at any point, the count of
  retries is left out, and the other side of a broken connection is told by its
  next send. The list, statistics and worker queries behave alike and are one.
* Time is absent: TTLs, timeouts and intervals are steps that may come at any
  moment.
* `RedisError` is a call of `_execute_task` that fails and was not executed. A
  Redis error of the poll, of the listener or of the heartbeat is logged and the
  call repeated, which is the step not taken; one of a handler or a loop of the master
  ends its transaction and is a `db_error`.
* A fetch that fails and a 404 are one step. Rows are never deleted.
* `active_tasks` and reservations are written by workers and not read by the master.
* Rows a session has read and no longer refers to are dropped from the
  identity map, which is weak.
* The single master of Cluster is leader throughout; several are in Masters.

### Not modelled

* **Log streaming, health, metrics**: they read rows, container logs and counters
  and format them. Nothing in the system reads what they produce.
* **Configuration, schemas, templates, errors**: static data and validation of
  single values. Their ranges are assumptions of `Stores`.
* **Migrations**: the schema is created before anything of the above runs.
* **Dashboard pages, event feed, charts, forms**: presentation of the cache and of
  the last event that LiveView has.
* **Kubernetes operator and chart**: a client of the REST API, whose requests are
  those of Cluster's clients. What it keeps in its resources rests on the retries
  of kopf, which is not part of the repository.
* `best_fit` and `first_fit`, `mark_worker_dead`, `update_worker_resources`, `peek`,
  `clear` and `clear_worker_data`: no caller.

## Plan

Done, in this order: Stores and the state machine, API handlers, scheduler with
preemption, failure detector, worker, their composition and faults; election;
container runner; registration and heartbeat endpoints as transactions; the
abstract lifecycle; the books over transactions; several masters around the
lock; event bus and dashboard; the theorems above.

Next:

1. The reads of the preemption engine as steps of their own: a phase of `sched`
   that has the workers and reads the tasks of one after the other, and a conjunct
   of `SessionInv` for what it holds meanwhile.
2. The positive side of the disagreements: what holds of the books when
   cancellations and registrations are counted, and what of terminal states when
   no two handlers overlap, as theorems with the disagreement as hypothesis.
3. `VictimSets` against the greedy loop it stands for: minimality and sufficiency
   of the victims as lemmas.
4. The steps behind the liveness properties (what enables each and what no step
   takes back) as action properties, where they say something by themselves.
