---- MODULE Stores ----
(***************************************************************************)
(* The state the master's tasks share: the PostgreSQL rows, the SQLAlchemy *)
(* sessions that have rows in memory, and the Redis keys.                  *)
(*                                                                         *)
(* A session is optimistic and unlocked (READ COMMITTED, no FOR UPDATE):   *)
(* it keeps the row it loaded and the row as the handler changed it, and   *)
(* a commit issues an UPDATE with the new, absolute value of every column  *)
(* that differs from the loaded one.  Columns it did not change keep what  *)
(* other transactions committed in the meantime.                           *)
(*                                                                         *)
(* CPU stands for both resource columns; memory is updated at the same     *)
(* places by the same arithmetic.                                          *)
(***************************************************************************)
EXTENDS Integers, Sequences, FiniteSets, TaskStateMachine

CONSTANTS
    Tasks,          \* task ids the clients may create
    Workers,        \* worker ids, naturals: ids are compared to break ties
    Sessions,       \* database sessions available to API handlers
    Slots,          \* coroutines of _execute_task per worker, naturals
    None,           \* the NULL of a nullable column, and "not in the session"
    priority,       \* tasks.priority,     a function on Tasks
    resource_cpu,   \* tasks.resource_cpu, a function on Tasks
    max_retries,    \* tasks.max_retries,  a function on Tasks
    cpu_total,      \* what each worker registers, a function on Workers
    MaxQueue        \* bound on the length of a Redis list

ASSUME WorkersAssumption == Workers \subseteq Nat /\ IsFiniteSet(Workers)
ASSUME SlotsAssumption   == Slots \subseteq Nat \ {0} /\ IsFiniteSet(Slots)
ASSUME TasksAssumption   == IsFiniteSet(Tasks)
ASSUME SessionsAssumption == Sessions \cap {"scheduler", "detector"} = {}
ASSUME ColumnsAssumption ==
    /\ priority \in [Tasks -> 0..100]
    /\ resource_cpu \in [Tasks -> Nat \ {0}]
    /\ max_retries \in [Tasks -> 0..10]
    /\ cpu_total \in [Workers -> Nat \ {0}]

VARIABLES
    tasks,            \* table tasks
    workers,          \* table workers
    session_tasks,    \* identity map of each session: Task objects
    session_workers,  \* identity map of each session: Worker objects
    queue,            \* chronos:task_queue, a sorted set scored by -priority
    assignments,      \* chronos:worker:{id}:assignments, a list per worker
    preempts,         \* chronos:worker:{id}:preempt, a list per worker
    heartbeats        \* the workers whose heartbeat key has not expired

rows == <<tasks, workers>>
sessions == <<session_tasks, session_workers>>
redis == <<queue, assignments, preempts, heartbeats>>

\* The owners of a session: API handlers and the two background loops.
Actors == Sessions \cup {"scheduler", "detector"}

\* ABSENT: no such row yet.
TaskRow == [state : TaskState \cup {"ABSENT"},
            worker : Workers \cup {None},
            retry : Nat]
WorkerRow == [status : WorkerStatus \cup {"ABSENT"}, cpu_available : Int]

\* An object of a session: the row as loaded and as the handler left it.
Loaded(Row) == [old : Row, new : Row]

\* NULL is no id, no slot, no state and no object.
ASSUME NoneAssumption ==
    /\ None \notin Workers
    /\ None \notin Tasks
    /\ None \notin Slots
    /\ None \notin TaskState \cup {"ABSENT"}
    /\ None \notin Loaded(TaskRow)
    /\ None \notin Loaded(WorkerRow)

StoresTypeOK ==
    /\ tasks \in [Tasks -> TaskRow]
    /\ workers \in [Workers -> WorkerRow]
    /\ session_tasks \in [Actors -> [Tasks -> Loaded(TaskRow) \cup {None}]]
    /\ session_workers \in [Actors -> [Workers -> Loaded(WorkerRow) \cup {None}]]
    /\ queue \in SUBSET Tasks
    /\ assignments \in [Workers -> Seq(Tasks)]
    /\ preempts \in [Workers -> Seq(Tasks)]
    /\ heartbeats \in SUBSET Workers

StoresInit ==
    /\ tasks = [t \in Tasks |-> [state |-> "ABSENT", worker |-> None, retry |-> 0]]
    /\ workers = [w \in Workers |-> [status |-> "ABSENT", cpu_available |-> 0]]
    /\ session_tasks = [a \in Actors |-> [t \in Tasks |-> None]]
    /\ session_workers = [a \in Actors |-> [w \in Workers |-> None]]
    /\ queue = {}
    /\ assignments = [w \in Workers |-> <<>>]
    /\ preempts = [w \in Workers |-> <<>>]
    /\ heartbeats = {}

-----------------------------------------------------------------------------
(* SQLAlchemy sessions *)

\* session.get: the object the session holds, else the committed row.
TaskObject(a, t) ==
    IF session_tasks[a][t] = None THEN tasks[t] ELSE session_tasks[a][t].new
WorkerObject(a, w) ==
    IF session_workers[a][w] = None THEN workers[w] ELSE session_workers[a][w].new

\* The identity maps of a after it sets objects: a row loaded before keeps
\* the values it was loaded with.
WithTask(a, t, row) ==
    [session_tasks EXCEPT ![a][t] =
        [old |-> IF @ = None THEN tasks[t] ELSE @.old, new |-> row]]
WithWorker(a, w, row) ==
    [session_workers EXCEPT ![a][w] =
        [old |-> IF @ = None THEN workers[w] ELSE @.old, new |-> row]]

\* One column of an UPDATE: written only if the session changed it.
Column(current, old, new) == IF new = old THEN current ELSE new

\* The row a SELECT of session a evaluates its WHERE clause on (autoflush:
\* the session's own changes are visible to its own queries), which is also
\* the row its COMMIT leaves.
FlushedTask(a, t) ==
    IF session_tasks[a][t] = None THEN tasks[t]
    ELSE LET o == session_tasks[a][t] IN
         [state  |-> Column(tasks[t].state, o.old.state, o.new.state),
          worker |-> Column(tasks[t].worker, o.old.worker, o.new.worker),
          retry  |-> Column(tasks[t].retry, o.old.retry, o.new.retry)]
FlushedWorker(a, w) ==
    IF session_workers[a][w] = None THEN workers[w]
    ELSE LET o == session_workers[a][w] IN
         [status        |-> Column(workers[w].status, o.old.status, o.new.status),
          cpu_available |-> Column(workers[w].cpu_available,
                                   o.old.cpu_available, o.new.cpu_available)]

Forget(a) ==
    /\ session_tasks' = [session_tasks EXCEPT ![a] = [t \in Tasks |-> None]]
    /\ session_workers' = [session_workers EXCEPT ![a] = [w \in Workers |-> None]]

Commit(a) ==
    /\ tasks' = [t \in Tasks |-> FlushedTask(a, t)]
    /\ workers' = [w \in Workers |-> FlushedWorker(a, w)]
    /\ Forget(a)

Rollback(a) == Forget(a) /\ UNCHANGED rows

-----------------------------------------------------------------------------
(* Redis *)

\* ZPOPMIN with a count: the n best-scored members; ties come in any order.
Batches(n) ==
    {B \in SUBSET queue :
        /\ Cardinality(B) = IF Cardinality(queue) < n THEN Cardinality(queue) ELSE n
        /\ \A t \in B, u \in queue \ B : priority[t] >= priority[u]}

\* RPUSH.  MaxQueue only bounds the model: the step waits for room.
assign_task(w, t) ==
    /\ Len(assignments[w]) < MaxQueue
    /\ assignments' = [assignments EXCEPT ![w] = Append(@, t)]
send_preempt_signal(w, t) ==
    /\ Len(preempts[w]) < MaxQueue
    /\ preempts' = [preempts EXCEPT ![w] = Append(@, t)]

-----------------------------------------------------------------------------
(* Retries, counted by every path that sends a task back to the queue *)

\* Mutant: counts the attempts, not the retries.
HasRetries_OffByOne(row, t) == row.retry <= max_retries[t]

HasRetries(row, t) == row.retry < max_retries[t]

Requeued(row) ==
    [state |-> "PENDING", worker |-> None, retry |-> row.retry + 1]
====
