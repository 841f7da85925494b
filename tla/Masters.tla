---- MODULE Masters ----
(***************************************************************************)
(* Several masters over one database and one Redis: the election, and the  *)
(* scheduler loop of every master with the lock around its batches         *)
(* (scheduler_loop.py, redis_client/distributed_lock.py).                  *)
(*                                                                         *)
(* What a batch does to workers is the subject of Cluster.  Here a task is *)
(* PENDING or SCHEDULED, and a batch places every PENDING task it pops     *)
(* unless there is no worker.                                              *)
(***************************************************************************)
EXTENDS LeaderElection, FiniteSets

CONSTANTS
    Tasks,            \* task ids the clients may create
    BatchSize,        \* settings.scheduler_batch_size
    ReconcileEvery,   \* ticks between reconciliations (60 in the code)
    MaxRequeues,      \* bound: how often placed tasks come back
    LoopFaultKinds    \* which faults of the loops the environment may inject

ASSUME LoopAssumption ==
    /\ IsFiniteSet(Tasks)
    /\ BatchSize \in Nat \ {0} /\ ReconcileEvery \in Nat \ {0}
    /\ MaxRequeues \in Nat
    /\ LoopFaultKinds \subseteq {"db_error", "no_workers", "lock_expired"}

VARIABLES
    row,        \* the state of each task's row
    queue,      \* chronos:task_queue
    lock,       \* chronos:lock:scheduler: who set it
    loop,       \* what the scheduler loop of each master does next
    ticks,      \* its tick_count % ReconcileEvery
    found,      \* the PENDING rows its reconciliation has read
    batch,      \* the ids it has popped and not yet dealt with
    placed,     \* the tasks its open transaction makes SCHEDULED
    lapsed,     \* history: the masters whose lock expired under their batch,
                \* until no batch is under way
    requeues    \* tasks that came back so far

loopVars == <<row, queue, lock, loop, ticks, found, batch, placed, lapsed, requeues>>
allVars == <<vars, loopVars>>

\* Set by a process that is gone; nobody's token matches it.
Orphaned == "orphaned"

ASSUME OrphanedAssumption == Orphaned \notin Nodes

(* off      not running           idle     about to look at _is_leader      *)
(* read     about to read PENDING rows     enqueue  about to queue them     *)
(* acquire  found the queue not empty      locked   about to pop            *)
(* place    in its transaction             release  about to release        *)
LoopStep == {"off", "read", "enqueue", "idle", "acquire", "locked", "place", "release"}

Locked == {"locked", "place", "release"}

MastersTypeOK ==
    /\ TypeOK
    /\ row \in [Tasks -> {"ABSENT", "PENDING", "SCHEDULED"}]
    /\ queue \in SUBSET Tasks
    /\ lock \in Nodes \cup {None, Orphaned}
    /\ loop \in [Nodes -> LoopStep]
    /\ ticks \in [Nodes -> 0..(ReconcileEvery - 1)]
    /\ found \in [Nodes -> SUBSET Tasks]
    /\ batch \in [Nodes -> SUBSET Tasks]
    /\ placed \in [Nodes -> SUBSET Tasks]
    /\ lapsed \in SUBSET Nodes
    /\ requeues \in 0..MaxRequeues

MastersInit ==
    /\ Init
    /\ row = [t \in Tasks |-> "ABSENT"]
    /\ queue = {}
    /\ lock = None
    /\ loop = [n \in Nodes |-> "off"]
    /\ ticks = [n \in Nodes |-> 0]
    /\ found = [n \in Nodes |-> {}]
    /\ batch = [n \in Nodes |-> {}]
    /\ placed = [n \in Nodes |-> {}]
    /\ lapsed = {}
    /\ requeues = 0

LoopFault(kind) ==
    /\ kind \in LoopFaultKinds
    /\ faults < MaxFaults
    /\ faults' = faults + 1

-----------------------------------------------------------------------------
(* Clients and workers *)

submit(t) ==
    /\ row[t] = "ABSENT"
    /\ row' = [row EXCEPT ![t] = "PENDING"]
    /\ queue' = queue \cup {t}
    /\ UNCHANGED <<vars, lock, loop, ticks, found, batch, placed, lapsed, requeues>>

\* A placed task fails or is evicted and has retries left.
come_back(t) ==
    /\ row[t] = "SCHEDULED"
    /\ requeues < MaxRequeues
    /\ requeues' = requeues + 1
    /\ row' = [row EXCEPT ![t] = "PENDING"]
    /\ queue' = queue \cup {t}
    /\ UNCHANGED <<vars, lock, loop, ticks, found, batch, placed, lapsed>>

-----------------------------------------------------------------------------
(* Reconciliation: at the start of every master, leader or not, and outside *)
(* the lock.                                                                *)

\* lifespan starts the loop some seconds after the campaign.
start(n) ==
    /\ loop[n] = "off"
    /\ pc[n] # "down"
    /\ loop' = [loop EXCEPT ![n] = "read"]
    /\ UNCHANGED <<vars, row, queue, lock, ticks, found, batch, placed, lapsed, requeues>>

_reconcile_pending_tasks(n) ==
    /\ loop[n] = "read"
    /\ found' = [found EXCEPT ![n] = {t \in Tasks : row[t] = "PENDING"}]
    /\ loop' = [loop EXCEPT ![n] = "enqueue"]
    /\ UNCHANGED <<vars, row, queue, lock, ticks, batch, placed, lapsed, requeues>>

enqueue_missing(n) ==
    /\ loop[n] = "enqueue"
    /\ queue' = queue \cup found[n]
    /\ found' = [found EXCEPT ![n] = {}]
    /\ loop' = [loop EXCEPT ![n] = "idle"]
    /\ UNCHANGED <<vars, row, lock, ticks, batch, placed, lapsed, requeues>>

-----------------------------------------------------------------------------
(* One tick.  _is_leader is looked at once, before it: a tick goes on when  *)
(* the leadership is lost.                                                  *)

\* Mutant: reconciliation only at start-up.
TickDone_NoReconcile(n) ==
    /\ ticks' = ticks
    /\ loop' = [loop EXCEPT ![n] = "idle"]

TickDone(n) ==
    /\ ticks' = [ticks EXCEPT ![n] = (@ + 1) % ReconcileEvery]
    /\ loop' = [loop EXCEPT ![n] = IF ticks'[n] = 0 THEN "read" ELSE "idle"]

_tick(n) ==
    /\ loop[n] = "idle"
    /\ is_leader[n]
    /\ \/ /\ queue = {}
          /\ TickDone(n)
       \/ /\ queue # {}
          /\ loop' = [loop EXCEPT ![n] = "acquire"]
          /\ UNCHANGED ticks
    /\ UNCHANGED <<vars, row, queue, lock, found, batch, placed, lapsed, requeues>>

\* SET NX with a TTL of 10 s.
acquire(n) ==
    /\ loop[n] = "acquire"
    /\ lock = None
    /\ lock' = n
    /\ loop' = [loop EXCEPT ![n] = "locked"]
    /\ UNCHANGED <<vars, row, queue, ticks, found, batch, placed, lapsed, requeues>>

\* Mutant: the batch goes on without the lock.
lock_timeout_GoesOn(n) ==
    /\ loop[n] = "acquire"
    /\ lock # None
    /\ loop' = [loop EXCEPT ![n] = "locked"]
    /\ UNCHANGED <<vars, row, queue, lock, ticks, found, batch, placed, lapsed, requeues>>

\* Somebody else had it for the 2 s of blocking_timeout.
lock_timeout(n) ==
    /\ loop[n] = "acquire"
    /\ lock # None
    /\ TickDone(n)
    /\ UNCHANGED <<vars, row, queue, lock, found, batch, placed, lapsed, requeues>>

dequeue_batch(n) ==
    /\ loop[n] = "locked"
    /\ \E B \in SUBSET queue :
        /\ Cardinality(B) = IF Cardinality(queue) < BatchSize THEN Cardinality(queue)
                                                              ELSE BatchSize
        /\ queue' = queue \ B
        /\ batch' = [batch EXCEPT ![n] = B]
    /\ loop' = [loop EXCEPT ![n] = IF queue = {} THEN "release" ELSE "place"]
    /\ UNCHANGED <<vars, row, lock, ticks, found, placed, lapsed, requeues>>

\* The row is read, and the assignment is in Redis, before the commit.
_try_schedule_task(n, t) ==
    /\ loop[n] = "place"
    /\ t \in batch[n]
    /\ batch' = [batch EXCEPT ![n] = @ \ {t}]
    /\ placed' = IF row[t] = "PENDING" THEN [placed EXCEPT ![n] = @ \cup {t}] ELSE placed
    /\ UNCHANGED <<vars, row, queue, lock, loop, ticks, found, lapsed, requeues>>

\* No worker, or no room: what is left of the batch goes back.
requeue(n) ==
    /\ loop[n] = "place"
    /\ LoopFault("no_workers")
    /\ queue' = queue \cup {t \in batch[n] : row[t] = "PENDING"}
    /\ batch' = [batch EXCEPT ![n] = {}]
    /\ UNCHANGED <<key, pc, is_leader, lease,
                   row, lock, loop, ticks, found, placed, lapsed, requeues>>

commit(n) ==
    /\ loop[n] = "place"
    /\ batch[n] = {}
    /\ row' = [t \in Tasks |-> IF t \in placed[n] THEN "SCHEDULED" ELSE row[t]]
    /\ placed' = [placed EXCEPT ![n] = {}]
    /\ loop' = [loop EXCEPT ![n] = "release"]
    /\ UNCHANGED <<vars, queue, lock, ticks, found, batch, lapsed, requeues>>

\* The transaction fails and the popped ids are gone from the queue.
batch_error(n) ==
    /\ loop[n] = "place"
    /\ LoopFault("db_error")
    /\ batch' = [batch EXCEPT ![n] = {}]
    /\ placed' = [placed EXCEPT ![n] = {}]
    /\ loop' = [loop EXCEPT ![n] = "release"]
    /\ UNCHANGED <<key, pc, is_leader, lease,
                   row, queue, lock, ticks, found, lapsed, requeues>>

\* Mutant: DEL without a look at the token.
Released_Anyones(n) == None

\* Only the token of the holder deletes the key; otherwise the release
\* raises, which is swallowed.
Released(n) == IF lock = n THEN None ELSE lock

BatchEnds(n) ==
    lapsed' = IF \E m \in Nodes \ {n} : loop[m] \in Locked THEN lapsed ELSE {}

release(n) ==
    /\ loop[n] = "release"
    /\ lock' = Released(n)
    /\ BatchEnds(n)
    /\ TickDone(n)
    /\ UNCHANGED <<vars, row, queue, found, batch, placed, requeues>>

-----------------------------------------------------------------------------
(* The end of a master, and of a lock *)

\* What the process had in memory is gone, its transaction rolled back.
LoopEnds(n) ==
    /\ loop' = [loop EXCEPT ![n] = "off"]
    /\ ticks' = [ticks EXCEPT ![n] = 0]
    /\ found' = [found EXCEPT ![n] = {}]
    /\ batch' = [batch EXCEPT ![n] = {}]
    /\ placed' = [placed EXCEPT ![n] = {}]
    /\ BatchEnds(n)
    /\ UNCHANGED <<row, queue, requeues>>

\* The cancelled loop leaves the lock's context on its way out.
shutdown(n) ==
    /\ resign(n)
    /\ lock' = Released(n)
    /\ LoopEnds(n)

die(n) ==
    /\ crash(n)
    /\ lock' = IF lock = n THEN Orphaned ELSE lock
    /\ LoopEnds(n)

\* The TTL of the key: of a process that is gone, or of a batch that takes
\* more than 10 s.
lock_expires ==
    /\ lock # None
    /\ lock' = None
    /\ IF lock = Orphaned THEN UNCHANGED <<faults, lapsed>>
       ELSE LoopFault("lock_expired") /\ lapsed' = lapsed \cup {lock}
    /\ UNCHANGED <<key, pc, is_leader, lease,
                   row, queue, loop, ticks, found, batch, placed, requeues>>

-----------------------------------------------------------------------------

Election(n) ==
    /\ lifespan(n) \/ Campaign(n) \/ campaign_error(n) \/ _keepalive_loop(n)
    /\ UNCHANGED loopVars

Loop(n) ==
    \/ start(n) \/ _reconcile_pending_tasks(n) \/ enqueue_missing(n)
    \/ _tick(n) \/ acquire(n) \/ lock_timeout(n) \/ dequeue_batch(n)
    \/ \E t \in Tasks : _try_schedule_task(n, t)
    \/ commit(n) \/ release(n)

MastersNext ==
    \/ \E t \in Tasks : submit(t) \/ come_back(t)
    \/ \E n \in Nodes : \/ Election(n) \/ Loop(n) \/ requeue(n) \/ batch_error(n)
                        \/ shutdown(n) \/ die(n)
    \/ key_expires /\ UNCHANGED loopVars
    \/ lock_expires

\* The campaign and the loop of a process run while it does, and keys expire
\* that nobody refreshes.  Faults need not come, as in Fairness.
MastersFairness ==
    /\ WF_allVars(key_expires /\ UNCHANGED <<faults, loopVars>>)
    /\ WF_allVars(lock = Orphaned /\ lock_expires)
    /\ \A n \in Nodes : /\ WF_allVars(Campaign(n) /\ UNCHANGED <<faults, loopVars>>)
                        /\ WF_allVars(Loop(n))

MastersSpec == MastersInit /\ [][MastersNext]_allVars /\ MastersFairness

-----------------------------------------------------------------------------
(* What holds *)

\* Whatever the election says, at most one batch is under way, that of the
\* lock's holder: the key a crashed master leaves, a late release and a lost
\* leadership included.  Only a batch that outlives its lock runs beside it.
OneBatchAtATime ==
    \A n \in Nodes : loop[n] \in Locked /\ n \notin lapsed => lock = n

\* The lock prevents duplicate scheduling also between two leaders: no two
\* transactions place one task, and none overwrites another's placement,
\* although ids come back to the queue outside the lock.
LockPreventsDuplicates ==
    lapsed = {} =>
        \A n \in Nodes : \A t \in placed[n] :
            /\ row[t] = "PENDING"
            /\ \A m \in Nodes \ {n} : t \notin placed[m]

\* A PENDING task is placed as long as some master runs: an id that a failed
\* batch, a crash or a shutdown took out of the queue is found again, and the
\* lock of a master that is gone does not stop the others.
PendingIsPlaced ==
    \A t \in Tasks :
        row[t] = "PENDING" ~> \/ row[t] # "PENDING"
                              \/ \A n \in Nodes : pc[n] = "down"
====
