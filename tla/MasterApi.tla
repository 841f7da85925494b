---- MODULE MasterApi ----
(***************************************************************************)
(* The REST handlers of the master: create and cancel of tasks             *)
(* (services/task_service.py, for clients), registration and heartbeat of  *)
(* workers (services/worker_service.py) and the state, complete and fail   *)
(* reports of workers (api/workers.py).                                    *)
(*                                                                         *)
(* A handler is two steps: it reads its rows, validates and talks to       *)
(* Redis; then its session commits.  Anything may happen in between.  A    *)
(* request the handler refuses (404, 409) changes nothing and has no step. *)
(***************************************************************************)
EXTENDS Stores

CONSTANT Cancellable    \* bound: the tasks a client may ask to cancel

ASSUME CancellableAssumption == Cancellable \subseteq Tasks

VARIABLES
    api,      \* per session: the request it serves and who waits for it
    minted    \* the ids create_task has drawn (uuid4: never drawn twice)

apiVars == <<api, minted>>

\* A worker's start-up coroutine, beside the Slots of its executions.
Main == 0

\* Who may wait for a handler's response: the coroutines of the workers.
Callers == Workers \X (Slots \cup {Main})

Operation == {"create", "cancel", "register", "heartbeat", "state", "complete", "fail"}
Idle == [op |-> "idle", caller |-> None]

ApiTypeOK ==
    /\ api \in [Sessions -> [op : Operation \cup {"idle"}, caller : Callers \cup {None}]]
    /\ minted \in SUBSET Tasks

ApiInit ==
    /\ api = [s \in Sessions |-> Idle]
    /\ minted = {}

Open(s, op, caller) ==
    /\ api[s] = Idle
    /\ api' = [api EXCEPT ![s] = [op |-> op, caller |-> caller]]

\* The handler of c has not answered yet.
Waiting(c) == \E s \in Sessions : api[s].caller = c

-----------------------------------------------------------------------------
(* Client requests *)

\* The row is flushed in the open transaction and the id is already in Redis
\* when the handler returns; the dependency get_db commits afterwards.
create_task(s, t) ==
    /\ t \notin minted
    /\ minted' = minted \cup {t}
    /\ Open(s, "create", None)
    /\ session_tasks' =
        WithTask(s, t, [state |-> "PENDING", worker |-> None, retry |-> 0])
    /\ queue' = queue \cup {t}
    /\ UNCHANGED <<rows, session_workers, assignments, preempts, heartbeats>>

\* The worker is neither told nor given its resources back.
cancel_task(s, t) ==
    /\ t \in Cancellable
    /\ validate_transition(tasks[t].state, "CANCELLED")
    /\ Open(s, "cancel", None)
    /\ session_tasks' =
        WithTask(s, t, [tasks[t] EXCEPT !.state = "CANCELLED", !.worker = None])
    /\ queue' = IF tasks[t].state = "PENDING" THEN queue \ {t} ELSE queue
    /\ UNCHANGED <<rows, session_workers, assignments, preempts, heartbeats, minted>>

-----------------------------------------------------------------------------
(* Workers as such *)

\* A hostname that is not in the table gets a row; one that is gets status
\* and resources set anew, whatever it still has assigned.
register_worker(s, w, caller) ==
    /\ Open(s, "register", caller)
    /\ session_workers' =
        WithWorker(s, w, [status |-> "ACTIVE", cpu_available |-> cpu_total[w]])
    /\ UNCHANGED <<rows, session_tasks, redis, minted>>

\* The figure in the request replaces the one of the books.
heartbeat(s, w, cpu_available) ==
    /\ workers[w].status # "ABSENT"
    /\ Open(s, "heartbeat", None)
    /\ session_workers' =
        WithWorker(s, w, [workers[w] EXCEPT !.cpu_available = cpu_available])
    /\ UNCHANGED <<rows, session_tasks, redis, minted>>

-----------------------------------------------------------------------------
(* Worker reports.  The id of the reporting worker is not looked at. *)

\* 409, or a task that does not exist: nothing changes.
Refused(t, new) == ~validate_transition(tasks[t].state, new)

\* Mutant: the report of an ended task leaves the worker's cpu taken.
Freed_Forgotten(s, t) == session_workers

\* Give the task's cpu back to the worker its row names.
Freed(s, t) ==
    LET w == tasks[t].worker IN
    IF w = None THEN session_workers
    ELSE WithWorker(s, w, [workers[w] EXCEPT !.cpu_available = @ + resource_cpu[t]])

update_task_state(s, t, new, caller) ==
    /\ validate_transition(tasks[t].state, new)
    /\ Open(s, "state", caller)
    /\ session_tasks' = WithTask(s, t, [tasks[t] EXCEPT !.state = new])
    /\ UNCHANGED <<rows, session_workers, redis, minted>>

complete_task(s, t, caller) ==
    /\ validate_transition(tasks[t].state, "COMPLETED")
    /\ Open(s, "complete", caller)
    /\ session_tasks' = WithTask(s, t, [tasks[t] EXCEPT !.state = "COMPLETED"])
    /\ session_workers' = Freed(s, t)
    /\ UNCHANGED <<rows, redis, minted>>

fail_task(s, t, caller) ==
    /\ validate_transition(tasks[t].state, "FAILED")
    /\ Open(s, "fail", caller)
    /\ session_workers' = Freed(s, t)
    /\ \/ /\ HasRetries(tasks[t], t)
          /\ session_tasks' = WithTask(s, t, Requeued(tasks[t]))
          /\ queue' = queue \cup {t}
       \/ /\ ~HasRetries(tasks[t], t)
          /\ session_tasks' = WithTask(s, t, [tasks[t] EXCEPT !.state = "FAILED"])
          /\ UNCHANGED queue
    /\ UNCHANGED <<rows, assignments, preempts, heartbeats, minted>>

-----------------------------------------------------------------------------

\* hostname is unique: of two first registrations one fails.
IntegrityError(s) ==
    \E w \in Workers : /\ session_workers[s][w] # None
                       /\ session_workers[s][w].old.status = "ABSENT"
                       /\ workers[w].status # "ABSENT"

\* The end of `async with session.begin()`, and the response.
commit(s) ==
    /\ api[s] # Idle
    /\ ~IntegrityError(s)
    /\ Commit(s)
    /\ api' = [api EXCEPT ![s] = Idle]
    /\ UNCHANGED <<redis, minted>>

\* The transaction fails instead (a database error): 500, nothing written,
\* the Redis writes stay.
abort(s) ==
    /\ api[s] # Idle
    /\ Rollback(s)
    /\ api' = [api EXCEPT ![s] = Idle]
    /\ UNCHANGED <<redis, minted>>
====
