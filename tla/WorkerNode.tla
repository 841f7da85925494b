---- MODULE WorkerNode ----
(***************************************************************************)
(* A worker process: start-up (worker/main.py), the heartbeat sender, the  *)
(* task executor with its assignment poll and its preemption listener      *)
(* (worker/executor.py) and the reservations of the resource reporter.     *)
(*                                                                         *)
(* _execute_task runs as one coroutine per polled assignment; Slots bounds *)
(* how many are alive at once.  Its HTTP posts to the master are joined    *)
(* with the handlers of MasterApi by the module that composes them.        *)
(***************************************************************************)
EXTENDS Stores

\* What `finally` releases when the task was never fetched: 1.0 cpu.
DefaultCpu == 1

VARIABLES
    up,             \* the worker processes that run
    exec,           \* the coroutines of each worker
    running_tasks,  \* _running_tasks: whose cancel event a signal would set
    reserved,       \* ResourceReporter._cpu_reserved
    active_tasks,   \* chronos:worker:{id}:active_tasks, a Redis set
    leaked,         \* history: cpu that finally blocks cut short left reserved
    unreserved,     \* history: cpu released by coroutines that reserved nothing
    overlapped      \* history: the tasks executed more than once at the same time

history == <<leaked, unreserved, overlapped>>
nodeVars == <<up, exec, running_tasks, reserved, active_tasks, history>>

(* fetch     before the GET of the task                                    *)
(* report    fetched and reserved, about to post RUNNING                   *)
(* run       posted RUNNING, in run_task                                   *)
(* complete  run_task returned, about to post complete                     *)
(* fail      run_task raised an error, about to post fail                  *)
(* finally   in the finally block                                          *)
Stage == {"free", "fetch", "report", "run", "complete", "fail", "finally"}

Free == [stage |-> "free", task |-> None, cancel |-> FALSE, fetched |-> FALSE]

Coroutine == [stage : Stage, task : Tasks \cup {None}, cancel : BOOLEAN, fetched : BOOLEAN]

NodeTypeOK ==
    /\ up \in SUBSET Workers
    /\ exec \in [Workers -> [Slots -> Coroutine]]
    /\ \A w \in Workers, k \in Slots : exec[w][k].stage # "free" => exec[w][k].task \in Tasks
    /\ running_tasks \in [Workers -> [Tasks -> Slots \cup {None}]]
    /\ reserved \in [Workers -> Nat]
    /\ active_tasks \in [Workers -> SUBSET Tasks]
    /\ leaked \in [Workers -> Nat]
    /\ unreserved \in [Workers -> Nat]
    /\ overlapped \in [Workers -> SUBSET Tasks]

NodeInit ==
    /\ up = {}
    /\ exec = [w \in Workers |-> [k \in Slots |-> Free]]
    /\ running_tasks = [w \in Workers |-> [t \in Tasks |-> None]]
    /\ reserved = [w \in Workers |-> 0]
    /\ active_tasks = [w \in Workers |-> {}]
    /\ leaked = [w \in Workers |-> 0]
    /\ unreserved = [w \in Workers |-> 0]
    /\ overlapped = [w \in Workers |-> {}]

-----------------------------------------------------------------------------
(* The process *)

\* An attempt of the start-up: posted again until it is answered.
register_with_master(w) == w \notin up /\ UNCHANGED nodeVars

\* The answer carries the worker's id: main starts heartbeat and executor.
main(w) ==
    /\ up' = up \cup {w}
    /\ UNCHANGED <<exec, running_tasks, reserved, active_tasks, history>>

\* A stop or a crash: everything in memory is gone, the Redis keys stay.
stop(w) ==
    /\ w \in up
    /\ up' = up \ {w}
    /\ exec' = [exec EXCEPT ![w] = [k \in Slots |-> Free]]
    /\ running_tasks' = [running_tasks EXCEPT ![w] = [t \in Tasks |-> None]]
    /\ reserved' = [reserved EXCEPT ![w] = 0]
    /\ leaked' = [leaked EXCEPT ![w] = 0]
    /\ unreserved' = [unreserved EXCEPT ![w] = 0]
    /\ overlapped' = [overlapped EXCEPT ![w] = {}]
    /\ UNCHANGED <<rows, sessions, redis, active_tasks>>

send_heartbeat(w) ==
    /\ w \in up
    /\ w \notin heartbeats
    /\ heartbeats' = heartbeats \cup {w}
    /\ UNCHANGED <<rows, sessions, queue, assignments, preempts, nodeVars>>

\* The key's TTL runs out.
heartbeat_expires(w) ==
    /\ w \in heartbeats
    /\ heartbeats' = heartbeats \ {w}
    /\ UNCHANGED <<rows, sessions, queue, assignments, preempts, nodeVars>>

-----------------------------------------------------------------------------
(* The executor *)

FreeSlot(w, k) ==
    /\ exec[w][k].stage = "free"
    /\ \A j \in Slots : j < k => exec[w][j].stage # "free"

\* Whether k shares its task with another coroutine, from now on.
Overlap(w, k, t) ==
    LET shared == \E j \in Slots \ {k} : exec[w][j].task = t IN
    overlapped' = [overlapped EXCEPT ![w] = IF shared THEN @ \cup {t} ELSE @ \ {t}]

\* BLPOP, then a coroutine that registers its cancel event under the id,
\* in the place of the event of an earlier execution of the same task.
poll_assignment(w, k) ==
    /\ w \in up
    /\ assignments[w] # <<>>
    /\ FreeSlot(w, k)
    /\ LET t == Head(assignments[w]) IN
       /\ exec' = [exec EXCEPT ![w][k] = [Free EXCEPT !.stage = "fetch", !.task = t]]
       /\ running_tasks' = [running_tasks EXCEPT ![w][t] = k]
       /\ Overlap(w, k, t)
    /\ assignments' = [assignments EXCEPT ![w] = Tail(@)]
    /\ UNCHANGED <<rows, sessions, queue, preempts, heartbeats, up, reserved, active_tasks,
                   leaked, unreserved>>

At(w, k, stage) == exec[w][k].stage = stage

\* 200 from the master: reserve and record the task as active.
fetch_task(w, k) ==
    LET t == exec[w][k].task IN
    /\ At(w, k, "fetch")
    /\ exec' = [exec EXCEPT ![w][k].stage = "report", ![w][k].fetched = TRUE]
    /\ reserved' = [reserved EXCEPT ![w] = @ + resource_cpu[t]]
    /\ active_tasks' = [active_tasks EXCEPT ![w] = @ \cup {t}]
    /\ UNCHANGED <<rows, sessions, redis, up, running_tasks, history>>

\* add_active_task raises, after the reservation: the task is reported failed.
add_active_task_error(w, k) ==
    /\ At(w, k, "fetch")
    /\ exec' = [exec EXCEPT ![w][k].stage = "fail", ![w][k].fetched = TRUE]
    /\ reserved' = [reserved EXCEPT ![w] = @ + resource_cpu[exec[w][k].task]]
    /\ UNCHANGED <<rows, sessions, redis, up, running_tasks, active_tasks, history>>

\* The GET fails (or answers 404: a row is never deleted, so it does not);
\* the error is logged and the coroutine returns.
fetch_error(w, k) ==
    /\ At(w, k, "fetch")
    /\ exec' = [exec EXCEPT ![w][k].stage = "finally"]
    /\ UNCHANGED <<rows, sessions, redis, up, running_tasks, reserved, active_tasks, history>>

\* The three reports move on whatever the master answers.
_report_state(w, k) ==
    /\ At(w, k, "report")
    /\ exec' = [exec EXCEPT ![w][k].stage = "run"]
    /\ UNCHANGED <<up, running_tasks, reserved, active_tasks, history>>
_report_completion(w, k) ==
    /\ At(w, k, "complete")
    /\ exec' = [exec EXCEPT ![w][k].stage = "finally"]
    /\ UNCHANGED <<up, running_tasks, reserved, active_tasks, history>>
_report_failure(w, k) ==
    /\ At(w, k, "fail")
    /\ exec' = [exec EXCEPT ![w][k].stage = "finally"]
    /\ UNCHANGED <<up, running_tasks, reserved, active_tasks, history>>

\* Mutant: a non-zero exit code is reported like success.
run_task_IgnoresExitCode(w, k, next) ==
    /\ At(w, k, "run")
    /\ \/ next \in {"complete", "fail"}
       \/ next = "finally" /\ exec[w][k].cancel
    /\ exec' = [exec EXCEPT ![w][k].stage = IF next = "fail" THEN "complete" ELSE next]
    /\ UNCHANGED <<rows, sessions, redis, up, running_tasks, reserved, active_tasks, history>>

\* run_task returns, raises an error, or sees the cancel event.
run_task(w, k, next) ==
    /\ At(w, k, "run")
    /\ \/ next \in {"complete", "fail"}
       \/ next = "finally" /\ exec[w][k].cancel
    /\ exec' = [exec EXCEPT ![w][k].stage = next]
    /\ UNCHANGED <<rows, sessions, redis, up, running_tasks, reserved, active_tasks, history>>

\* Mutants: nothing is released; the reservation may go below zero.
Released_Nothing(r, cpu) == r
Released_Unclamped(r, cpu) == r - cpu

\* ResourceReporter.release never goes below zero.
Released(r, cpu) == IF r < cpu THEN 0 ELSE r - cpu

\* What a finally block releases.
Claim(w, k) == IF exec[w][k].fetched THEN resource_cpu[exec[w][k].task] ELSE DefaultCpu

\* Mutant: the cancel event stays registered.
finally_KeepsEvent(w, k) ==
    LET t == exec[w][k].task IN
    /\ At(w, k, "finally")
    /\ exec' = [exec EXCEPT ![w][k] = Free]
    /\ active_tasks' = [active_tasks EXCEPT ![w] = @ \ {t}]
    /\ reserved' = [reserved EXCEPT ![w] = Released(@, Claim(w, k))]
    /\ unreserved' = [unreserved EXCEPT ![w] = IF exec[w][k].fetched THEN @ ELSE @ + DefaultCpu]
    /\ Overlap(w, k, t)
    /\ UNCHANGED <<rows, sessions, redis, up, running_tasks, leaked>>

\* The finally block drops the entry of the task, whoever made it.
finally(w, k) ==
    LET t == exec[w][k].task IN
    /\ At(w, k, "finally")
    /\ exec' = [exec EXCEPT ![w][k] = Free]
    /\ running_tasks' = [running_tasks EXCEPT ![w][t] = None]
    /\ active_tasks' = [active_tasks EXCEPT ![w] = @ \ {t}]
    /\ reserved' = [reserved EXCEPT ![w] = Released(@, Claim(w, k))]
    /\ unreserved' = [unreserved EXCEPT ![w] = IF exec[w][k].fetched THEN @ ELSE @ + DefaultCpu]
    /\ Overlap(w, k, t)
    /\ UNCHANGED <<rows, sessions, redis, up, leaked>>

\* remove_active_task raises in the finally block: the release is skipped.
remove_active_task_error(w, k) ==
    LET t == exec[w][k].task IN
    /\ At(w, k, "finally")
    /\ exec' = [exec EXCEPT ![w][k] = Free]
    /\ running_tasks' = [running_tasks EXCEPT ![w][t] = None]
    /\ leaked' = [leaked EXCEPT ![w] = IF exec[w][k].fetched THEN @ + resource_cpu[t] ELSE @]
    /\ Overlap(w, k, t)
    /\ UNCHANGED <<rows, sessions, redis, up, reserved, active_tasks, unreserved>>

\* One LPOP of the preemption listener; a signal nobody waits for is lost.
_preemption_listener(w) ==
    /\ w \in up
    /\ preempts[w] # <<>>
    /\ preempts' = [preempts EXCEPT ![w] = Tail(@)]
    /\ LET k == running_tasks[w][Head(preempts[w])] IN
       exec' = IF k = None THEN exec ELSE [exec EXCEPT ![w][k].cancel = TRUE]
    /\ UNCHANGED <<rows, sessions, queue, assignments, heartbeats, up,
                   running_tasks, reserved, active_tasks, history>>
====
