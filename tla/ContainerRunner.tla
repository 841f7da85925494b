---- MODULE ContainerRunner ----
(***************************************************************************)
(* worker/task_runner.py: run_task supervises one Docker container per     *)
(* execution, several executions at a time, and start-up removes what an   *)
(* earlier process of the same worker left behind.                         *)
(*                                                                         *)
(* The Docker calls block the event loop, so the part of run_task between  *)
(* two sleeps is one step of the worker; the containers go on meanwhile.   *)
(***************************************************************************)
EXTENDS Integers

CONSTANTS
    Runs,         \* executions of run_task
    FaultKinds,   \* which faults the environment may inject
    MaxFaults     \* bound: how many of each kind

Kinds == {"docker_error", "removed", "crash"}

\* docker_error: calls to the daemon raise for a while; removed: somebody else
\* removes a container; crash: the worker stops, orderly or not (a cancelled
\* run_task leaves its container running too).
ASSUME FaultsAssumption ==
    /\ FaultKinds \subseteq Kinds
    /\ MaxFaults \in Nat

VARIABLES
    alive,      \* the worker process runs
    pc,         \* where each run_task is
    outcome,    \* how it ended: returned, TaskExecutionError, TaskPreemptedError
    cancel,     \* the runs whose cancel_event is set
    overdue,    \* the runs whose timeout_seconds have elapsed
    container,  \* its container, as the daemon sees it
    code,       \* how the container's process ended
    faults      \* injected so far, by kind

vars == <<alive, pc, outcome, cancel, overdue, container, code, faults>>

Step == {"idle", "start", "monitor", "gather", "ended", "lost"}
Existing == {"created", "running", "stopped", "exited"}

TypeOK ==
    /\ alive \in BOOLEAN
    /\ pc \in [Runs -> Step]
    /\ outcome \in [Runs -> {"none", "completed", "failed", "preempted"}]
    /\ cancel \in SUBSET Runs
    /\ overdue \in SUBSET Runs
    /\ container \in [Runs -> Existing \cup {"none", "removed"}]
    /\ code \in [Runs -> {"none", "zero", "nonzero", "oom"}]
    /\ faults \in [Kinds -> 0..MaxFaults]

Init ==
    /\ alive = TRUE
    /\ pc = [r \in Runs |-> "idle"]
    /\ outcome = [r \in Runs |-> "none"]
    /\ cancel = {}
    /\ overdue = {}
    /\ container = [r \in Runs |-> "none"]
    /\ code = [r \in Runs |-> "none"]
    /\ faults = [kind \in Kinds |-> 0]

Fault(kind) ==
    /\ kind \in FaultKinds
    /\ faults[kind] < MaxFaults
    /\ faults' = [faults EXCEPT ![kind] = @ + 1]

-----------------------------------------------------------------------------
(* run_task *)

run_task(r) ==
    /\ alive
    /\ pc[r] = "idle"
    /\ pc' = [pc EXCEPT ![r] = "start"]
    /\ UNCHANGED <<alive, outcome, cancel, overdue, container, code, faults>>

End(r, how) ==
    /\ pc' = [pc EXCEPT ![r] = "ended"]
    /\ outcome' = [outcome EXCEPT ![r] = how]
    /\ UNCHANGED <<alive, cancel, overdue, code>>

\* kill or stop, then _safe_remove: errors are swallowed, and what the daemon
\* did not do stays undone.
Outage(r) ==
    /\ Fault("docker_error")
    /\ \E left \in {container[r], "removed"} \cup
                    (IF container[r] = "running" THEN {"stopped"} ELSE {}) :
        container' = [container EXCEPT ![r] = left]
_safe_remove(r) ==
    \/ container' = [container EXCEPT ![r] = "removed"] /\ UNCHANGED faults
    \/ Outage(r)

preempted_before_start(r) ==
    /\ pc[r] = "start"
    /\ r \in cancel
    /\ End(r, "preempted")
    /\ UNCHANGED <<container, faults>>

\* Mutant: a restart policy, and with it a state the monitor does not know.
start_RestartPolicy(r) ==
    /\ pc[r] = "start"
    /\ r \notin cancel
    /\ container' = [container EXCEPT ![r] = "restarting"]
    /\ pc' = [pc EXCEPT ![r] = "monitor"]
    /\ UNCHANGED <<alive, outcome, cancel, overdue, code, faults>>

start(r) ==
    /\ pc[r] = "start"
    /\ r \notin cancel
    /\ container' = [container EXCEPT ![r] = "running"]
    /\ pc' = [pc EXCEPT ![r] = "monitor"]
    /\ UNCHANGED <<alive, outcome, cancel, overdue, code, faults>>

\* The daemon answers and refuses: there is no image to pull, or containers.run
\* raises because the container cannot be created or, once created, cannot be
\* started (no such executable): there is no handle to remove it by.
start_refused(r) ==
    /\ pc[r] = "start"
    /\ \E left \in IF r \in cancel THEN {"none"} ELSE {"none", "created"} :
        container' = [container EXCEPT ![r] = left]
    /\ End(r, "failed")
    /\ UNCHANGED faults

\* The daemon is away, or its answer does not come: containers.run raises
\* whatever the daemon has done by then.
start_error(r) ==
    /\ pc[r] = "start"
    /\ Fault("docker_error")
    /\ \E left \in IF r \in cancel THEN {"none"} ELSE {"none", "created", "running"} :
        container' = [container EXCEPT ![r] = left]
    /\ End(r, "failed")

preempted(r) ==
    /\ pc[r] = "monitor"
    /\ r \in cancel
    /\ _safe_remove(r)
    /\ End(r, "preempted")

\* Mutant: the limit is only logged.
timed_out_Ignored(r) ==
    /\ FALSE
    /\ End(r, "failed")
    /\ UNCHANGED <<container, faults>>

timed_out(r) ==
    /\ pc[r] = "monitor"
    /\ r \notin cancel
    /\ r \in overdue
    /\ _safe_remove(r)
    /\ End(r, "failed")

\* reload finds the container gone (NotFound) or its process ended.
exit_seen(r) ==
    /\ pc[r] = "monitor"
    /\ r \notin cancel \cup overdue
    /\ container[r] \in {"removed", "exited"}
    /\ pc' = [pc EXCEPT ![r] = "gather"]
    /\ UNCHANGED <<alive, outcome, cancel, overdue, container, code, faults>>

\* Any other error while monitoring or reading the results.
docker_error(r) ==
    /\ \/ pc[r] = "monitor" /\ r \notin cancel \cup overdue
       \/ pc[r] = "gather"
    /\ Outage(r)
    /\ End(r, "failed")

\* Mutant: OOMKilled is not looked at (the exit code of an OOM kill may be 0
\* when the killed process is not the container's first).
gather_NoOom(r) ==
    /\ pc[r] = "gather"
    /\ container[r] = "exited"
    /\ _safe_remove(r)
    /\ End(r, IF code[r] = "nonzero" THEN "failed" ELSE "completed")

gather(r) ==
    /\ pc[r] = "gather"
    /\ container[r] = "exited"
    /\ _safe_remove(r)
    /\ End(r, IF code[r] = "zero" THEN "completed" ELSE "failed")

\* A container that is gone counts as completed with exit code 0.
vanished(r) ==
    /\ pc[r] = "gather"
    /\ container[r] = "removed"
    /\ End(r, "completed")
    /\ UNCHANGED <<container, faults>>

-----------------------------------------------------------------------------
(* What happens to a run meanwhile *)

\* The preemption listener sets the cancel event.
signal(r) ==
    /\ alive
    /\ pc[r] \in {"start", "monitor"}
    /\ r \notin cancel
    /\ cancel' = cancel \cup {r}
    /\ UNCHANGED <<alive, pc, outcome, overdue, container, code, faults>>

time_passes(r) ==
    /\ pc[r] = "monitor"
    /\ r \notin overdue
    /\ overdue' = overdue \cup {r}
    /\ UNCHANGED <<alive, pc, outcome, cancel, container, code, faults>>

\* The process in the container ends, also without anyone supervising it.
exit(r) ==
    /\ container[r] = "running"
    /\ container' = [container EXCEPT ![r] = "exited"]
    /\ \E c \in {"zero", "nonzero", "oom"} : code' = [code EXCEPT ![r] = c]
    /\ UNCHANGED <<alive, pc, outcome, cancel, overdue, faults>>

removed(r) ==
    /\ container[r] \in Existing
    /\ Fault("removed")
    /\ container' = [container EXCEPT ![r] = "removed"]
    /\ UNCHANGED <<alive, pc, outcome, cancel, overdue, code>>

crash ==
    /\ alive
    /\ Fault("crash")
    /\ alive' = FALSE
    /\ pc' = [r \in Runs |-> IF pc[r] \in {"idle", "ended"} THEN pc[r] ELSE "lost"]
    /\ UNCHANGED <<outcome, cancel, overdue, container, code>>

\* Mutant: only running containers are listed (all=True dropped).
cleanup_orphaned_containers_Running ==
    /\ ~alive
    /\ alive' = TRUE
    /\ \E kept \in SUBSET {r \in Runs : container[r] \in Existing} :
        /\ IF kept = {} THEN UNCHANGED faults ELSE Fault("docker_error")
        /\ container' = [r \in Runs |-> IF container[r] = "running" /\ r \notin kept
                                        THEN "removed" ELSE container[r]]
    /\ UNCHANGED <<pc, outcome, cancel, overdue, code>>

\* Start-up: every container with the label of this worker, in any state.
cleanup_orphaned_containers ==
    /\ ~alive
    /\ alive' = TRUE
    /\ \E kept \in SUBSET {r \in Runs : container[r] \in Existing} :
        /\ IF kept = {} THEN UNCHANGED faults ELSE Fault("docker_error")
        /\ container' = [r \in Runs |-> IF container[r] \in Existing /\ r \notin kept
                                        THEN "removed" ELSE container[r]]
    /\ UNCHANGED <<pc, outcome, cancel, overdue, code>>

-----------------------------------------------------------------------------

Supervise(r) ==
    \/ preempted_before_start(r) \/ start(r) \/ start_refused(r)
    \/ preempted(r) \/ timed_out(r) \/ exit_seen(r) \/ gather(r) \/ vanished(r)

\* Nothing is left to do: every run is over and the worker is up.
Done ==
    /\ alive
    /\ \A r \in Runs : pc[r] \in {"ended", "lost"} /\ container[r] # "running"
    /\ UNCHANGED vars

Next ==
    \/ \E r \in Runs : \/ run_task(r) \/ start_error(r) \/ Supervise(r)
                       \/ docker_error(r) \/ signal(r) \/ time_passes(r)
                       \/ exit(r) \/ removed(r)
    \/ crash
    \/ cleanup_orphaned_containers
    \/ Done

\* The event loop resumes every run_task, and time passes.  Neither the exit
\* of a container nor a restart of the worker is assumed.
Fairness == \A r \in Runs : WF_vars(Supervise(r)) /\ WF_vars(time_passes(r))

Spec == Init /\ [][Next]_vars
FairSpec == Spec /\ Fairness

-----------------------------------------------------------------------------
(* What holds *)

\* As long as the daemon has answered every call, a worker that is up
\* supervises every container of its own that was ever started: none outlives
\* its run_task, however that ended, and none of an earlier process survives
\* start-up.  What may stay on the host until the next start-up is a container
\* that was created and whose start the daemon refused.
NoStaleContainer ==
    (alive /\ faults["docker_error"] = 0) =>
        \A r \in Runs :
            container[r] \in Existing =>
                \/ pc[r] \in {"monitor", "gather"}
                \/ container[r] = "created" /\ pc[r] = "ended" /\ outcome[r] = "failed"

\* A run ends whatever the container, the daemon and the signals do.
RunsEnd == \A r \in Runs : pc[r] = "start" ~> pc[r] \in {"ended", "lost"}

\* run_task returns only if the container's process exited with code 0: no
\* race of exit, timeout, signal and daemon error reports success for another
\* end.  A container somebody else has removed is the exception, see vanished.
CompletedMeansExitZero ==
    \A r \in Runs :
        outcome[r] = "completed" => code[r] = "zero" \/ faults["removed"] > 0
====
