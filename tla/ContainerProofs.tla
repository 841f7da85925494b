---- MODULE ContainerProofs ----
(***************************************************************************)
(* Proofs about ContainerRunner, for any set of executions and any bound   *)
(* on the faults: what run_task promises about its container and about the *)
(* result it returns.                                                      *)
(***************************************************************************)
EXTENDS ContainerRunner, TLAPS

\* A step of one execution: everything but the crash of the worker, its
\* restart and the end.
RunStep(r) ==
    \/ run_task(r) \/ start_error(r) \/ Supervise(r) \/ docker_error(r)
    \/ signal(r) \/ time_passes(r) \/ exit(r) \/ removed(r)

\* Counting a fault keeps the counters in their bounds, and leaves the counter
\* it moves above zero and the others where they were.
LEMMA FaultCounts ==
    ASSUME TypeOK, NEW kind \in Kinds, Fault(kind)
    PROVE  /\ faults' \in [Kinds -> 0..MaxFaults]
           /\ faults'[kind] > 0
           /\ \A k \in Kinds \ {kind} : faults'[k] = faults[k]
BY FaultsAssumption DEF Fault, TypeOK

\* kill, stop and remove (task_runner.py: _safe_remove): the container is gone,
\* unless the daemon has failed; even then the call makes none, runs none, and
\* ends none with an exit code.
LEMMA SafeRemove ==
    ASSUME TypeOK, NEW r \in Runs, Outage(r) \/ _safe_remove(r)
    PROVE  /\ container' \in [Runs -> Existing \cup {"none", "removed"}]
           /\ faults' \in [Kinds -> 0..MaxFaults]
           /\ faults'["removed"] = faults["removed"]
           /\ \A q \in Runs \ {r} : container'[q] = container[q]
           /\ container[r] # "running" => container'[r] # "running"
           /\ \/ faults'["docker_error"] > 0
              \/ container'[r] = "removed" /\ faults' = faults
<1>1. CASE UNCHANGED faults /\ container' = [container EXCEPT ![r] = "removed"]
  BY <1>1 DEF TypeOK, Kinds
<1>2. CASE Outage(r)
  <2>1. "docker_error" \in Kinds /\ "removed" \in Kinds \ {"docker_error"}
    BY DEF Kinds
  <2>2. Fault("docker_error")
    BY <1>2 DEF Outage
  <2>3. PICK left \in Existing \cup {"none", "removed"} :
            /\ container' = [container EXCEPT ![r] = left]
            /\ left = "running" => container[r] = "running"
    BY <1>2 DEF Outage, TypeOK, Existing
  <2>4. QED
    BY <2>1, <2>2, <2>3, FaultCounts DEF TypeOK
<1>3. QED
  BY <1>1, <1>2 DEF _safe_remove

\* The initial state has its types.
LEMMA InitTypeOK == Init => TypeOK
BY FaultsAssumption DEF Init, TypeOK, Kinds, Step, Existing

\* No step of an execution leaves the types.
LEMMA RunTypes ==
    ASSUME TypeOK, NEW r \in Runs, RunStep(r)
    PROVE  TypeOK'
<1> USE DEF TypeOK, Step
<1>1. CASE run_task(r) \/ signal(r) \/ time_passes(r) \/ exit_seen(r)
           \/ preempted_before_start(r) \/ vanished(r)
  BY <1>1 DEF run_task, signal, time_passes, exit_seen, preempted_before_start, vanished, End
<1>2. CASE start(r) \/ exit(r) \/ start_refused(r)
  BY <1>2 DEF start, exit, start_refused, End, Existing
<1>3. CASE preempted(r) \/ timed_out(r) \/ gather(r) \/ docker_error(r)
  BY <1>3, SafeRemove DEF preempted, timed_out, gather, docker_error, End
<1>4. CASE start_error(r)
  <2>1. Fault("docker_error")
    BY <1>4 DEF start_error
  <2>2. faults' \in [Kinds -> 0..MaxFaults]
    BY <2>1, FaultCounts DEF Kinds
  <2>3. container' \in [Runs -> Existing \cup {"none", "removed"}]
    BY <1>4 DEF start_error, Existing
  <2>4. QED
    BY <1>4, <2>2, <2>3 DEF start_error, End
<1>5. CASE removed(r)
  <2>1. faults' \in [Kinds -> 0..MaxFaults]
    BY <1>5, FaultCounts DEF removed, Kinds
  <2>2. QED
    BY <1>5, <2>1 DEF removed
<1>6. QED
  BY <1>1, <1>2, <1>3, <1>4, <1>5 DEF RunStep, Supervise

\* Start-up (task_runner.py: cleanup_orphaned_containers) removes every
\* container that exists, or has met a failing daemon; it starts none.
LEMMA CleanupRemoves ==
    ASSUME TypeOK, cleanup_orphaned_containers
    PROVE  /\ container' \in [Runs -> Existing \cup {"none", "removed"}]
           /\ faults' \in [Kinds -> 0..MaxFaults]
           /\ faults'["removed"] = faults["removed"]
           /\ \A r \in Runs : container'[r] \in {container[r], "removed"}
           /\ \/ faults'["docker_error"] > 0
              \/ \A r \in Runs : container'[r] \notin Existing
<1>1. PICK kept \in SUBSET {r \in Runs : container[r] \in Existing} :
        /\ IF kept = {} THEN UNCHANGED faults ELSE Fault("docker_error")
        /\ container' = [r \in Runs |-> IF container[r] \in Existing /\ r \notin kept
                                        THEN "removed" ELSE container[r]]
  BY DEF cleanup_orphaned_containers
<1>2. /\ container' \in [Runs -> Existing \cup {"none", "removed"}]
      /\ \A r \in Runs : container'[r] \in {container[r], "removed"}
  BY <1>1 DEF TypeOK
<1>3. CASE kept = {}
  BY <1>1, <1>2, <1>3 DEF TypeOK, Existing
<1>4. CASE kept # {}
  BY <1>1, <1>2, <1>4, FaultCounts DEF Kinds
<1>5. QED
  BY <1>3, <1>4

\* No step of the worker or of the daemon leaves the types.
LEMMA TypeStep == TypeOK /\ [Next]_vars => TypeOK'
<1> SUFFICES ASSUME TypeOK, [Next]_vars PROVE TypeOK'
  OBVIOUS
<1>1. CASE \E r \in Runs : RunStep(r)
  BY <1>1, RunTypes
<1>2. CASE crash
  <2>1. faults' \in [Kinds -> 0..MaxFaults]
    BY <1>2, FaultCounts DEF crash, Kinds
  <2>2. QED
    BY <1>2, <2>1 DEF crash, TypeOK, Step
<1>3. CASE cleanup_orphaned_containers
  BY <1>3, CleanupRemoves DEF cleanup_orphaned_containers, TypeOK
<1>4. CASE UNCHANGED vars
  BY <1>4 DEF vars, TypeOK
<1>5. QED
  BY <1>1, <1>2, <1>3, <1>4 DEF Next, Done, RunStep

\* Every variable of the runner keeps its type, whatever the daemon does.
THEOREM ContainerTypes == Spec => []TypeOK
<1>1. QED
  BY InitTypeOK, TypeStep, PTL DEF Spec

-----------------------------------------------------------------------------
(* No container outlives its run_task *)

\* NoStaleContainer is inductive with the types alone.
LEMMA StaleStep == TypeOK /\ NoStaleContainer /\ [Next]_vars => NoStaleContainer'
<1> DEFINE Covered(r) ==
        \/ pc[r] \in {"monitor", "gather"}
        \/ container[r] = "created" /\ pc[r] = "ended" /\ outcome[r] = "failed"
<1> SUFFICES ASSUME TypeOK, NoStaleContainer, [Next]_vars,
                    alive', faults'["docker_error"] = 0, NEW q \in Runs,
                    container'[q] \in Existing
             PROVE  Covered(q)'
  BY DEF NoStaleContainer
<1>0. faults["docker_error"] \in Nat /\ "docker_error" \in Kinds
  BY FaultsAssumption DEF TypeOK, Kinds
<1>1. ASSUME NEW r \in Runs, RunStep(r) PROVE Covered(q)'
  <2> USE DEF NoStaleContainer, TypeOK
  <2>1. CASE run_task(r) \/ signal(r) \/ time_passes(r) \/ exit_seen(r)
             \/ preempted_before_start(r) \/ vanished(r)
    BY <2>1 DEF run_task, signal, time_passes, exit_seen, preempted_before_start,
                vanished, End, Existing
  <2>2. CASE start(r) \/ exit(r)
    BY <2>2 DEF start, exit, Existing
  <2>7. CASE start_refused(r)
    <3>1. PICK left \in {"none", "created"} : container' = [container EXCEPT ![r] = left]
      BY <2>7 DEF start_refused
    <3>2. CASE q = r
      BY <2>7, <3>1, <3>2 DEF start_refused, End, Existing
    <3>3. CASE q # r
      BY <2>7, <3>1, <3>3 DEF start_refused, End
    <3>4. QED
      BY <3>2, <3>3
  <2>3. CASE preempted(r) \/ timed_out(r) \/ gather(r) \/ docker_error(r)
    <3>1. /\ container'[r] = "removed"
          /\ faults' = faults
          /\ q # r => container'[q] = container[q]
      BY <2>3, SafeRemove DEF preempted, timed_out, gather, docker_error
    <3>2. q # r
      BY <3>1 DEF Existing
    <3>3. QED
      BY <2>3, <3>1, <3>2 DEF preempted, timed_out, gather, docker_error, End
  <2>4. CASE start_error(r)
    BY <2>4, <1>0, FaultCounts DEF start_error
  <2>5. CASE removed(r)
    <3>1. faults'["docker_error"] = faults["docker_error"]
      BY <2>5, FaultCounts DEF removed, Kinds
    <3>2. QED
      BY <2>5, <3>1 DEF removed, Existing
  <2>6. QED
    BY <1>1, <2>1, <2>2, <2>3, <2>4, <2>5, <2>7 DEF RunStep, Supervise
<1>2. CASE crash
  BY <1>2 DEF crash
<1>3. CASE cleanup_orphaned_containers
  BY <1>3, CleanupRemoves
<1>4. CASE UNCHANGED vars
  BY <1>4 DEF vars, NoStaleContainer
<1>5. QED
  BY <1>1, <1>2, <1>3, <1>4 DEF Next, Done, RunStep

\* As long as the daemon has answered every call, every container on the host
\* of a worker that is up is supervised by a run_task, or was created and refused
\* to start: however the runs end, refused starts included, and over any
\* number of crashes and restarts.
THEOREM NoContainerOutlivesItsRun == Spec => []NoStaleContainer
<1>1. Init => NoStaleContainer
  BY DEF Init, NoStaleContainer, Existing
<1>2. QED
  BY <1>1, StaleStep, ContainerTypes, PTL DEF Spec

-----------------------------------------------------------------------------
(* Completed means exit code 0 *)

\* run_task is under way only in a process that lives: a crash ends them all.
RunningMeansAlive ==
    \A r \in Runs : pc[r] \in {"start", "monitor", "gather"} => alive

\* While run_task monitors its container or reads its result, only somebody
\* else can have removed it: nobody cleans up below a live process.
RemovedByOthers ==
    \A r \in Runs :
        pc[r] \in {"monitor", "gather"} /\ container[r] = "removed" => faults["removed"] > 0

\* A run that returned is over, and so is its container's process: the exit
\* code it was judged by is final.
CompletedIsFinal ==
    \A r \in Runs :
        outcome[r] = "completed" => pc[r] = "ended" /\ container[r] # "running"

CInv ==
    /\ TypeOK
    /\ RunningMeansAlive
    /\ RemovedByOthers
    /\ CompletedIsFinal
    /\ CompletedMeansExitZero

\* The invariant holds before the first run.
LEMMA InitCInv == Init => CInv
BY InitTypeOK DEF Init, CInv, RunningMeansAlive, RemovedByOthers, CompletedIsFinal,
                  CompletedMeansExitZero

\* Every step keeps the invariant.
LEMMA CInvStep == CInv /\ [Next]_vars => CInv'
<1> SUFFICES ASSUME CInv, [Next]_vars PROVE CInv'
  OBVIOUS
<1>t. TypeOK /\ TypeOK'
  BY TypeStep DEF CInv
<1> DEFINE Rest == /\ RunningMeansAlive
                   /\ RemovedByOthers
                   /\ CompletedIsFinal
                   /\ CompletedMeansExitZero
<1>r. Rest
  BY DEF CInv
<1>0. /\ faults["removed"] \in Nat
      /\ {"docker_error", "removed", "crash"} = Kinds
  BY <1>t, FaultsAssumption DEF TypeOK, Kinds
<1>1. ASSUME NEW r \in Runs, RunStep(r) PROVE Rest'
  <2> USE <1>t, <1>r DEF TypeOK, RunningMeansAlive, RemovedByOthers, CompletedIsFinal,
                    CompletedMeansExitZero
  <2>1. CASE run_task(r) \/ signal(r) \/ time_passes(r) \/ exit_seen(r)
             \/ preempted_before_start(r) \/ vanished(r)
    BY <2>1 DEF run_task, signal, time_passes, exit_seen, preempted_before_start,
                vanished, End
  <2>2. CASE start(r) \/ exit(r) \/ start_refused(r)
    BY <2>2 DEF start, exit, start_refused, End
  <2>3. CASE preempted(r) \/ timed_out(r) \/ gather(r) \/ docker_error(r)
    <3>1. /\ faults'["removed"] = faults["removed"]
          /\ \A q \in Runs \ {r} : container'[q] = container[q]
          /\ container[r] # "running" => container'[r] # "running"
      BY <2>3, SafeRemove DEF preempted, timed_out, gather, docker_error
    <3>2. /\ alive' = alive
          /\ code' = code
          /\ pc' = [pc EXCEPT ![r] = "ended"]
          /\ \E how \in {"completed", "failed", "preempted"} :
                /\ outcome' = [outcome EXCEPT ![r] = how]
                /\ how = "completed" => container[r] = "exited" /\ code[r] = "zero"
      BY <2>3 DEF preempted, timed_out, gather, docker_error, End
    <3>3. QED
      BY <3>1, <3>2
  <2>4. CASE start_error(r)
    <3>1. faults'["removed"] = faults["removed"]
      BY <2>4, <1>0, FaultCounts DEF start_error
    <3>2. QED
      BY <2>4, <3>1 DEF start_error, End
  <2>5. CASE removed(r)
    <3>1. faults'["removed"] > 0
      BY <2>5, <1>0, FaultCounts DEF removed
    <3>2. QED
      BY <2>5, <3>1 DEF removed
  <2>6. QED
    BY <1>1, <2>1, <2>2, <2>3, <2>4, <2>5 DEF RunStep, Supervise
<1>2. ASSUME crash PROVE Rest'
  <2>1. faults'["removed"] = faults["removed"]
    BY <1>2, <1>t, <1>0, FaultCounts DEF crash
  <2>2. QED
    BY <1>2, <1>t, <1>r, <2>1 DEF crash, TypeOK, RunningMeansAlive, RemovedByOthers,
                       CompletedIsFinal, CompletedMeansExitZero
<1>3. ASSUME cleanup_orphaned_containers PROVE Rest'
  <2>1. /\ faults'["removed"] = faults["removed"]
        /\ \A r \in Runs : container'[r] \in {container[r], "removed"}
    BY <1>3, <1>t, CleanupRemoves
  <2>2. /\ ~alive
        /\ UNCHANGED <<pc, outcome, code>>
    BY <1>3 DEF cleanup_orphaned_containers
  <2>3. QED
    BY <1>r, <2>1, <2>2 DEF RunningMeansAlive, RemovedByOthers, CompletedIsFinal,
                            CompletedMeansExitZero
<1>4. ASSUME UNCHANGED vars PROVE Rest'
  BY <1>4, <1>r DEF vars, RunningMeansAlive, RemovedByOthers, CompletedIsFinal,
                  CompletedMeansExitZero
<1>5. Rest'
  BY <1>1, <1>2, <1>3, <1>4 DEF Next, Done, RunStep
<1>6. QED
  BY <1>5, <1>t DEF CInv

\* run_task returns only if its container's process exited with code 0, or
\* somebody else has removed a container: no order of exit, timeout, signal,
\* daemon error, crash and start-up makes a failed run a completed one.
THEOREM CompletedExitsZero == Spec => []CompletedMeansExitZero
<1>1. CInv => CompletedMeansExitZero
  BY DEF CInv
<1>2. QED
  BY <1>1, InitCInv, CInvStep, PTL DEF Spec

====
