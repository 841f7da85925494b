---- MODULE FailureDetector ----
(***************************************************************************)
(* failure_detector.py: one pass lists the ACTIVE workers and, in the same *)
(* transaction, declares dead those without a heartbeat key and deals with *)
(* their tasks.  An exception anywhere in the pass rolls all of it back.   *)
(***************************************************************************)
EXTENDS Stores

VARIABLE fd
(* phase      what the pass does next                                      *)
(* todo       listed workers still to be checked                           *)
(* worker     the dead worker being handled                                *)
(* orphans    its tasks still to be handled                                *)
(* old_state  whether the handler's local old_state is bound               *)

FdIdle == [phase |-> "idle", todo |-> {}, worker |-> None, orphans |-> {},
           old_state |-> FALSE]

FdTypeOK ==
    fd \in [phase : {"idle", "check", "orphans"},
            todo : SUBSET Workers,
            worker : Workers \cup {None},
            orphans : SUBSET Tasks,
            old_state : BOOLEAN]

detector == "detector"

_check_all_workers ==
    /\ fd.phase = "idle"
    /\ fd' = [FdIdle EXCEPT !.phase = "check",
                            !.todo = {w \in Workers : workers[w].status = "ACTIVE"}]
    /\ session_workers' = [session_workers EXCEPT ![detector] =
        [w \in Workers |-> IF workers[w].status = "ACTIVE"
                           THEN [old |-> workers[w], new |-> workers[w]] ELSE None]]
    /\ UNCHANGED <<rows, session_tasks, redis>>

is_alive(w) ==
    /\ fd.phase = "check"
    /\ w \in fd.todo
    /\ w \in heartbeats
    /\ fd' = [fd EXCEPT !.todo = @ \ {w}]
    /\ UNCHANGED <<rows, sessions, redis>>

\* The rows the query for the tasks of a dead worker returns.
Orphans(w) ==
    {t \in Tasks : /\ FlushedTask(detector, t).worker = w
                   /\ FlushedTask(detector, t).state \in {"RUNNING", "SCHEDULED"}}

_handle_dead_worker(w) ==
    /\ fd.phase = "check"
    /\ w \in fd.todo
    /\ w \notin heartbeats
    /\ fd' = [fd EXCEPT !.phase = "orphans", !.todo = @ \ {w}, !.worker = w,
                        !.orphans = Orphans(w), !.old_state = FALSE]
    /\ session_workers' =
        WithWorker(detector, w, [WorkerObject(detector, w) EXCEPT !.status = "DEAD"])
    /\ session_tasks' = [session_tasks EXCEPT ![detector] =
        [t \in Tasks |-> IF t \in Orphans(w) /\ @[t] = None
                         THEN [old |-> tasks[t], new |-> tasks[t]] ELSE @[t]]]
    /\ UNCHANGED <<rows, redis>>

-----------------------------------------------------------------------------
(* One orphaned task: requeue it, fail it, or raise *)

Orphan(t) == fd.phase = "orphans" /\ t \in fd.orphans

requeue(t) ==
    LET row == TaskObject(detector, t) IN
    /\ Orphan(t)
    /\ HasRetries(row, t)
    /\ validate_transition(row.state, "PENDING")
    /\ session_tasks' = WithTask(detector, t, Requeued(row))
    /\ queue' = queue \cup {t}
    /\ fd' = [fd EXCEPT !.orphans = @ \ {t}, !.old_state = TRUE]
    /\ UNCHANGED <<rows, session_workers, assignments, preempts, heartbeats>>

\* The event names old_state when retry_count > 0: unbound unless an earlier
\* orphan of this worker was requeued.
EventRaises(row) == row.retry > 0 /\ ~fd.old_state

exhausted(t) ==
    LET row == TaskObject(detector, t) IN
    /\ Orphan(t)
    /\ ~HasRetries(row, t)
    /\ validate_transition(row.state, "FAILED")
    /\ ~EventRaises(row)
    /\ session_tasks' = WithTask(detector, t, [row EXCEPT !.state = "FAILED"])
    /\ fd' = [fd EXCEPT !.orphans = @ \ {t}]
    /\ UNCHANGED <<rows, session_workers, redis>>

Raises(row, t) ==
    IF HasRetries(row, t)
    THEN ~validate_transition(row.state, "PENDING")
    ELSE ~validate_transition(row.state, "FAILED") \/ EventRaises(row)

\* Mutant: the error is caught per task and the pass goes on.
raise_Swallowed(t) ==
    /\ Orphan(t)
    /\ Raises(TaskObject(detector, t), t)
    /\ fd' = [fd EXCEPT !.orphans = @ \ {t}]
    /\ UNCHANGED <<rows, sessions, redis>>

raise(t) ==
    /\ Orphan(t)
    /\ Raises(TaskObject(detector, t), t)
    /\ Rollback(detector)
    /\ fd' = FdIdle
    /\ UNCHANGED redis

-----------------------------------------------------------------------------

handled ==
    /\ fd.phase = "orphans"
    /\ fd.orphans = {}
    /\ fd' = [fd EXCEPT !.phase = "check", !.worker = None]
    /\ UNCHANGED <<rows, sessions, redis>>

fd_commit ==
    /\ fd.phase = "check"
    /\ fd.todo = {}
    /\ Commit(detector)
    /\ fd' = FdIdle
    /\ UNCHANGED redis

\* A database or Redis error during the pass.
fd_abort ==
    /\ fd.phase # "idle"
    /\ Rollback(detector)
    /\ fd' = FdIdle
    /\ UNCHANGED redis
====
