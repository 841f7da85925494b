---- MODULE TaskStateMachine ----
(***************************************************************************)
(* The lifecycle of a task: the states of models/enums.py and the          *)
(* transition table of state_machine/transitions.py, which every write of  *)
(* the state column consults.                                              *)
(***************************************************************************)

TaskState == {"PENDING", "SCHEDULED", "RUNNING", "COMPLETED", "FAILED",
              "PREEMPTED", "CANCELLED"}

\* DRAINING and DEREGISTERED exist in the enum; no code path assigns them.
WorkerStatus == {"ACTIVE", "DRAINING", "DEAD", "DEREGISTERED"}

VALID_TRANSITIONS ==
    {<<"PENDING", "SCHEDULED">>,   <<"PENDING", "CANCELLED">>,
     <<"SCHEDULED", "RUNNING">>,   <<"SCHEDULED", "PENDING">>,
     <<"SCHEDULED", "CANCELLED">>,
     <<"RUNNING", "COMPLETED">>,   <<"RUNNING", "FAILED">>,
     <<"RUNNING", "PREEMPTED">>,   <<"RUNNING", "CANCELLED">>,
     <<"FAILED", "PENDING">>,      <<"PREEMPTED", "PENDING">>}

\* Mutant: only a terminal state is refused.
validate_transition_Lenient(current, new) == current \notin {"COMPLETED", "CANCELLED"}

validate_transition(current, new) == <<current, new>> \in VALID_TRANSITIONS

\* The states VALID_TRANSITIONS marks "terminal".
Terminal == {"COMPLETED", "CANCELLED"}
====
