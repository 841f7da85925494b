---- MODULE TaskLifecycle ----
(***************************************************************************)
(* What the master promises of the state of a task, as a client that polls *)
(* it may rely on: the abstract specification that Cluster implements.     *)
(*                                                                         *)
(* A transaction reads states, and when it ends it takes some of the tasks *)
(* it has read one legal move on, from the state it READ.  The promise is  *)
(* not that a state follows from the one before: a transaction that read   *)
(* RUNNING may overwrite what another one made of the task meanwhile,      *)
(* CANCELLED and COMPLETED included.                                       *)
(***************************************************************************)
EXTENDS TaskStateMachine

CONSTANTS
    Tasks,     \* task ids
    Actors,    \* what may hold a transaction open
    None       \* not read

VARIABLES
    state,     \* the state of each task, ABSENT before its creation
    reading,   \* per actor and task: the state its transaction has read
    done       \* the tasks some execution has ended well

vars == <<state, reading, done>>

NoReads == [t \in Tasks |-> None]

Init ==
    /\ state = [t \in Tasks |-> "ABSENT"]
    /\ reading = [a \in Actors |-> NoReads]
    /\ done = {}

\* Creation; the table; and the moves that pass through FAILED or PREEMPTED
\* inside one transaction: a retry, and a victim that is placed again by the
\* batch that evicted it.
Moves ==
    VALID_TRANSITIONS \cup
    {<<"ABSENT", "PENDING">>, <<"RUNNING", "PENDING">>, <<"RUNNING", "SCHEDULED">>}

\* A transaction reads a state once and keeps it.
Read(a) ==
    /\ UNCHANGED <<state, done>>
    /\ \E T \in SUBSET {t \in Tasks : reading[a][t] = None} :
        reading' = [reading EXCEPT ![a] =
                        [t \in Tasks |-> IF t \in T THEN state[t] ELSE @[t]]]

\* What a transaction of a may leave of t.
Outcomes(a, t) ==
    {state[t]} \cup
    {s \in TaskState : /\ reading[a][t] # None
                       /\ <<reading[a][t], s>> \in Moves
                       /\ s = "COMPLETED" => t \in done}

Write(a) ==
    /\ UNCHANGED done
    /\ reading' = [reading EXCEPT ![a] = NoReads]
    /\ state' \in [Tasks -> TaskState \cup {"ABSENT"}]
    /\ \A t \in Tasks : state'[t] \in Outcomes(a, t)

\* The process that holds the transactions ends, and they with it.
Restart ==
    /\ UNCHANGED <<state, done>>
    /\ reading' = [a \in Actors |-> NoReads]

Succeed(t) ==
    /\ UNCHANGED <<state, reading>>
    /\ state[t] # "ABSENT"
    /\ done' = done \cup {t}

Next ==
    \/ \E a \in Actors : Read(a) \/ Write(a)
    \/ Restart
    \/ \E t \in Tasks : Succeed(t)

Spec == Init /\ [][Next]_vars
====
