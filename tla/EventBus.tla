---- MODULE EventBus ----
(***************************************************************************)
(* master/events.py and master/api/websocket.py: every connection of       *)
(* /ws/events is one handler that takes events from a bounded queue of its *)
(* own and sends them.                                                     *)
(*                                                                         *)
(* An event is the number of its publication; what it says is left out.    *)
(***************************************************************************)
EXTENDS Integers, SequencesExt

CONSTANTS
    Conns,       \* connections the server may hold at once
    MaxSize      \* maxsize of a subscriber's queue (256 in the code)

ASSUME BusAssumption == MaxSize \in Nat \ {0}

VARIABLES
    published,   \* events published so far
    stage,       \* what the handler of each connection does next
    queue,       \* its queue, in _subscribers while the handler iterates
    sending,     \* the event in send_json
    wire,        \* events sent and not yet received by the client
    gone         \* connections whose client has left

busVars == <<published, stage, queue, sending, wire, gone>>

(* none       no such connection     accepted  not subscribed yet           *)
(* get        in queue.get           send      in send_json                 *)
(* finalise   left the loop: the generator's finally is still to run        *)
Stage == {"none", "accepted", "get", "send", "finalise"}

\* The connections whose queue is in _subscribers.
_subscribers == {c \in Conns : stage[c] \in {"get", "send", "finalise"}}

BusTypeOK ==
    /\ published \in Nat
    /\ stage \in [Conns -> Stage]
    /\ queue \in [Conns -> Seq(Nat)]
    /\ \A c \in Conns : Len(queue[c]) <= MaxSize
    /\ sending \in [Conns -> Nat]
    /\ wire \in [Conns -> Seq(Nat)]
    /\ gone \in SUBSET Conns

BusInit ==
    /\ published = 0
    /\ stage = [c \in Conns |-> "none"]
    /\ queue = [c \in Conns |-> <<>>]
    /\ sending = [c \in Conns |-> 0]
    /\ wire = [c \in Conns |-> <<>>]
    /\ gone = {}

-----------------------------------------------------------------------------

\* Mutants: a full queue refuses the new event, or grows.
Put_DropsNewest(q, e) == IF Len(q) < MaxSize THEN Append(q, e) ELSE q
Put_Unbounded(q, e) == Append(q, e)

\* put_nowait; on QueueFull the oldest event makes room.
Put(q, e) == Append(IF Len(q) < MaxSize THEN q ELSE Tail(q), e)

\* No await inside: all subscribers get the event in one step.
publish ==
    /\ published' = published + 1
    /\ queue' = [c \in Conns |-> IF c \in _subscribers THEN Put(queue[c], published')
                                                       ELSE queue[c]]
    /\ UNCHANGED <<stage, sending, wire, gone>>

\* websocket_events up to accept.
accept(c) ==
    /\ stage[c] = "none"
    /\ stage' = [stage EXCEPT ![c] = "accepted"]
    /\ UNCHANGED <<published, queue, sending, wire, gone>>

\* The first step of the generator: a queue of its own.
subscribe(c) ==
    /\ stage[c] = "accepted"
    /\ stage' = [stage EXCEPT ![c] = "get"]
    /\ UNCHANGED <<published, queue, sending, wire, gone>>

get(c) ==
    /\ stage[c] = "get"
    /\ queue[c] # <<>>
    /\ sending' = [sending EXCEPT ![c] = Head(queue[c])]
    /\ queue' = [queue EXCEPT ![c] = Tail(@)]
    /\ stage' = [stage EXCEPT ![c] = "send"]
    /\ UNCHANGED <<published, wire, gone>>

\* Mutant: the handler goes on after a failed send.
send_json_Ignores(c) ==
    /\ stage[c] = "send"
    /\ wire' = IF c \in gone THEN wire ELSE [wire EXCEPT ![c] = Append(@, sending[c])]
    /\ stage' = [stage EXCEPT ![c] = "get"]
    /\ sending' = [sending EXCEPT ![c] = 0]
    /\ UNCHANGED <<published, queue, gone>>

\* A client that has left is noticed here and nowhere else.
send_json(c) ==
    /\ stage[c] = "send"
    /\ IF c \in gone
       THEN /\ stage' = [stage EXCEPT ![c] = "finalise"]
            /\ UNCHANGED wire
       ELSE /\ stage' = [stage EXCEPT ![c] = "get"]
            /\ wire' = [wire EXCEPT ![c] = Append(@, sending[c])]
    /\ sending' = [sending EXCEPT ![c] = 0]
    /\ UNCHANGED <<published, queue, gone>>

\* The event loop closes the abandoned generator, which leaves _subscribers.
finalise(c) ==
    /\ stage[c] = "finalise"
    /\ stage' = [stage EXCEPT ![c] = "none"]
    /\ queue' = [queue EXCEPT ![c] = <<>>]
    /\ wire' = [wire EXCEPT ![c] = <<>>]
    /\ gone' = gone \ {c}
    /\ UNCHANGED <<published, sending>>

Connection(c) == subscribe(c) \/ get(c) \/ send_json(c) \/ finalise(c)
====
