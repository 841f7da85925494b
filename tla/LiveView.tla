---- MODULE LiveView ----
(***************************************************************************)
(* A dashboard beside a master: the handlers that publish events and       *)
(* commit, the event bus, and in the browser the WebSocket provider, the   *)
(* invalidation of queries (useRealtimeData.ts) and the query cache that   *)
(* polls (QueryProvider.tsx).                                              *)
(*                                                                         *)
(* The database is a version: the number of committed changes.  The view   *)
(* is the version the last applied response was computed from.             *)
(***************************************************************************)
EXTENDS EventBus

CONSTANTS
    None,         \* no connection, no data yet
    MaxChanges,   \* bound on committed changes
    MaxEvents,    \* bound on published events
    FaultKinds,   \* which faults the environment may inject
    MaxFaults     \* bound: how many of them

ASSUME ViewAssumption ==
    /\ MaxChanges \in Nat /\ MaxEvents \in Nat /\ MaxFaults \in Nat
    /\ FaultKinds \subseteq {"db_error", "socket_closed", "fetch_error", "master_restart"}
    /\ None \notin Conns

VARIABLES
    db,        \* committed changes
    open,      \* transactions that have published and not yet committed
    socket,    \* wsRef: the dashboard's connection
    last,      \* lastEvent
    view,      \* the data of the query, None before the first response
    fetch,     \* the query's fetch in flight
    old,       \* what superseded fetches will answer
    faults     \* injected so far

viewVars == <<socket, last, view, fetch, old>>
vars == <<busVars, viewVars, db, open, faults>>

Version == 0..MaxChanges

\* Of a fetch: not under way, sent, or the version the master has answered.
NoFetch == [at |-> "none", version |-> 0]
Sent == [at |-> "sent", version |-> 0]
Answer(v) == [at |-> "answered", version |-> v]

TypeOK ==
    /\ BusTypeOK
    /\ db \in Version
    /\ open \in 0..MaxEvents
    /\ socket \in Conns \cup {None}
    /\ last \in 0..MaxEvents
    /\ view \in Version \cup {None}
    /\ fetch \in [at : {"none", "sent", "answered"}, version : Version]
    /\ old \in SUBSET Version
    /\ faults \in 0..MaxFaults

\* useQuery fetches when it is mounted.
Init ==
    /\ BusInit
    /\ db = 0
    /\ open = 0
    /\ socket = None
    /\ last = 0
    /\ view = None
    /\ fetch = Sent
    /\ old = {}
    /\ faults = 0

Fault(kind) ==
    /\ kind \in FaultKinds
    /\ faults < MaxFaults
    /\ faults' = faults + 1

-----------------------------------------------------------------------------
(* The master's handlers and loops *)

\* They publish inside their transaction.
Publish ==
    /\ published < MaxEvents
    /\ publish
    /\ open' = open + 1
    /\ UNCHANGED <<viewVars, db, faults>>

commit ==
    /\ open > 0
    /\ db < MaxChanges
    /\ open' = open - 1
    /\ db' = db + 1
    /\ UNCHANGED <<busVars, viewVars, faults>>

\* The event stays published.
abort ==
    /\ open > 0
    /\ Fault("db_error")
    /\ open' = open - 1
    /\ UNCHANGED <<busVars, viewVars, db>>

\* A change without an event: the eviction of a victim.
quiet_commit ==
    /\ db < MaxChanges
    /\ db' = db + 1
    /\ UNCHANGED <<busVars, viewVars, open, faults>>

\* Subscribers and open transactions end with the process.
master_restart ==
    /\ Fault("master_restart")
    /\ stage' = [c \in Conns |-> "none"]
    /\ queue' = [c \in Conns |-> <<>>]
    /\ sending' = [c \in Conns |-> 0]
    /\ wire' = [c \in Conns |-> <<>>]
    /\ gone' = {}
    /\ open' = 0
    /\ socket' = None
    /\ fetch' = NoFetch
    /\ old' = {}
    /\ UNCHANGED <<published, db, last, view>>

-----------------------------------------------------------------------------
(* WebSocketProvider *)

\* At the start, and from the timer that onclose sets.  Nothing is fetched
\* when the connection is back.
connect ==
    /\ socket = None
    /\ \E c \in Conns : accept(c) /\ socket' = c
    /\ UNCHANGED <<last, view, fetch, old, db, open, faults>>

onclose ==
    /\ socket # None
    /\ Fault("socket_closed")
    /\ gone' = gone \cup {socket}
    /\ socket' = None
    /\ UNCHANGED <<published, stage, queue, sending, wire, last, view, fetch, old, db, open>>

-----------------------------------------------------------------------------
(* The query cache *)

\* Query.fetch with cancelRefetch: a query that has data drops the fetch in
\* flight and starts another; one that has none stays with the fetch it is in.
refetch ==
    IF view = None /\ fetch # NoFetch
    THEN UNCHANGED <<fetch, old>>
    ELSE /\ fetch' = Sent
         /\ old' = IF fetch.at = "answered" THEN old \cup {fetch.version} ELSE old

\* Every event invalidates the queries it concerns, which refetches them.
Invalidated == refetch

\* Mutant: the state the event tells is put into the cache.
onmessage_SetsData ==
    /\ socket # None
    /\ wire[socket] # <<>>
    /\ last' = Head(wire[socket])
    /\ wire' = [wire EXCEPT ![socket] = Tail(@)]
    /\ view' = IF last' < MaxChanges THEN last' ELSE MaxChanges
    /\ UNCHANGED <<published, stage, queue, sending, gone, socket, fetch, old, db, open, faults>>

onmessage ==
    /\ socket # None
    /\ wire[socket] # <<>>
    /\ last' = Head(wire[socket])
    /\ wire' = [wire EXCEPT ![socket] = Tail(@)]
    /\ Invalidated
    /\ UNCHANGED <<published, stage, queue, sending, gone, socket, view, db, open, faults>>

\* Mutant: events only.
refetchInterval_Never ==
    /\ fetch = NoFetch
    /\ view = None
    /\ fetch' = Sent
    /\ UNCHANGED <<busVars, socket, last, view, old, db, open, faults>>

\* Every 10 s, unless a fetch is in flight.
refetchInterval ==
    /\ fetch = NoFetch
    /\ fetch' = Sent
    /\ UNCHANGED <<busVars, socket, last, view, old, db, open, faults>>

\* The GET reads committed rows.
answer ==
    /\ fetch = Sent
    /\ fetch' = Answer(db)
    /\ UNCHANGED <<busVars, socket, last, view, old, db, open, faults>>

response ==
    /\ fetch.at = "answered"
    /\ view' = fetch.version
    /\ fetch' = NoFetch
    /\ UNCHANGED <<busVars, socket, last, old, db, open, faults>>

\* The promise of a superseded fetch resolves and is ignored.
late_response ==
    \E v \in old :
        /\ old' = old \ {v}
        /\ UNCHANGED <<busVars, socket, last, view, fetch, db, open, faults>>

\* The request fails: it is repeated, or after the second retry given up
\* until the next poll.  The data stays.
fetch_error ==
    /\ fetch # NoFetch
    /\ Fault("fetch_error")
    /\ fetch' \in {Sent, NoFetch}
    /\ UNCHANGED <<busVars, socket, last, view, old, db, open>>

-----------------------------------------------------------------------------

Bus(c) == Connection(c) /\ UNCHANGED <<viewVars, db, open, faults>>

Dashboard == onmessage \/ refetchInterval \/ answer \/ response \/ late_response

Next ==
    \/ Publish \/ commit \/ abort \/ quiet_commit \/ master_restart
    \/ \E c \in Conns : Bus(c)
    \/ connect \/ onclose
    \/ Dashboard \/ fetch_error

\* The event loop of the master runs its handlers; the browser its timers and
\* callbacks, and requests are answered.
Fairness ==
    /\ WF_vars(commit)
    /\ \A c \in Conns : WF_vars(Bus(c))
    /\ WF_vars(connect)
    /\ WF_vars(onmessage)
    /\ WF_vars(refetchInterval)
    /\ WF_vars(answer)
    /\ WF_vars(response)

Spec == Init /\ [][Next]_vars /\ Fairness

-----------------------------------------------------------------------------
(* What holds *)

\* Every committed change reaches the view unless a further event arrives
\* first, although events are published before the commit, dropped by full
\* queues, lost with a connection or never published: polling is enough.  The
\* exception is in the code, and not an effect of MaxEvents: an event that
\* arrives cancels the fetch in flight, and events that keep arriving faster
\* than fetches are answered keep the view from changing for as long as they do.
ViewConverges ==
    \A v \in Version, e \in 0..MaxEvents :
        (db = v /\ last = e) ~> (last # e \/ (view # None /\ view >= v))

\* A response computed from older data does not replace a newer one, however
\* polls, invalidations and answers overtake each other.
ViewNeverGoesBack == [][view # None => view' >= view]_vars

\* What a connection still holds for its client is in the order of
\* publication and newer than what the client has seen, and its queue ends
\* with the newest event: a slow client loses old events, never the last.
StreamEndsWithNewest ==
    \A c \in _subscribers :
        LET pipe == wire[c] \o (IF stage[c] = "send" THEN <<sending[c]>> ELSE <<>>)
                            \o queue[c] IN
        /\ \A i, j \in DOMAIN pipe : i < j => pipe[i] < pipe[j]
        /\ queue[c] # <<>> => Last(queue[c]) = published
        /\ c = socket /\ pipe # <<>> => last < Head(pipe)

\* The queue of a client that has left goes with the next event: the handler
\* finds out when it sends, and does not keep the subscription.
GoneClientsLeave ==
    \A c \in Conns : (c \in gone /\ queue[c] # <<>>) ~> c \notin _subscribers
====
