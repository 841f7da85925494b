---- MODULE LeaderElection ----
(***************************************************************************)
(* etcd_client/leader_election.py: the masters' campaign for the election  *)
(* key, with the start and the shutdown of a master (master/lifespan.py).  *)
(*                                                                         *)
(* The etcd client is synchronous, so a master does not interleave with    *)
(* itself between two calls; the other masters do.  A lease lapses when    *)
(* nobody refreshes it in ETCD_LEASE_TTL seconds, which deletes the key    *)
(* written with it.                                                        *)
(***************************************************************************)
EXTENDS Integers

CONSTANTS
    Nodes,        \* the masters
    None,         \* no election key
    FaultKinds,   \* which faults the environment may inject
    MaxFaults     \* bound: how many of them

ASSUME FaultsAssumption ==
    /\ FaultKinds \subseteq {"crash", "shutdown", "stall", "etcd_error", "read_error",
                             "etcd_unavailable"}
    /\ MaxFaults \in Nat

\* No node_id is empty.
ASSUME NodesAssumption == None \notin Nodes

VARIABLES
    key,         \* the election key: its writer, and whether it hangs on the
                 \* lease the writer holds now or on one of an earlier attempt
    pc,          \* where the campaign of each master is
    is_leader,   \* _is_leader, read by the scheduler and the failure detector
    lease,       \* whether _lease is alive in etcd
    faults       \* injected so far

vars == <<key, pc, is_leader, lease, faults>>

(* down  not running            put   found no key, about to write its own  *)
(* try   about to campaign      hold  in _hold_leadership                   *)
(* wait  in _wait_for_leader_loss                                           *)
(* standalone  started without etcd: leader for as long as it runs          *)
Step == {"down", "try", "put", "hold", "wait", "standalone"}

TypeOK ==
    /\ key \in [node : Nodes, own : BOOLEAN] \cup {None}
    /\ pc \in [Nodes -> Step]
    /\ is_leader \in [Nodes -> BOOLEAN]
    /\ lease \in [Nodes -> BOOLEAN]
    /\ faults \in 0..MaxFaults

Init ==
    /\ key = None
    /\ pc = [n \in Nodes |-> "down"]
    /\ is_leader = [n \in Nodes |-> FALSE]
    /\ lease = [n \in Nodes |-> FALSE]
    /\ faults = 0

Fault(kind) ==
    /\ kind \in FaultKinds
    /\ faults < MaxFaults
    /\ faults' = faults + 1

\* n holds the lease the key was written with.
Owns(n) == key # None /\ key.node = n /\ key.own

-----------------------------------------------------------------------------
(* The campaign *)

\* The start of a master: with etcd it campaigns, without it stands alone.
lifespan(n) ==
    /\ pc[n] = "down"
    /\ \/ /\ pc' = [pc EXCEPT ![n] = "try"]
          /\ UNCHANGED <<is_leader, faults>>
       \/ /\ Fault("etcd_unavailable")
          /\ pc' = [pc EXCEPT ![n] = "standalone"]
          /\ is_leader' = [is_leader EXCEPT ![n] = TRUE]
    /\ UNCHANGED <<key, lease>>

\* Any exception of an attempt: not the leader, and after a pause again.
campaign_error(n) ==
    /\ pc[n] \in {"try", "put"}
    /\ Fault("etcd_error")
    /\ pc' = [pc EXCEPT ![n] = "try"]
    /\ is_leader' = [is_leader EXCEPT ![n] = FALSE]
    /\ UNCHANGED <<key, lease>>

\* Grant a lease, then read the key.  A key n wrote in an earlier attempt
\* hangs on the old lease, and makes n a follower like any other key.  A
\* read that fails is taken for an absent key.
_try_acquire_leadership(n) ==
    /\ pc[n] = "try"
    /\ lease' = [lease EXCEPT ![n] = TRUE]
    /\ key' = IF Owns(n) THEN [key EXCEPT !.own = FALSE] ELSE key
    /\ \/ /\ IF key = None THEN UNCHANGED faults ELSE Fault("read_error")
          /\ pc' = [pc EXCEPT ![n] = "put"]
          /\ UNCHANGED is_leader
       \/ /\ key # None
          /\ pc' = [pc EXCEPT ![n] = "wait"]
          /\ is_leader' = [is_leader EXCEPT ![n] = FALSE]
          /\ UNCHANGED faults

\* The key is written whether or not it has appeared since the read.
put(n) ==
    /\ pc[n] = "put"
    /\ key' = [node |-> n, own |-> TRUE]
    /\ is_leader' = [is_leader EXCEPT ![n] = TRUE]
    /\ pc' = [pc EXCEPT ![n] = "hold"]
    /\ UNCHANGED <<lease, faults>>

\* refresh returns, and its answer is not looked at; or it raises: with a
\* fault of etcd, or (the library's choice) because the lease is gone.
_keepalive_loop(n) ==
    /\ pc[n] = "hold"
    /\ is_leader[n]
    /\ \/ UNCHANGED <<is_leader, faults>>
       \/ /\ IF lease[n] THEN Fault("etcd_error") ELSE UNCHANGED faults
          /\ is_leader' = [is_leader EXCEPT ![n] = FALSE]
    /\ UNCHANGED <<key, pc, lease>>

\* Mutant: the loop looks only at _running.
_hold_leadership_Forever(n) ==
    /\ pc[n] = "hold"
    /\ FALSE
    /\ pc' = [pc EXCEPT ![n] = "try"]
    /\ UNCHANGED <<key, is_leader, lease, faults>>

_hold_leadership(n) ==
    /\ pc[n] = "hold"
    /\ ~is_leader[n]
    /\ pc' = [pc EXCEPT ![n] = "try"]
    /\ UNCHANGED <<key, is_leader, lease, faults>>

_wait_for_leader_loss(n) ==
    /\ pc[n] = "wait"
    /\ IF key = None THEN UNCHANGED faults ELSE Fault("read_error")
    /\ pc' = [pc EXCEPT ![n] = "try"]
    /\ UNCHANGED <<key, is_leader, lease>>

-----------------------------------------------------------------------------
(* The end of a master *)

\* Mutants: the key is blanked, not deleted; the flag is not cleared.
resign_Blanks(n) ==
    /\ pc[n] # "down"
    /\ Fault("shutdown")
    /\ key' = [node |-> None, own |-> FALSE]
    /\ pc' = [pc EXCEPT ![n] = "down"]
    /\ is_leader' = [is_leader EXCEPT ![n] = FALSE]
    /\ lease' = [lease EXCEPT ![n] = FALSE]
resign_KeepsFlag(n) ==
    /\ pc[n] # "down"
    /\ Fault("shutdown")
    /\ key' = None
    /\ pc' = [pc EXCEPT ![n] = "down"]
    /\ lease' = [lease EXCEPT ![n] = FALSE]
    /\ UNCHANGED is_leader

\* The shutdown of lifespan: a master that knows etcd deletes the key,
\* whoever wrote it.
resign(n) ==
    /\ pc[n] # "down"
    /\ Fault("shutdown")
    /\ key' = IF pc[n] = "standalone" THEN key ELSE None
    /\ pc' = [pc EXCEPT ![n] = "down"]
    /\ is_leader' = [is_leader EXCEPT ![n] = FALSE]
    /\ lease' = [lease EXCEPT ![n] = FALSE]

crash(n) ==
    /\ pc[n] # "down"
    /\ Fault("crash")
    /\ pc' = [pc EXCEPT ![n] = "down"]
    /\ is_leader' = [is_leader EXCEPT ![n] = FALSE]
    /\ UNCHANGED <<key, lease>>

-----------------------------------------------------------------------------
(* etcd *)

\* Refreshed by the keepalive loop of its owner.
Kept(n) == pc[n] = "hold" /\ is_leader[n]

\* The lease of the key lapses: nobody refreshes it, or its owner is stalled
\* for longer than the TTL.
key_expires ==
    /\ key # None
    /\ IF key.own /\ Kept(key.node) THEN Fault("stall") ELSE UNCHANGED faults
    /\ key' = None
    /\ lease' = IF key.own THEN [lease EXCEPT ![key.node] = FALSE] ELSE lease
    /\ UNCHANGED <<pc, is_leader>>

-----------------------------------------------------------------------------

Campaign(n) ==
    \/ _try_acquire_leadership(n) \/ put(n) \/ _hold_leadership(n)
    \/ _wait_for_leader_loss(n)

Next ==
    \/ key_expires
    \/ \E n \in Nodes : \/ lifespan(n) \/ Campaign(n) \/ campaign_error(n)
                        \/ _keepalive_loop(n) \/ resign(n) \/ crash(n)

\* The campaign runs while its process does, and etcd lets a lease lapse that
\* nobody refreshes.  No fault has to come: a leader that keeps its key may keep
\* it for ever, and no read has to fail.  Masters need not be started; refresh
\* need not raise on a lapsed lease.
Fairness ==
    /\ WF_vars(key_expires /\ UNCHANGED faults)
    /\ \A n \in Nodes : WF_vars(Campaign(n) /\ UNCHANGED faults)

Spec == Init /\ [][Next]_vars
FairSpec == Spec /\ Fairness

-----------------------------------------------------------------------------
(* What holds *)

\* is_leader is cleared on every way out of the hold loop: a master whose
\* campaign is elsewhere, or that is down, does not act as leader.
LeadersHold == \A n \in Nodes : is_leader[n] => pc[n] \in {"hold", "standalone"}

\* As long as some master runs, one becomes leader: the key of a crashed, a
\* deposed or a shut down leader does not block the others for ever.
LeaderEmerges ==
    (\E n \in Nodes : pc[n] # "down")
        ~> \/ \E n \in Nodes : is_leader[n]
           \/ \A n \in Nodes : pc[n] = "down"

-----------------------------------------------------------------------------
(* What the repository says and the code does not do *)

\* Only the elected master runs the loops: two leaders do not stay leaders.
SplitBrainHeals ==
    \A m, n \in Nodes :
        (m # n /\ is_leader[m] /\ is_leader[n]) ~> ~(is_leader[m] /\ is_leader[n])
====
