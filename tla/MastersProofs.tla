---- MODULE MastersProofs ----
(***************************************************************************)
(* Proofs about LeaderElection and Masters, for any number of masters and  *)
(* tasks and any bounds: what the election flag and the scheduler lock     *)
(* exclude.                                                                *)
(***************************************************************************)
EXTENDS Masters, TLAPS

-----------------------------------------------------------------------------
(* The election *)

\* A step of one master's campaign, start, shutdown or crash.
ElectionStep(n) ==
    \/ lifespan(n) \/ Campaign(n) \/ campaign_error(n)
    \/ _keepalive_loop(n) \/ resign(n) \/ crash(n)

\* A step that leaves the election alone; the loops share its fault counter.
ElectionStutter ==
    /\ UNCHANGED <<key, pc, is_leader, lease>>
    /\ faults' \in 0..MaxFaults

ElectionInv == TypeOK /\ LeadersHold

\* Counting a fault keeps within the bound.
LEMMA FaultCounts ==
    ASSUME faults \in 0..MaxFaults, NEW kind, Fault(kind) \/ LoopFault(kind)
    PROVE  faults' \in 0..MaxFaults
BY FaultsAssumption DEF Fault, LoopFault

\* Nobody leads at the start.
LEMMA InitElection == Init => ElectionInv
BY FaultsAssumption DEF Init, ElectionInv, TypeOK, LeadersHold, Step

\* The types of the election, master by master.
LEMMA ElectionTypes ==
    ASSUME TypeOK, NEW n \in Nodes, ElectionStep(n)
    PROVE  TypeOK'
<1>f. faults' \in 0..MaxFaults
  <2>1. faults \in 0..MaxFaults
    BY DEF TypeOK
  <2>2. UNCHANGED faults \/ \E kind : Fault(kind)
    BY DEF ElectionStep, lifespan, Campaign, campaign_error, _keepalive_loop, resign,
           crash, _try_acquire_leadership, put, _hold_leadership, _wait_for_leader_loss
  <2>3. QED
    BY <2>1, <2>2, FaultCounts
<1> USE DEF TypeOK, Step
<1>1. CASE lifespan(n) \/ campaign_error(n) \/ _keepalive_loop(n) \/ crash(n)
  BY <1>1, <1>f DEF lifespan, campaign_error, _keepalive_loop, crash
<1>2. CASE resign(n)
  BY <1>2, <1>f DEF resign
<1>3. CASE _try_acquire_leadership(n)
  <2>1. key' \in [node : Nodes, own : BOOLEAN] \cup {None}
    BY <1>3 DEF _try_acquire_leadership, Owns
  <2>2. pc' \in [Nodes -> Step]
    BY <1>3 DEF _try_acquire_leadership
  <2>3. is_leader' \in [Nodes -> BOOLEAN] /\ lease' \in [Nodes -> BOOLEAN]
    BY <1>3 DEF _try_acquire_leadership
  <2>4. QED
    BY <1>f, <2>1, <2>2, <2>3
<1>4. CASE put(n)
  <2>1. key' \in [node : Nodes, own : BOOLEAN]
    BY <1>4 DEF put
  <2>2. pc' \in [Nodes -> Step] /\ is_leader' \in [Nodes -> BOOLEAN]
    BY <1>4 DEF put
  <2>3. QED
    BY <1>4, <1>f, <2>1, <2>2 DEF put
<1>5. CASE _hold_leadership(n) \/ _wait_for_leader_loss(n)
  BY <1>5, <1>f DEF _hold_leadership, _wait_for_leader_loss
<1>6. QED
  BY <1>1, <1>2, <1>3, <1>4, <1>5 DEF ElectionStep, Campaign

\* No step of a campaign leaves the hold loop with the flag set.
LEMMA ElectionHolds ==
    ASSUME ElectionInv, NEW n \in Nodes, ElectionStep(n)
    PROVE  ElectionInv'
<1>1. TypeOK'
  BY ElectionTypes DEF ElectionInv
<1>2. LeadersHold'
  <2> USE DEF ElectionInv, TypeOK, LeadersHold
  <2>1. CASE lifespan(n) \/ campaign_error(n) \/ resign(n) \/ crash(n)
    BY <2>1 DEF lifespan, campaign_error, resign, crash
  <2>2. CASE _keepalive_loop(n)
    BY <2>2 DEF _keepalive_loop
  <2>3. CASE _try_acquire_leadership(n)
    BY <2>3 DEF _try_acquire_leadership
  <2>4. CASE put(n) \/ _hold_leadership(n) \/ _wait_for_leader_loss(n)
    BY <2>4 DEF put, _hold_leadership, _wait_for_leader_loss
  <2>5. QED
    BY <2>1, <2>2, <2>3, <2>4 DEF ElectionStep, Campaign
<1>3. QED
  BY <1>1, <1>2 DEF ElectionInv

\* The key lapses with its lease; the leader flags are untouched.
LEMMA KeyExpiresHolds ==
    ASSUME ElectionInv, key_expires
    PROVE  ElectionInv'
<1>1. faults' \in 0..MaxFaults
  BY FaultCounts DEF ElectionInv, TypeOK, key_expires
<1>2. lease' \in [Nodes -> BOOLEAN]
  BY DEF ElectionInv, TypeOK, key_expires
<1>3. QED
  BY <1>1, <1>2 DEF ElectionInv, TypeOK, LeadersHold, key_expires

\* A step of the loops keeps what holds of the election.
LEMMA StutterHolds ==
    ASSUME ElectionInv, ElectionStutter
    PROVE  ElectionInv'
BY DEF ElectionInv, ElectionStutter, TypeOK, LeadersHold

\* The election by itself: only a master in its hold loop, or one that runs
\* without etcd, has _is_leader set.
THEOREM ElectionCorrect == Spec => []LeadersHold
<1>1. ElectionInv /\ [Next]_vars => ElectionInv'
  <2> SUFFICES ASSUME ElectionInv, [Next]_vars PROVE ElectionInv'
    OBVIOUS
  <2>1. CASE key_expires
    BY <2>1, KeyExpiresHolds
  <2>2. CASE \E n \in Nodes : ElectionStep(n)
    BY <2>2, ElectionHolds
  <2>3. CASE UNCHANGED vars
    BY <2>3 DEF vars, ElectionInv, TypeOK, LeadersHold
  <2>4. QED
    BY <2>1, <2>2, <2>3 DEF Next, ElectionStep
<1>2. ElectionInv => LeadersHold
  BY DEF ElectionInv
<1>3. QED
  BY <1>1, <1>2, InitElection, PTL DEF Spec

-----------------------------------------------------------------------------
(* The loops: types *)

\* The types of what the loops keep, beside TypeOK of the election.
LoopTypes ==
    /\ row \in [Tasks -> {"ABSENT", "PENDING", "SCHEDULED"}]
    /\ queue \in SUBSET Tasks
    /\ lock \in Nodes \cup {None, Orphaned}
    /\ loop \in [Nodes -> LoopStep]
    /\ ticks \in [Nodes -> 0..(ReconcileEvery - 1)]
    /\ found \in [Nodes -> SUBSET Tasks]
    /\ batch \in [Nodes -> SUBSET Tasks]
    /\ placed \in [Nodes -> SUBSET Tasks]
    /\ lapsed \in SUBSET Nodes
    /\ requeues \in 0..MaxRequeues

\* The counter of ticks wraps at the reconciliation, and the loop goes on to
\* reconcile or to the next tick; no other loop moves.
LEMMA TickDoneMoves ==
    ASSUME LoopTypes, NEW n \in Nodes, TickDone(n)
    PROVE  /\ ticks' \in [Nodes -> 0..(ReconcileEvery - 1)]
           /\ loop' \in [Nodes -> LoopStep]
           /\ loop'[n] \in {"read", "idle"}
           /\ \A m \in Nodes \ {n} : loop'[m] = loop[m]
<1>1. ticks[n] \in Nat
  BY LoopAssumption DEF LoopTypes
<1>2. (ticks[n] + 1) % ReconcileEvery \in 0..(ReconcileEvery - 1)
  BY <1>1, LoopAssumption
<1>3. QED
  BY <1>2 DEF TickDone, LoopTypes, LoopStep

\* The end of a process: its loop is off, what it had in memory is gone.
LEMMA LoopEndsMoves ==
    ASSUME LoopTypes, NEW n \in Nodes, LoopEnds(n)
    PROVE  /\ UNCHANGED <<row, queue, requeues>>
           /\ loop' \in [Nodes -> LoopStep]
           /\ ticks' \in [Nodes -> 0..(ReconcileEvery - 1)]
           /\ found' \in [Nodes -> SUBSET Tasks]
           /\ batch' \in [Nodes -> SUBSET Tasks]
           /\ placed' \in [Nodes -> SUBSET Tasks]
           /\ lapsed' \in SUBSET Nodes
           /\ loop'[n] = "off" /\ placed'[n] = {}
           /\ \A m \in Nodes \ {n} : loop'[m] = loop[m] /\ placed'[m] = placed[m]
<1>1. 0 \in 0..(ReconcileEvery - 1)
  BY LoopAssumption
<1>2. ticks' \in [Nodes -> 0..(ReconcileEvery - 1)]
  BY <1>1 DEF LoopEnds, LoopTypes
<1>3. found' \in [Nodes -> SUBSET Tasks] /\ batch' \in [Nodes -> SUBSET Tasks]
  BY DEF LoopEnds, LoopTypes
<1>4. QED
  BY <1>2, <1>3 DEF LoopEnds, BatchEnds, LoopTypes, LoopStep

\* What a step of the loops leaves of the election.
LEMMA LoopStutters ==
    ASSUME TypeOK,
           \/ \E t \in Tasks : submit(t) \/ come_back(t)
           \/ \E n \in Nodes : Loop(n) \/ requeue(n) \/ batch_error(n)
           \/ lock_expires
    PROVE  ElectionStutter
<1>0. faults \in 0..MaxFaults
  BY DEF TypeOK
<1>1. ASSUME NEW n \in Nodes, Loop(n) PROVE ElectionStutter
  BY <1>0, <1>1 DEF Loop, start, _reconcile_pending_tasks, enqueue_missing, _tick, acquire,
        lock_timeout, dequeue_batch, _try_schedule_task, commit, release, vars,
        ElectionStutter
<1>2. ASSUME NEW n \in Nodes, requeue(n) \/ batch_error(n) PROVE ElectionStutter
  BY <1>0, <1>2, FaultCounts DEF requeue, batch_error, ElectionStutter
<1>3. ASSUME NEW t \in Tasks, submit(t) \/ come_back(t) PROVE ElectionStutter
  BY <1>0, <1>3 DEF submit, come_back, vars, ElectionStutter
<1>4. CASE lock_expires
  BY <1>0, <1>4, FaultCounts DEF lock_expires, ElectionStutter
<1>5. QED
  BY <1>1, <1>2, <1>3, <1>4

\* No step of the loops, of the election or of the environment leaves the types.
LEMMA LoopTypesStep ==
    ASSUME TypeOK, LoopTypes, [MastersNext]_allVars
    PROVE  LoopTypes'
<1> USE DEF LoopTypes
<1>1. ASSUME NEW t \in Tasks, submit(t) \/ come_back(t) PROVE LoopTypes'
  BY <1>1, LoopAssumption DEF submit, come_back
<1>2. ASSUME NEW n \in Nodes, Loop(n) PROVE LoopTypes'
  <2>1. CASE start(n) \/ _reconcile_pending_tasks(n) \/ enqueue_missing(n)
    BY <2>1 DEF start, _reconcile_pending_tasks, enqueue_missing, LoopStep
  <2>2. CASE _tick(n) \/ lock_timeout(n)
    BY <2>2, TickDoneMoves DEF _tick, lock_timeout, LoopStep
  <2>3. CASE acquire(n)
    BY <2>3 DEF acquire, LoopStep
  <2>4. CASE dequeue_batch(n)
    <3>1. PICK B \in SUBSET queue : /\ queue' = queue \ B
                                    /\ batch' = [batch EXCEPT ![n] = B]
      BY <2>4 DEF dequeue_batch
    <3>2. QED
      BY <2>4, <3>1 DEF dequeue_batch, LoopStep
  <2>5. ASSUME NEW t \in Tasks, _try_schedule_task(n, t) PROVE LoopTypes'
    <3>1. /\ batch' \in [Nodes -> SUBSET Tasks]
          /\ placed' \in [Nodes -> SUBSET Tasks]
      BY <2>5 DEF _try_schedule_task
    <3>2. QED
      BY <2>5, <3>1 DEF _try_schedule_task
  <2>6. CASE commit(n)
    <3>1. row' \in [Tasks -> {"ABSENT", "PENDING", "SCHEDULED"}]
      BY <2>6 DEF commit
    <3>2. QED
      BY <2>6, <3>1 DEF commit, LoopStep
  <2>7. CASE release(n)
    BY <2>7, TickDoneMoves DEF release, Released, BatchEnds
  <2>8. QED
    BY <1>2, <2>1, <2>2, <2>3, <2>4, <2>5, <2>6, <2>7 DEF Loop
<1>3. ASSUME NEW n \in Nodes, requeue(n) \/ batch_error(n) PROVE LoopTypes'
  BY <1>3 DEF requeue, batch_error, LoopStep
<1>4. ASSUME NEW n \in Nodes, shutdown(n) \/ die(n) PROVE LoopTypes'
  <2>1. lock' \in Nodes \cup {None, Orphaned}
    BY <1>4 DEF shutdown, die, Released
  <2>2. LoopEnds(n)
    BY <1>4 DEF shutdown, die
  <2>3. QED
    BY <2>1, <2>2, LoopEndsMoves
<1>5. CASE lock_expires
  BY <1>5 DEF lock_expires
<1>6. CASE UNCHANGED loopVars
  BY <1>6 DEF loopVars
<1>7. QED
  BY <1>1, <1>2, <1>3, <1>4, <1>5, <1>6 DEF MastersNext, Election, allVars

\* The election goes on as by itself when the loops run beside it.
LEMMA MastersElection ==
    ASSUME ElectionInv, [MastersNext]_allVars
    PROVE  ElectionInv'
<1>1. TypeOK
  BY DEF ElectionInv
<1>2. CASE ElectionStutter
  BY <1>2, StutterHolds
<1>3. CASE \E n \in Nodes : ElectionStep(n)
  BY <1>3, ElectionHolds
<1>4. CASE key_expires
  BY <1>4, KeyExpiresHolds
<1>5. CASE UNCHANGED allVars
  <2>1. ElectionStutter
    BY <1>1, <1>5 DEF allVars, vars, ElectionStutter, TypeOK
  <2>2. QED
    BY <2>1, StutterHolds
<1>6. QED
  BY <1>1, <1>2, <1>3, <1>4, <1>5, LoopStutters
     DEF MastersNext, Election, shutdown, die, ElectionStep

-----------------------------------------------------------------------------
(* The lock *)

\* Only a loop inside its transaction has tasks it is about to place.
PlacedInTransaction == \A n \in Nodes : placed[n] # {} => loop[n] = "place"

LockInv ==
    /\ OneBatchAtATime
    /\ PlacedInTransaction
    /\ LockPreventsDuplicates

\* The end of n's batch (distributed_lock.py: release; or the end of the
\* process): whatever becomes of the lock if n holds it, the other holders
\* keep what they have, and lapsed is cleared only when nobody else is in a
\* batch.
LEMMA BatchEndKeepsLock ==
    ASSUME LoopTypes, LockInv, NEW n \in Nodes,
           BatchEnds(n),
           loop'[n] \notin Locked,
           placed'[n] = {},
           \A m \in Nodes \ {n} : loop'[m] = loop[m] /\ placed'[m] = placed[m],
           lock # n => lock' = lock,
           row' = row
    PROVE  LockInv'
<1>1. ASSUME NEW m \in Nodes, loop'[m] \in Locked, m \notin lapsed' PROVE lock' = m
  <2>1. m # n /\ loop[m] \in Locked
    BY <1>1
  <2>2. lapsed' = lapsed
    BY <2>1 DEF BatchEnds
  <2>3. lock = m
    BY <1>1, <2>1, <2>2 DEF LockInv, OneBatchAtATime
  <2>4. QED
    BY <2>1, <2>3
<1>2. PlacedInTransaction'
  BY DEF PlacedInTransaction, LockInv
<1>3. ASSUME lapsed' = {}, NEW m \in Nodes, NEW t \in placed'[m]
      PROVE  /\ row'[t] = "PENDING"
             /\ \A k \in Nodes \ {m} : t \notin placed'[k]
  <2>1. m # n /\ t \in placed[m]
    BY <1>3
  <2>2. loop[m] \in Locked
    BY <2>1 DEF LockInv, PlacedInTransaction, Locked
  <2>3. lapsed = {}
    BY <1>3, <2>1, <2>2 DEF BatchEnds
  <2>4. QED
    BY <1>3, <2>1, <2>3 DEF LockInv, LockPreventsDuplicates
<1>4. QED
  BY <1>1, <1>2, <1>3 DEF LockInv, OneBatchAtATime, LockPreventsDuplicates

\* Two transactions are open together only if a lock has expired under one.
LEMMA OneTransaction ==
    ASSUME LockInv, lapsed = {}, NEW m \in Nodes, NEW n \in Nodes,
           loop[m] = "place", loop[n] = "place"
    PROVE  m = n
BY DEF LockInv, OneBatchAtATime, Locked

\* Every step of the loops keeps the lock's promise.
LEMMA LoopLock ==
    ASSUME LoopTypes, LockInv, NEW n \in Nodes, Loop(n)
    PROVE  LockInv'
<1>1. CASE start(n) \/ _reconcile_pending_tasks(n) \/ enqueue_missing(n) \/ _tick(n)
           \/ lock_timeout(n)
  <2>1. /\ UNCHANGED <<row, lock, placed, lapsed>>
        /\ loop[n] \notin Locked /\ loop'[n] \notin Locked
        /\ \A m \in Nodes \ {n} : loop'[m] = loop[m]
    BY <1>1, TickDoneMoves DEF LoopTypes, start, _reconcile_pending_tasks,
                    enqueue_missing, _tick, lock_timeout, Locked
  <2>2. QED
    BY <2>1 DEF LockInv, OneBatchAtATime, PlacedInTransaction, LockPreventsDuplicates, Locked
<1>2. CASE acquire(n)
  <2>1. \A m \in Nodes : loop[m] \in Locked => m \in lapsed
    BY <1>2, NodesAssumption DEF acquire, LockInv, OneBatchAtATime
  <2>2. QED
    BY <1>2, <2>1 DEF acquire, LoopTypes, LockInv, OneBatchAtATime, PlacedInTransaction,
                    LockPreventsDuplicates, Locked
<1>3. CASE dequeue_batch(n)
  <2>1. /\ UNCHANGED <<row, lock, placed, lapsed>>
        /\ loop[n] = "locked" /\ loop'[n] \in Locked
        /\ \A m \in Nodes \ {n} : loop'[m] = loop[m]
    BY <1>3 DEF dequeue_batch, LoopTypes, Locked
  <2>2. QED
    BY <2>1 DEF LockInv, OneBatchAtATime, PlacedInTransaction, LockPreventsDuplicates, Locked
<1>4. ASSUME NEW t \in Tasks, _try_schedule_task(n, t) PROVE LockInv'
  <2>1. /\ UNCHANGED <<row, lock, loop, lapsed>>
        /\ loop[n] = "place"
        /\ \A m \in Nodes \ {n} : placed'[m] = placed[m]
        /\ placed'[n] \subseteq placed[n] \cup {t}
        /\ t \in placed'[n] \ placed[n] => row[t] = "PENDING"
    BY <1>4 DEF _try_schedule_task, LoopTypes
  <2>2. OneBatchAtATime' /\ PlacedInTransaction'
    BY <2>1 DEF LockInv, OneBatchAtATime, PlacedInTransaction
  <2>3. ASSUME lapsed = {}, NEW m \in Nodes \ {n} PROVE placed'[m] = {}
    BY <2>1, <2>3, OneTransaction DEF LockInv, PlacedInTransaction
  <2>4. LockPreventsDuplicates'
    BY <2>1, <2>3 DEF LockInv, LockPreventsDuplicates
  <2>5. QED
    BY <2>2, <2>4 DEF LockInv
<1>5. CASE commit(n)
  <2>1. /\ UNCHANGED <<lock, lapsed>>
        /\ loop[n] = "place" /\ loop'[n] = "release"
        /\ placed'[n] = {}
        /\ \A m \in Nodes \ {n} : loop'[m] = loop[m] /\ placed'[m] = placed[m]
        /\ \A t \in Tasks \ placed[n] : row'[t] = row[t]
    BY <1>5 DEF commit, LoopTypes
  <2>2. OneBatchAtATime' /\ PlacedInTransaction'
    BY <2>1 DEF LockInv, OneBatchAtATime, PlacedInTransaction, Locked
  <2>3. ASSUME lapsed = {}, NEW m \in Nodes PROVE placed'[m] = {}
    BY <2>1, <2>3, OneTransaction DEF LockInv, PlacedInTransaction
  <2>4. LockPreventsDuplicates'
    BY <2>1, <2>3 DEF LockPreventsDuplicates
  <2>5. QED
    BY <2>2, <2>4 DEF LockInv
<1>6. CASE release(n)
  <2>1. loop[n] = "release" /\ placed[n] = {}
    BY <1>6 DEF release, LockInv, PlacedInTransaction
  <2>2. /\ loop'[n] \in {"read", "idle"}
        /\ \A m \in Nodes \ {n} : loop'[m] = loop[m]
    BY <1>6, TickDoneMoves DEF release
  <2>3. UNCHANGED <<placed, row>> /\ BatchEnds(n) /\ (lock # n => lock' = lock)
    BY <1>6 DEF release, Released
  <2>4. loop'[n] \notin Locked
    BY <2>2 DEF Locked
  <2>5. QED
    BY <2>1, <2>2, <2>3, <2>4, BatchEndKeepsLock
<1>7. QED
  BY <1>1, <1>2, <1>3, <1>4, <1>5, <1>6 DEF Loop

\* Every step keeps the batches exclusive while no batch outlives its lock.
LEMMA LockStep ==
    ASSUME LoopTypes, LockInv, [MastersNext]_allVars
    PROVE  LockInv'
<1> USE DEF LockInv, OneBatchAtATime, PlacedInTransaction, LockPreventsDuplicates
<1>1. ASSUME NEW t \in Tasks, submit(t) \/ come_back(t) PROVE LockInv'
  <2>1. /\ UNCHANGED <<lock, loop, placed, lapsed>>
        /\ row[t] # "PENDING"
        /\ \A u \in Tasks \ {t} : row'[u] = row[u]
    BY <1>1 DEF submit, come_back, LoopTypes
  <2>2. QED
    BY <2>1 DEF LoopTypes
<1>2. ASSUME NEW n \in Nodes, Loop(n) PROVE LockInv'
  BY <1>2, LoopLock
<1>3. ASSUME NEW n \in Nodes, requeue(n) PROVE LockInv'
  BY <1>3 DEF requeue
<1>4. ASSUME NEW n \in Nodes, batch_error(n) PROVE LockInv'
  <2>1. /\ UNCHANGED <<row, lock, lapsed>>
        /\ loop[n] \in Locked /\ placed'[n] = {}
        /\ \A m \in Nodes \ {n} : loop'[m] = loop[m] /\ placed'[m] = placed[m]
    BY <1>4 DEF batch_error, LoopTypes, Locked
  <2>2. QED
    BY <2>1
<1>5. ASSUME NEW n \in Nodes, shutdown(n) \/ die(n) PROVE LockInv'
  <2>1. LoopEnds(n) /\ (lock # n => lock' = lock)
    BY <1>5 DEF shutdown, die, Released
  <2>2. BatchEnds(n) /\ row' = row
    BY <2>1 DEF LoopEnds
  <2>3. /\ loop'[n] = "off" /\ placed'[n] = {}
        /\ \A m \in Nodes \ {n} : loop'[m] = loop[m] /\ placed'[m] = placed[m]
    BY <2>1, LoopEndsMoves
  <2>4. loop'[n] \notin Locked
    BY <2>3 DEF Locked
  <2>5. QED
    BY <2>1, <2>2, <2>3, <2>4, BatchEndKeepsLock
<1>6. CASE lock_expires
  <2>1. UNCHANGED <<row, loop, placed>> /\ lock # None
    BY <1>6 DEF lock_expires
  <2>2. CASE lock = Orphaned
    BY <1>6, <2>1, <2>2, OrphanedAssumption DEF lock_expires
  <2>3. CASE lock # Orphaned
    BY <1>6, <2>1, <2>3 DEF lock_expires
  <2>4. QED
    BY <2>2, <2>3
<1>7. CASE UNCHANGED loopVars
  BY <1>7 DEF loopVars
<1>8. QED
  BY <1>1, <1>2, <1>3, <1>4, <1>5, <1>6, <1>7 DEF MastersNext, Election, allVars

-----------------------------------------------------------------------------
(* What the masters promise *)

\* The inductive invariant.  The election and the loops are independent parts
\* of it: the lock keeps its promise whoever believes to be the leader.
MInv ==
    /\ ElectionInv
    /\ LoopTypes
    /\ LockInv

\* The invariant of the composition.
LEMMA MastersInvariance == MastersSpec => []MInv
<1>1. MastersInit => MInv
  <2>1. MastersInit => LoopTypes
    BY LoopAssumption DEF MastersInit, LoopTypes, LoopStep
  <2>2. MastersInit => LockInv
    BY DEF MastersInit, LockInv, OneBatchAtATime, PlacedInTransaction,
           LockPreventsDuplicates, Locked
  <2>3. QED
    BY <2>1, <2>2, InitElection DEF MastersInit, MInv
<1>2. MInv /\ [MastersNext]_allVars => MInv'
  <2>1. MInv => TypeOK
    BY DEF MInv, ElectionInv
  <2>2. QED
    BY <2>1, MastersElection, LoopTypesStep, LockStep DEF MInv
<1>3. QED
  BY <1>1, <1>2, PTL DEF MastersSpec

\* Every variable of the masters keeps its type.
THEOREM MastersTypes == MastersSpec => []MastersTypeOK
<1>1. MInv => MastersTypeOK
  BY DEF MInv, ElectionInv, LoopTypes, MastersTypeOK
<1>2. QED
  BY <1>1, MastersInvariance, PTL

\* A master acts as leader only from its hold loop or without etcd, also with
\* the loops and their faults beside the election.
THEOREM LeadersHoldTheKey == MastersSpec => []LeadersHold
<1>1. MInv => LeadersHold
  BY DEF MInv, ElectionInv
<1>2. QED
  BY <1>1, MastersInvariance, PTL

\* At most one batch is under way, that of the lock's holder, however many
\* masters believe to lead; only a batch that outlives its lock's TTL runs
\* beside another.
THEOREM BatchesExclusive == MastersSpec => []OneBatchAtATime
<1>1. MInv => OneBatchAtATime
  BY DEF MInv, LockInv
<1>2. QED
  BY <1>1, MastersInvariance, PTL

\* As long as no batch outlives the lock, no two transactions place one task
\* and none overwrites another's placement.
THEOREM NoDuplicatePlacement == MastersSpec => []LockPreventsDuplicates
<1>1. MInv => LockPreventsDuplicates
  BY DEF MInv, LockInv
<1>2. QED
  BY <1>1, MastersInvariance, PTL

====
