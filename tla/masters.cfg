SPECIFICATION MastersSpec
CONSTANTS
  None = None
  Nodes = {n1, n2}
  Tasks = {t1}
  BatchSize = 1
  ReconcileEvery = 1
  MaxRequeues = 1
  FaultKinds = {"crash", "shutdown", "stall", "etcd_error", "read_error", "etcd_unavailable"}
  LoopFaultKinds = {"db_error", "no_workers", "lock_expired"}
  MaxFaults = 2
INVARIANTS
  MastersTypeOK
  LeadersHold
  OneBatchAtATime
  LockPreventsDuplicates
PROPERTIES
  LeaderEmerges
  PendingIsPlaced
