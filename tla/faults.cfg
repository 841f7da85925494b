SPECIFICATION Spec
CONSTANTS
  None = None
  t1 = t1
  t2 = t2
  t3 = t3
  s1 = s1
  s2 = s2
  Tasks = {t1}
  Workers = {1}
  Sessions = {s1, s2}
  Slots = {1}
  priority <- Equal
  resource_cpu <- One
  max_retries <- One
  cpu_total <- Small
  MaxQueue = 1
  Cancellable = {}
  BatchSize = 2
  ReconcileEvery = 1
  DetectorRuns = TRUE
  FaultKinds = {"request_lost", "timeout", "register_timeout", "master_crash", "db_error", "heartbeat_late", "fetch_error", "heartbeat_post", "sadd_error"}
  MaxFaults = 1
SYMMETRY SessionSymmetry
INVARIANTS
  TypeOK
  RetriesBounded
PROPERTIES
  DeathIsCommittedWithItsTasks
  FreshCommitsKeepTheBooks
