SPECIFICATION RestartingSpec
CONSTANTS
  None = None
  t1 = t1
  t2 = t2
  t3 = t3
  s1 = s1
  s2 = s2
  Tasks = {t1, t2}
  Workers = {1}
  Sessions = {s1}
  Slots = {1}
  priority <- Ranked
  resource_cpu <- One
  max_retries <- LowRetries
  cpu_total <- Small
  MaxQueue = 1
  Cancellable = {}
  BatchSize = 2
  ReconcileEvery = 1
  DetectorRuns = FALSE
  FaultKinds = {"master_crash", "db_error", "request_lost", "worker_stop", "timeout", "register_timeout"}
  MaxFaults = 1
PROPERTIES
  EveryTaskFinishes
  PendingReturnsToQueue
