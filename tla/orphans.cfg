SPECIFICATION FairSpec
CONSTANTS
  None = None
  t1 = t1
  t2 = t2
  t3 = t3
  s1 = s1
  s2 = s2
  Tasks = {t1}
  Workers = {1}
  Sessions = {s1}
  Slots = {1}
  priority <- Equal
  resource_cpu <- One
  max_retries <- One
  cpu_total <- Small
  MaxQueue = 2
  Cancellable = {}
  BatchSize = 2
  ReconcileEvery = 1
  DetectorRuns = TRUE
  FaultKinds = {"worker_stop"}
  MaxFaults = 1
PROPERTIES
  OrphansAreReassigned
