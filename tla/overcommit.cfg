SPECIFICATION Spec
CONSTANTS
  None = None
  t1 = t1
  t2 = t2
  t3 = t3
  s1 = s1
  s2 = s2
  Tasks = {t1, t2, t3}
  Workers = {1}
  Sessions = {s1}
  Slots = {1}
  priority <- Ranked
  resource_cpu <- Mixed
  max_retries <- Zero
  cpu_total <- Large
  MaxQueue = 1
  Cancellable = {}
  BatchSize = 2
  ReconcileEvery = 3
  DetectorRuns = FALSE
  FaultKinds = {}
  MaxFaults = 0
INVARIANTS
  NeverOvercommitted
