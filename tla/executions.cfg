SPECIFICATION Spec
CONSTANTS
  None = None
  t1 = t1
  t2 = t2
  t3 = t3
  s1 = s1
  s2 = s2
  Tasks = {t1, t2}
  Workers = {1}
  Sessions = {s1}
  Slots = {1, 2}
  priority <- Ranked
  resource_cpu <- Mixed
  max_retries <- Zero
  cpu_total <- Large
  MaxQueue = 1
  Cancellable = {}
  BatchSize = 1
  ReconcileEvery = 1
  DetectorRuns = FALSE
  FaultKinds = {"fetch_error","srem_error"}
  MaxFaults = 1
INVARIANTS
  SignalsReachTheirTask
  OnlyOutrankedAreCancelled
  ReservationsAccounted
