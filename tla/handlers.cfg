SPECIFICATION Spec
CONSTANTS
  None = None
  t1 = t1
  t2 = t2
  t3 = t3
  s1 = s1
  s2 = s2
  Tasks = {t1}
  Workers = {1}
  Sessions = {s1, s2}
  Slots = {1, 2}
  priority <- Equal
  resource_cpu <- One
  max_retries <- One
  cpu_total <- Small
  MaxQueue = 1
  Cancellable = {t1}
  BatchSize = 2
  ReconcileEvery = 1
  DetectorRuns = FALSE
  FaultKinds = {}
  MaxFaults = 0
SYMMETRY SessionSymmetry
INVARIANTS
  CompletedOnlyAfterSuccess
PROPERTIES
  ImplementsLifecycle
