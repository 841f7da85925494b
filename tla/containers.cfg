SPECIFICATION FairSpec
CONSTANTS
  Runs = {r1, r2}
  FaultKinds = {"docker_error", "removed", "crash"}
  MaxFaults = 1
INVARIANTS
  TypeOK
  NoStaleContainer
  CompletedMeansExitZero
PROPERTIES
  RunsEnd
