SPECIFICATION FairSpec
CONSTANTS
  None = None
  Nodes = {n1, n2}
  FaultKinds = {}
  MaxFaults = 0
PROPERTIES
  SplitBrainHeals
