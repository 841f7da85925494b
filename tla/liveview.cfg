SPECIFICATION Spec
CONSTANTS
  None = None
  Conns = {c1, c2}
  MaxSize = 2
  MaxChanges = 2
  MaxEvents = 3
  FaultKinds = {"db_error", "socket_closed", "fetch_error", "master_restart"}
  MaxFaults = 1
INVARIANTS
  TypeOK
  StreamEndsWithNewest
PROPERTIES
  ViewConverges
  ViewNeverGoesBack
  GoneClientsLeave
