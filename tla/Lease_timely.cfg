SPECIFICATION Spec
CONSTANTS
  Nodes = {n1, n2}
  MaxId = 1
  Lease = 6
  Retry = 1
  Latency = 1
  Timely = TRUE
  MaxTime = 9
  MaxFaults = 2
  None = None
  n1 = n1
  n2 = n2
SYMMETRY Interchangeable
INVARIANTS
  TypeOK
  UniqueAlive
  LeaseHeld
CHECK_DEADLOCK FALSE
