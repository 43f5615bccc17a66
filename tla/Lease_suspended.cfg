SPECIFICATION Spec
CONSTANTS
  Nodes = {n1, n2}
  MaxId = 1
  Lease = 3
  Retry = 1
  Latency = 0
  Timely = FALSE
  MaxTime = 6
  MaxFaults = 2
  None = None
  n1 = n1
  n2 = n2
INVARIANTS
  UniqueAlive
CHECK_DEADLOCK FALSE
