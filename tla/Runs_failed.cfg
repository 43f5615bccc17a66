SPECIFICATION Spec
CONSTANTS
  Agents = {a}
  Gates = {g}
  Others = {}
  PauseGates = {g}
  Clients = {}
  SubBuffer = 2
  MaxFailures = 0
  MaxDecisions = 1
  MaxInFlight = 1
  Tracked = FALSE
  a = a
  g = g
  None = None
INVARIANTS
  FailureFails
