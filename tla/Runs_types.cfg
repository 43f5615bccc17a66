SPECIFICATION Spec
CONSTANTS
  Agents = {a}
  Gates = {g}
  Others = {}
  PauseGates = {g}
  Clients = {}
  SubBuffer = 1
  MaxFailures = 1
  MaxDecisions = 1
  MaxInFlight = 1
  Tracked = FALSE
  None = None
INVARIANT
  TypeOK
