SPECIFICATION Spec
CONSTANTS
  Agents = {a}
  Gates = {}
  Others = {o}
  PauseGates = {}
  Clients = {c}
  SubBuffer = 1
  MaxFailures = 0
  MaxDecisions = 1
  MaxInFlight = 1
  Tracked = TRUE
  None = None
INVARIANTS
  SubscriberSees
  RelayExact
