SPECIFICATION FairSpec
CONSTANTS
  Agents = {a}
  Gates = {g}
  Others = {}
  PauseGates = {g}
  Clients = {}
  SubBuffer = 1
  MaxFailures = 1
  MaxDecisions = 1
  MaxInFlight = 1
  Tracked = FALSE
  None = None
INVARIANTS
  LogExact
  ReleaseAfterReview
  ProjectionAgrees
  OutcomeHonest
PROPERTIES
  GateAnswered
  ImplementsOutcome
