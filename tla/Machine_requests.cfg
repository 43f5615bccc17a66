SPECIFICATION Spec
CONSTANTS
  Conns = {c1, c2}
  Handlers = {h1, h2}
  MaxOps = 4
  MaxEvents = 1
  MaxRestarts = 1
  MaxFaults = 1
  None = None
  c1 = c1
  c2 = c2
  h1 = h1
  h2 = h2
INVARIANTS
  NewestSurvives
  RotationHolds
  CancelHolds
