SPECIFICATION Spec
CONSTANTS
  Conns = {c1, c2}
  Handlers = {h1}
  MaxOps = 1
  MaxEvents = 1
  MaxRestarts = 0
  MaxFaults = 0
  None = None
  c1 = c1
  c2 = c2
  h1 = h1
  h2 = h2
INVARIANTS
  EventsLogged
