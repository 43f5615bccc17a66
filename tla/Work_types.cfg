SPECIFICATION Spec
CONSTANTS
  Items = {a, b}
  Runs = {r, s}
  Requests = {q,w}
  PutStatuses = {"open", "in_progress"}
  MaxRuns = 2
  MaxEdits = 1
  MaxFaults = 1
  MaxCrashes = 1
  None = None
INVARIANT
  TypeOK
CHECK_DEADLOCK FALSE
