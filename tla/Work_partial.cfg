SPECIFICATION Spec
CONSTANTS
  Items = {a}
  Runs = {r}
  Requests = {q}
  PutStatuses = {"open", "in_progress"}
  MaxRuns = 1
  MaxEdits = 1
  MaxFaults = 0
  MaxCrashes = 0
  None = None
PROPERTIES
  PutIsPartial
\* Nobody has to use the console: the system may stop.
CHECK_DEADLOCK FALSE
