SPECIFICATION FairSpec
CONSTANTS
  Items = {a, b}
  Runs = {r, s}
  Requests = {q,w}
  PutStatuses = {"open", "in_progress"}
  MaxRuns = 2
  MaxEdits = 1
  MaxFaults = 1
  MaxCrashes = 1
  None = None
INVARIANTS
  FullEarned
  NeverStuck
PROPERTIES
  ExecutionEnds
\* Nobody has to use the console: the system may stop.
CHECK_DEADLOCK FALSE
