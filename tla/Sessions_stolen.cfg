SPECIFICATION Spec
CONSTANTS
  Runs = {r}
  Chats = {k}
  IdleTimed = {}
  Capped = {}
  Validated = {}
  MaxCalls = 1
  MaxSessions = 2
  MaxActivity = 0
  EventBuf = 6
  Mortal = FALSE
  Workspace <- OwnWorkspaces
  None = None
INVARIANT
  ReportKept
