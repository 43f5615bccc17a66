SPECIFICATION Spec
CONSTANTS
  Runs = {r}
  Chats = {k}
  IdleTimed = {r}
  Capped = {r}
  Validated = {r}
  MaxCalls = 2
  MaxSessions = 2
  MaxActivity = 1
  EventBuf = 2
  Mortal = TRUE
  Workspace <- OneWorkspace
  None = None
INVARIANT
  TypeOK
CHECK_DEADLOCK FALSE
