SPECIFICATION FairSpec
CONSTANTS
  Def <- AgileDef
  None = None
INVARIANTS
  TypeOK
  InFlightExact
  StartedJustified
  JoinSound
  SpawnsBounded
PROPERTIES
  SchedulerSettles
  TerminalStable
