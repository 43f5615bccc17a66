SPECIFICATION Spec
CONSTANTS
  Def <- RoutesDef
  None = None
INVARIANTS
  BodyNeverStuck
