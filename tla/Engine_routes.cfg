SPECIFICATION Spec
CONSTANTS
  Def <- RoutesDef
  None = None
INVARIANTS
  RoutesExact
  FeedbackReachesFixer
  DeadlockGenuine
  BodyRunsOut
