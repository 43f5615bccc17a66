SPECIFICATION Spec
CONSTANTS
  Def <- DiamondDef
  None = None
INVARIANTS
  JoinProceeds
