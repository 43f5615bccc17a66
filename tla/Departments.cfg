SPECIFICATION Spec
CONSTANTS
  Ids = {a, b, c}
  Admins = {p, q}
  Dialects = {"sqlite", "postgres"}
  MaxVersion = 2
  Root = Root
  a = a
  b = b
  c = c
  p = p
  q = q
SYMMETRY Alike
INVARIANTS
  SerialExact
PROPERTY
  NoOverwrite
\* Once an orphan keeps the list from loading and the ids are used up, nothing is left to ask.
CHECK_DEADLOCK FALSE
