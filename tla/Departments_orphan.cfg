SPECIFICATION Spec
CONSTANTS
  Ids = {a, b, c}
  Admins = {p, q}
  Dialects = {"postgres"}
  MaxVersion = 2
  Root = Root
  a = a
  b = b
  c = c
  p = p
  q = q
SYMMETRY Alike
INVARIANT
  ParentThere
\* Once an orphan keeps the list from loading and the ids are used up, nothing is left to ask.
CHECK_DEADLOCK FALSE
