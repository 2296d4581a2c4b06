CONSTANTS
  c1 = c1
  c2 = c2
  a1 = a1
  a2 = a2
  None = None
  Calls = {c1, c2}
  Aliases = {a1, a2}
  MaxVersion = 2
  MaxResolving = 2
SPECIFICATION Spec
SYMMETRY Symmetry
CONSTRAINT OneAtATime
CHECK_DEADLOCK FALSE
PROPERTY RemovedGetsNoUpdates
