SPECIFICATION Spec
CONSTANTS
  Commands = {c1}
  Bound = {}
INVARIANT BackgroundHoldsDirectory
CHECK_DEADLOCK FALSE
