CONSTANTS
  Ident = {a, b}
  None = None
  MaxItems = 5
  MaxDepth = 3
SPECIFICATION Spec
CHECK_DEADLOCK FALSE
INVARIANT ShadowingRespected
