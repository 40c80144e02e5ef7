SPECIFICATION Spec
CONSTANTS
  Requests = {r1, r2, r3}
  Threshold = 2
  MaxGen = 3
  NoRequest = NoRequest
SYMMETRY RequestSymmetry
INVARIANT HalfOpenHasProbe
CHECK_DEADLOCK FALSE
