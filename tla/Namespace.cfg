SPECIFICATION Spec
CONSTANTS
  Paths <- MCPaths
  Requests = {r1, r2}
  None = None
  Dir = Dir
SYMMETRY Symmetry
INVARIANTS AckedHolds RefusedIsHarmless 
PROPERTY ReadOnlyIsInert
CHECK_DEADLOCK FALSE
