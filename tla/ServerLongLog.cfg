CONSTANTS
  TailLen = 4
  Shape <- MCShape
  Conns = {c1, c2}
  Workers = 1
  MaxRuns = 3
  MaxPanics = 1
SPECIFICATION Spec
INVARIANTS LogReadsAsRuns
CHECK_DEADLOCK FALSE
