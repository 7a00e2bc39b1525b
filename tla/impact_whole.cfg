SPECIFICATION Spec
CONSTANTS
  a = a
  b = b
  c = c
  d = d
  e = e
  Nodes = {a, b, c, d, e}
  Edges <- Fan
  MaxDepth = 2
  MaxNodes = 5
  MaxPaths = 3
  Workers = {w1}
  NoWorker = none
  Roots = {a}
  Required = 0
  MaxCalls = 2
  MaxFaults = 0
CHECK_DEADLOCK FALSE
INVARIANTS
  CompleteIsWhole
