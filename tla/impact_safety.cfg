SPECIFICATION FairSpec
CONSTANTS
  a = a
  b = b
  c = c
  d = d
  e = e
  Nodes = {a, b, c, d, e}
  Edges <- Hub
  MaxDepth = 1
  MaxNodes = 2
  MaxPaths = 3
  Workers = {w1, w2}
  NoWorker = none
  Roots = {a, b, c}
  Required = 1
  MaxCalls = 4
  MaxFaults = 1
CHECK_DEADLOCK FALSE
INVARIANTS
  TypeOK
  FrontierBelongs
  OnlyReachable
  EndedAsProjected
PROPERTIES
  LostLeaseIsLost
  CancellationIsHonoured
