SPECIFICATION Spec
CONSTANTS
  r1 = r1
  r2 = r2
  Runs = {r1}
  Workers = {w1}
  Items = {i}
  Mode <- Deltas
  Boundary <- Same
  Versions = {v1}
  Pages <- OnePage
  BatchLimit = 1
  MaxOutside = 0
INVARIANTS
  DeliveredRunsSucceed
