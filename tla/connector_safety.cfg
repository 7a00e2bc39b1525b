SPECIFICATION Spec
CONSTANTS
  r1 = r1
  r2 = r2
  Runs = {r1, r2}
  Workers = {w1, w2}
  Items = {i}
  Mode <- Snapshots
  Boundary <- Same
  Versions = {v1, v2}
  Pages <- TwoThenOne
  BatchLimit = 1
  MaxOutside = 2
INVARIANTS
  TypeOK
  PagesInOrder
  SnapshotsAreComplete
  DeletionsAreInferred
PROPERTIES
  DeliversInventories
SYMMETRY Symmetry
