SPECIFICATION FairSpec
CONSTANTS
  x = x
  y = y
  r = r
  b1 = b1
  s = s
  w1 = w1
  w2 = w2
  Assets = {x, y}
  Relationships = {r}
  Endpoints <- XToY
  Bundles = {b1}
  Members <- OneBundle
  Decisions = {d1}
  ReviewSets = {s}
  Expected <- OneSet
  None = None
  MaxBaselines = 1
  MaxOutside = 1
  Workers = {w1, w2}
  Order <- ByLayer
  BatchLimit = 2
  Queries = {plain}
  Plain = plain
  MaxJobs = 2
  MaxFaults = 2
CHECK_DEADLOCK FALSE
INVARIANTS
  TypeOK
  
PROPERTIES
  
  LostBuildIsLost
  BuildsEnd
