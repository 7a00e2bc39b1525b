SPECIFICATION Spec
CONSTANTS
  s1 = s1
  s2 = s2
  e1 = e1
  e2 = e2
  e3 = e3
  x = x
  y = y
  w1 = w1
  w2 = w2
  NoWorker = NoWorker
  Workers = {w1, w2}
  Scopes = {s1}
  Events = {e1, e2}
  Elements = {x, y}
  ScopeOf <- TwoRowsScope
  ElementOf <- TwoRowsElement
  Unsupported = {}
  SnapshotScopes = {}
  VerificationScopes = {}
  BatchSize = 2
  MaxAttempts = 2
  MaxFaults = 2
\* The instance has finitely many rows: once they are settled, or a dead letter
\* blocks the scope, nothing is left to do.
CHECK_DEADLOCK FALSE
INVARIANTS
  GraphConverges
