SPECIFICATION FairSpec
CONSTANTS
  s1 = s1
  s2 = s2
  e1 = e1
  e2 = e2
  e3 = e3
  x = x
  y = y
  w1 = w1
  w2 = w2
  NoWorker = NoWorker
  Workers = {w1, w2}
  Scopes = {s1, s2}
  Events = {e1, e2, e3}
  Elements = {x, y}
  ScopeOf <- TwoScopes
  ElementOf <- SharedElement
  Unsupported = {e3}
  SnapshotScopes = {s1}
  VerificationScopes = {s2}
  BatchSize = 2
  MaxAttempts = 2
  MaxFaults = 1
CHECK_DEADLOCK FALSE
INVARIANTS
  TypeOK
  CheckpointIsSound
PROPERTIES
  TerminalIsFinal
  ImplementsOrderedDelivery
  EventuallySettledOrBlocked
