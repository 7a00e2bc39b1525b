SPECIFICATION Spec
CONSTANTS
  m = m
  x = x
  f = f
  p = p
  q = q
  g = g
  z = z
  Clients = {c1, c2}
  NoClient = NoClient
  Keys = {k1, k2, k3}
  Nodes = {m, x, f}
  Contents = {p, q, g, z}
  Refs <- MCRefs
  Retired = {z}
  Values = {"v1", "v2", "parsed"}
  Parsed = "parsed"
  Commands <- MCCommands
  SnapshotCommands <- NoCommands
  MaxFaults = 0
INVARIANTS
  VersionsInGraphOrder
  LogExplainsRows
  ParserLinksFollowContent
PROPERTIES
  RetireIsolates
  GraphWaterlineStable
  ImplementsLedger
SYMMETRY Symmetry
