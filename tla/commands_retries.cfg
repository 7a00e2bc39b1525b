SPECIFICATION FairSpec
CONSTANTS
  m = m
  x = x
  f = f
  p = p
  q = q
  g = g
  z = z
  Clients = {c1, c2}
  NoClient = NoClient
  Keys = {k1}
  Nodes = {m, x, f}
  Contents = {p, q, g, z}
  Refs <- MCRefs
  Retired = {z}
  Values = {"v1", "v2", "parsed"}
  Parsed = "parsed"
  Commands <- MCCommands
  SnapshotCommands <- MCSnapshotCommands
  MaxFaults = 1
INVARIANTS
  TypeOK
  AnswersAgree
PROPERTIES
  CallsEnd
