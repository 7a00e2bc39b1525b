SPECIFICATION FairSpec
CONSTANTS
  m = m
  f = f
  p = p
  Writers = {w1, w2}
  Models = {m}
  Features = {f}
  Contents = {p, q}
  Absent = Absent
  Legacy <- OldModel
  Ops = {"upsert", "change", "remove", "feature", "purge", "bootstrap"}
  MaxVersion = 2
INVARIANTS
  TypeOK
  EveryRowLogged
PROPERTIES
  LoggedWritesAreLatest
  TransactionsEnd
CHECK_DEADLOCK FALSE
