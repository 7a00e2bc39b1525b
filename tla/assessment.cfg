SPECIFICATION FairSpec
CONSTANTS
  Runs = {r1}
  Workers = {w1}
  NoWorker = NoWorker
  Calls = {k1, k2}
  EvidenceLimit = 2
  ScanLimit = 1
  MaxChanges = 2
  MaxFaults = 1
INVARIANTS
  TypeOK
  CompletedIsReviewed
PROPERTIES
  AcceptedIsImmutable
  OutdatedGoesStale
  StaleOnlyWhenChanged
  RunsEnd
