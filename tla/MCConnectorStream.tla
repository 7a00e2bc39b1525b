------------------------- MODULE MCConnectorStream -------------------------
(* Small instances of ConnectorStream for TLC.                             *)
EXTENDS ConnectorStream, TLC

CONSTANTS r1, r2

Snapshots == [r \in Runs |-> "FULL_SNAPSHOT"]
Deltas == [r \in Runs |-> "DELTA"]
Same == [r \in Runs |-> "b"]
TwoThenOne == [r \in Runs |-> IF r = r1 THEN 2 ELSE 1]
Symmetry == Permutations(Workers) \cup Permutations(Versions)
OnePage == [r \in Runs |-> 1]
=============================================================================
