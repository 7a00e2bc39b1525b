------------------------- MODULE MCAuthoredCatalog --------------------------
(* A data model m and a feature f.                                         *)
EXTENDS AuthoredCatalog, TLC

CONSTANTS m, f, p

\* Only the data model is older than the log.
OldModel == [a \in {m, f} |-> IF a = m THEN p ELSE Absent]

Symmetry == Permutations(Writers)
=============================================================================
