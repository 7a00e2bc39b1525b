-------------------------- MODULE MCAssessmentRun --------------------------
(* Small instances of AssessmentRun for TLC.                               *)
EXTENDS AssessmentRun, TLC

\* Runs and workers are interchangeable.
Symmetry == Permutations(Runs) \cup Permutations(Workers)
=============================================================================
