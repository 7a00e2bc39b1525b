----------------------------- MODULE MCImpactRun -----------------------------
(* Small instances of ImpactRun for TLC.                                   *)
EXTENDS ImpactRun, TLC

CONSTANTS a, b, c, d, e

\* Three roots: one leads to three nodes, the others to each other; e cannot
\* be reached.
Hub == a :> {b, c, d} @@ b :> {c} @@ c :> {b} @@ d :> {} @@ e :> {a, b}

\* A node with three neighbours behind the root
Fan == a :> {b} @@ b :> {c, d, e} @@ c :> {} @@ d :> {} @@ e :> {}
=============================================================================
