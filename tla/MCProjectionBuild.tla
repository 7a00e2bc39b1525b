-------------------------- MODULE MCProjectionBuild --------------------------
(* Instances of ProjectionBuild: two assets and a relationship between them. *)
EXTENDS ProjectionBuild, TLC

CONSTANTS x, y, r, b1, s, w1, w2

XToY == [rel \in {r} |-> <<x, y>>]
OneBundle == [b \in {b1} |-> {x, y, r}]
OneSet == [set \in {s} |-> {b1}]
ByLayer == <<x, r, y>>
Symmetry == Permutations({w1, w2})
=============================================================================
