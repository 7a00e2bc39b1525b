------------------------- MODULE MCGraphProjection -------------------------
(* Small instances of GraphProjection for TLC.                             *)
EXTENDS GraphProjection, TLC

CONSTANTS s1, s2, e1, e2, e3, x, y, w1, w2

\* Two rows of one scope about the same element, and one of another.
TwoScopes == e1 :> s1 @@ e2 :> s1 @@ e3 :> s2
SharedElement == e1 :> x @@ e2 :> x @@ e3 :> y

\* One scope, every row about the same element.
TwoRowsScope == [e \in Events |-> s1]
TwoRowsElement == [e \in Events |-> x]
=============================================================================
