---------------------- MODULE MCRelationshipCommands ------------------------
(* Two clients work on three assets.  The data model m can be given content *)
(* p, which refers to another model x, or q, which refers to nothing; the   *)
(* feature f can be given content g, or z, which retires it.                *)
EXTENDS RelationshipCommands, TLC

CONSTANTS m, x, f, p, q, g, z

MCRefs == [c \in {p, q, g, z} |-> IF c = p THEN {x} ELSE {}]

Asset(a, c) == [kind |-> "upsertAsset", asset |-> a, content |-> c]

Link(v, expected, create) ==
  [kind |-> "upsertLink", from |-> f, to |-> m, value |-> v,
   expected |-> expected, create |-> create]

Features == {Asset(f, g), Asset(f, z)}

Models == {Asset(m, p), Asset(m, q)}

\* A legacy link that creates its ends, a link that expects version 1 of its
\* source, and the deletion of version 1 of a link.
Relations ==
  {Link("v1", 0, TRUE), Link("v2", 1, FALSE),
   [kind |-> "deleteLink", from |-> f, to |-> m, expected |-> 1]}

MCCommands == Features \cup Models \cup Relations

\* Features are changed by change sets, and links made by promotions.
MCSnapshotCommands == Features \cup {Link("v2", 1, FALSE)}

NoCommands == {}

\* Clients and keys are interchangeable.
Symmetry == Permutations(Clients) \cup Permutations(Keys)
=============================================================================
