--------------------------- MODULE BoundedTraversal ---------------------------
(***************************************************************************)
(* One bounded breadth-first traversal of the relationships of a scope, as *)
(* packages/graph-store/src/postgres.ts does it: a query for each hop, and *)
(* a result that is COMPLETE, or PARTIAL with a frontier from which it can *)
(* be taken up.  A walk is a value: Starts and Hops give the walks that may*)
(* come next.  A path is the sequence of its nodes; between two nodes there*)
(* is at most one relationship that propagates.  The order of the rows of a*)
(* query is left open, and so is when the time is up.  A walk remembers    *)
(* what the code does not: the nodes it has cut off, which are neither     *)
(* followed nor on its frontier.                                           *)
(***************************************************************************)
EXTENDS Naturals, FiniteSets, Sequences, SequencesExt

CONSTANTS
  Nodes,
  Edges,     \* [Nodes -> SUBSET Nodes]: where an impact propagates
  MaxDepth, MaxNodes, MaxPaths

ASSUME TraversalAssumption ==
  /\ Edges \in [Nodes -> SUBSET Nodes]
  /\ MaxDepth \in Nat \ {0} /\ MaxNodes \in Nat \ {0} /\ MaxPaths \in Nat \ {0}

Paths == Seq(Nodes) \ {<<>>}

Walks ==
  [status : {"OPEN", "COMPLETE", "PARTIAL"}, paths : SUBSET Paths,
   queue : SUBSET Paths, frontier : SUBSET Nodes, cut : SUBSET Nodes]

Ends(paths) == {Last(p) : p \in paths}

\* The nodes of a result: every node is the end of the path that found it.
Found(walk) == Ends(walk.paths)

-----------------------------------------------------------------------------

StartLimit == IF MaxNodes < MaxPaths THEN MaxNodes ELSE MaxPaths

Alone(nodes) == {<<n>> : n \in nodes}

Walk(status, paths, queue, frontier, cut) ==
  [status |-> status, paths |-> paths, queue |-> queue, frontier |-> frontier, cut |-> cut]

\* Too many start nodes: the first are found and not expanded, the others are
\* the frontier.  Out of time before the rows are there: nothing is found.
Starts(nodes) ==
  {Walk("PARTIAL", {}, {}, nodes, {})} \cup
  IF Cardinality(nodes) <= StartLimit
  THEN {Walk("OPEN", Alone(nodes), Alone(nodes), {}, {})}
  ELSE {Walk("PARTIAL", Alone(first), {}, nodes \ first, first) :
          first \in {s \in SUBSET nodes : Cardinality(s) = StartLimit}}

\* Fault: relationships are followed against their direction as well.
CandidatesMutant(path) ==
  {Append(path, n) : n \in {m \in Nodes : Last(path) \in Edges[m] \/ m \in Edges[Last(path)]} \ Range(path)}

\* One hop beyond the end of a path, to nodes that are not on it
Candidates(path) == {Append(path, n) : n \in Edges[Last(path)] \ Range(path)}

Room(walk) == MaxPaths - Cardinality(walk.paths)

\* What can be taken of the candidates within the budgets
Takes(walk, path) ==
  {taken \in SUBSET Candidates(path) :
     /\ Cardinality(taken) <= Room(walk)
     /\ Cardinality(Ends(walk.paths \cup taken)) <= MaxNodes}

\* Some candidates the query returned were not taken.
Unfinished(walk, path, taken) ==
  taken # Candidates(path) /\ Cardinality(taken) < Room(walk)

\* Fault: the node that is being expanded is forgotten.
LeftMutant(walk, path, taken) == Ends((walk.queue \ {path}) \cup taken)

\* The node that is being expanded, and those that wait
Left(walk, path, taken) == {Last(path)} \cup Ends((walk.queue \ {path}) \cup taken)

Stopped(walk, taken, frontier, cut) ==
  Walk("PARTIAL", walk.paths \cup taken, {}, frontier, cut)

\* queryTimeoutResult, before the query, or between two of its rows; at the
\* depth where the traversal ends, no row is taken.
TimedOut(walk, path) ==
  {Stopped(walk, taken, Left(walk, path, taken), {}) :
     taken \in {{}} \cup {k \in Takes(walk, path) :
                           Len(path) <= MaxDepth /\ Unfinished(walk, path, k)}}

\* The next candidate would be one node too many.
NodesRunOut(walk, path) ==
  {Stopped(walk, taken, Left(walk, path, taken), {}) :
     taken \in {k \in Takes(walk, path) :
                  /\ Unfinished(walk, path, k)
                  /\ Cardinality(Ends(walk.paths \cup k)) = MaxNodes
                  /\ ~ Ends(Candidates(path) \ k) \subseteq Ends(walk.paths \cup k)}}

\* The query returns at most one row more than there is room for; that one is
\* put on the frontier, and the node itself is not: the other rows are cut off.
PathsRunOut(walk, path) ==
  UNION {{Stopped(walk, taken, {Last(next)} \cup Ends((walk.queue \ {path}) \cup taken),
                  Ends(Candidates(path) \ (taken \cup {next}))) :
            next \in Candidates(path) \ taken} :
         taken \in {k \in Takes(walk, path) : Cardinality(k) = Room(walk)}}

Expanded(walk, path) ==
  {Walk("OPEN", walk.paths \cup taken, (walk.queue \ {path}) \cup taken, {}, {}) :
     taken \in {k \in Takes(walk, path) : k = Candidates(path)}}

\* One turn of the loop for the path at the head of the queue
Turns(walk, path) ==
  TimedOut(walk, path) \cup
  IF Room(walk) = 0 THEN {Stopped(walk, {}, Left(walk, path, {}), {})}
  ELSE IF Len(path) > MaxDepth
  THEN IF Candidates(path) = {}
       THEN {Walk("OPEN", walk.paths, walk.queue \ {path}, {}, {})}
       ELSE {Stopped(walk, {}, Left(walk, path, {}), {})}
  ELSE NodesRunOut(walk, path) \cup PathsRunOut(walk, path) \cup Expanded(walk, path)

\* Breadth first: the head of the queue is one of its shortest paths.
Heads(walk) == {p \in walk.queue : \A q \in walk.queue : Len(p) <= Len(q)}

Hops(walk) ==
  IF walk.queue = {} THEN {Walk("COMPLETE", walk.paths, {}, {}, {})}
  ELSE UNION {Turns(walk, path) : path \in Heads(walk)}

-----------------------------------------------------------------------------
(* What a traversal is for                                                 *)

\* Nothing can be reached from these nodes but these nodes.
Closed(nodes) == \A n \in nodes : Edges[n] \subseteq nodes

\* The nodes and what can be reached from the others are all there is: a
\* closed set that holds the others makes the nodes closed.
Covers(nodes, others, roots) ==
  \A s \in SUBSET Nodes :
    others \subseteq s /\ Closed(s) => roots \subseteq nodes \cup s /\ Closed(nodes \cup s)

\* No set that holds the roots and is closed leaves a node out.
Reached(nodes, roots) ==
  \A s \in SUBSET Nodes : roots \subseteq s /\ Closed(s) => nodes \subseteq s

=============================================================================
