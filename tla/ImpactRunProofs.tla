--------------------------- MODULE ImpactRunProofs ---------------------------
(***************************************************************************)
(* Proofs about ImpactRun for any graph, budgets, workers, calls, failures *)
(* and cancellations: what a run may report, how new the projection was    *)
(* that it read, and what a worker may do without its lease.               *)
(***************************************************************************)
EXTENDS ImpactRun, SequenceTheorems, TLAPS

-----------------------------------------------------------------------------
(* The invariant                                                           *)

\* What can be reached from the roots is in each of these.
RootSets == {s \in SUBSET Nodes : Roots \subseteq s /\ Closed(s)}

WalkWithin(walk, s) ==
  /\ \A p \in walk.paths : Last(p) \in s
  /\ \A p \in walk.queue : Last(p) \in s
  /\ walk.frontier \subseteq s

JobWithin(j) ==
  \A s \in RootSets : j.from \subseteq s /\ j.before \subseteq s /\ WalkWithin(j.walk, s)

RowTypes ==
  /\ status \in Statuses
  /\ owner \in Workers \cup {NoWorker} /\ (status = "RUNNING" => owner \in Workers)
  /\ late \in BOOLEAN
  /\ stamp \in Nat /\ checkpoint \in Nat
  /\ result \subseteq Nodes /\ frontier \subseteq Nodes /\ forgotten \subseteq Nodes

RowWithin == \A s \in RootSets : result \subseteq s /\ frontier \subseteq s

RowInv == RowTypes /\ EndedAsProjected /\ RowWithin

\* What a call knows where it is: nothing before it begins, an analysis of a
\* projection that is new enough, and one that has ended before it is stored.
JobFits(place, j) ==
  /\ place = "idle" => j = NoJob
  /\ place \in {"look", "traverse", "lookAgain", "complete"} => Projected(j.seen)
  /\ place \in {"lookAgain", "complete"} => j.walk.status # "OPEN"
  /\ JobWithin(j)

CallInv ==
  /\ pc \in [Workers -> Places]
  /\ job \in [Workers -> Jobs]
  /\ \A w \in Workers : JobFits(pc[w], job[w])

CountTypes == calls \in 0 .. MaxCalls /\ faults \in 0 .. MaxFaults

ImpactInv == RowInv /\ CallInv /\ CountTypes

-----------------------------------------------------------------------------
(* The traversal                                                           *)

LEMMA PathsEndInNodes ==
  ASSUME NEW p \in Paths
  PROVE  Last(p) \in Nodes /\ Len(p) \in Nat \ {0}
<1>1. p \in Seq(Nodes) /\ p # <<>>
  BY DEF Paths
<1>2. Len(p) \in Nat \ {0} /\ p \in [1 .. Len(p) -> Nodes]
  BY <1>1, LenProperties, EmptySeq
<1> QED BY <1>2 DEF Last

\* A path that is one hop longer
LEMMA PathsGrow ==
  ASSUME NEW p \in Paths, NEW q \in Candidates(p)
  PROVE  q \in Paths /\ Last(q) \in Edges[Last(p)]
<1>1. PICK n \in Edges[Last(p)] : q = Append(p, n)
  BY DEF Candidates
<1>2. Last(p) \in Nodes /\ n \in Nodes /\ p \in Seq(Nodes)
  BY PathsEndInNodes, TraversalAssumption DEF Paths
<1>3. q \in Seq(Nodes) /\ Len(q) = Len(p) + 1 /\ q[Len(p) + 1] = n /\ Len(p) \in Nat
  BY <1>1, <1>2, AppendProperties, LenProperties
<1>4. q # <<>> /\ Last(q) = n
  BY <1>3 DEF Last
<1> QED BY <1>3, <1>4 DEF Paths

LEMMA AloneIsPaths ==
  ASSUME NEW nodes \in SUBSET Nodes
  PROVE  /\ Alone(nodes) \subseteq Paths
         /\ \A p \in Alone(nodes) : Last(p) \in nodes
<1> SUFFICES ASSUME NEW n \in nodes PROVE <<n>> \in Paths /\ Last(<<n>>) = n
  BY DEF Alone
<1>1. <<n>> \in Seq(Nodes) /\ Len(<<n>>) = 1 /\ <<n>>[1] = n
  OBVIOUS
<1> QED BY <1>1 DEF Paths, Last

LEMMA EndsAreWithin ==
  ASSUME NEW paths, NEW s, \A p \in paths : Last(p) \in s
  PROVE  Ends(paths) \subseteq s
BY DEF Ends

\* A walk put together from parts that are within a set
LEMMA WalkOfParts ==
  ASSUME NEW st \in {"OPEN", "COMPLETE", "PARTIAL"}, NEW paths \in SUBSET Paths,
         NEW queue \in SUBSET Paths, NEW fr \in SUBSET Nodes, NEW ct \in SUBSET Nodes
  PROVE  /\ Walk(st, paths, queue, fr, ct) \in Walks
         /\ Walk(st, paths, queue, fr, ct).status = st
         /\ \A s : /\ \A p \in paths : Last(p) \in s
                   /\ \A p \in queue : Last(p) \in s
                   /\ fr \subseteq s
                   => WalkWithin(Walk(st, paths, queue, fr, ct), s)
BY DEF Walk, Walks, WalkWithin

LEMMA StartsAreWithin ==
  ASSUME NEW nodes \in SUBSET Nodes, NEW walk \in Starts(nodes)
  PROVE  walk \in Walks /\ \A s : nodes \subseteq s => WalkWithin(walk, s)
<1>1. \/ walk = Walk("PARTIAL", {}, {}, nodes, {})
      \/ walk = Walk("OPEN", Alone(nodes), Alone(nodes), {}, {})
      \/ \E first \in SUBSET nodes : walk = Walk("PARTIAL", Alone(first), {}, nodes \ first, first)
  BY DEF Starts
<1>2. CASE walk = Walk("PARTIAL", {}, {}, nodes, {})
  BY <1>2, WalkOfParts
<1>3. CASE walk = Walk("OPEN", Alone(nodes), Alone(nodes), {}, {})
  BY <1>3, WalkOfParts, AloneIsPaths
<1>4. ASSUME NEW first \in SUBSET nodes, walk = Walk("PARTIAL", Alone(first), {}, nodes \ first, first)
      PROVE  walk \in Walks /\ \A s : nodes \subseteq s => WalkWithin(walk, s)
  <2>1. first \in SUBSET Nodes /\ nodes \ first \in SUBSET Nodes
    OBVIOUS
  <2>2. Alone(first) \in SUBSET Paths /\ \A p \in Alone(first) : Last(p) \in nodes
    BY <2>1, AloneIsPaths
  <2> QED BY <1>4, <2>1, <2>2, WalkOfParts
<1> QED BY <1>1, <1>2, <1>3, <1>4

\* What a turn takes and leaves is within every closed set the walk is within.
LEMMA TurnsAreWithin ==
  ASSUME NEW walk \in Walks, NEW path \in walk.queue, NEW next \in Turns(walk, path)
  PROVE  next \in Walks /\ \A s \in SUBSET Nodes : Closed(s) /\ WalkWithin(walk, s) => WalkWithin(next, s)
<1>1. walk.paths \subseteq Paths /\ walk.queue \subseteq Paths /\ path \in Paths
  BY DEF Walks
<1>2. Candidates(path) \subseteq Paths
  BY <1>1, PathsGrow
<1>3. ASSUME NEW s \in SUBSET Nodes, Closed(s), WalkWithin(walk, s)
      PROVE  /\ Last(path) \in s /\ \A p \in Candidates(path) : Last(p) \in s
             /\ \A p \in walk.paths : Last(p) \in s
             /\ \A p \in walk.queue : Last(p) \in s
  <2>1. Last(path) \in s
    BY <1>3 DEF WalkWithin
  <2>2. Edges[Last(path)] \subseteq s
    BY <1>3, <2>1 DEF Closed
  <2> QED BY <1>1, <1>3, <2>1, <2>2, PathsGrow DEF WalkWithin
<1>4. ASSUME NEW taken \in SUBSET Candidates(path), NEW e \in {path} \cup Candidates(path),
             NEW st \in {"OPEN", "PARTIAL"}, NEW queue \in SUBSET ((walk.queue \ {path}) \cup taken),
             NEW fr \in SUBSET ({Last(e)} \cup Ends((walk.queue \ {path}) \cup taken)),
             NEW ct \in SUBSET Nodes, next = Walk(st, walk.paths \cup taken, queue, fr, ct)
      PROVE  next \in Walks /\ \A s \in SUBSET Nodes : Closed(s) /\ WalkWithin(walk, s) => WalkWithin(next, s)
  <2>1. walk.paths \cup taken \in SUBSET Paths /\ queue \in SUBSET Paths
    BY <1>1, <1>2
  <2>2. fr \in SUBSET Nodes
    BY <1>1, <1>2, PathsEndInNodes DEF Ends
  <2>3. ASSUME NEW s \in SUBSET Nodes, Closed(s), WalkWithin(walk, s)
        PROVE  /\ \A p \in walk.paths \cup taken : Last(p) \in s
               /\ \A p \in queue : Last(p) \in s
               /\ fr \subseteq s
    BY <1>3, <2>3 DEF Ends
  <2> QED BY <1>4, <2>1, <2>2, <2>3, WalkOfParts
<1>5. CASE next \in TimedOut(walk, path) \cup NodesRunOut(walk, path) \cup {Stopped(walk, {}, Left(walk, path, {}), {})}
  <2>1. PICK taken \in SUBSET Candidates(path) :
          next = Walk("PARTIAL", walk.paths \cup taken, {}, {Last(path)} \cup Ends((walk.queue \ {path}) \cup taken), {})
    BY <1>5 DEF TimedOut, NodesRunOut, Stopped, Left, Takes
  <2> DEFINE fr == {Last(path)} \cup Ends((walk.queue \ {path}) \cup taken)
             ct == {}
  <2>2. next = Walk("PARTIAL", walk.paths \cup taken, {}, fr, ct)
    BY <2>1
  <2>3. fr \in SUBSET ({Last(path)} \cup Ends((walk.queue \ {path}) \cup taken)) /\ ct \in SUBSET Nodes
    OBVIOUS
  <2> HIDE DEF fr, ct
  <2> QED BY <2>2, <2>3, <1>4
<1>6. CASE next \in PathsRunOut(walk, path)
  <2>1. PICK taken \in SUBSET Candidates(path), c \in Candidates(path) :
          next = Walk("PARTIAL", walk.paths \cup taken, {}, {Last(c)} \cup Ends((walk.queue \ {path}) \cup taken),
                      Ends(Candidates(path) \ (taken \cup {c})))
    BY <1>6 DEF PathsRunOut, Stopped, Takes
  <2> DEFINE fr == {Last(c)} \cup Ends((walk.queue \ {path}) \cup taken)
             ct == Ends(Candidates(path) \ (taken \cup {c}))
  <2>2. next = Walk("PARTIAL", walk.paths \cup taken, {}, fr, ct)
    BY <2>1
  <2>3. fr \in SUBSET ({Last(c)} \cup Ends((walk.queue \ {path}) \cup taken))
    OBVIOUS
  <2>4. ct \in SUBSET Nodes
    BY <1>2, PathsEndInNodes DEF Ends
  <2> HIDE DEF fr, ct
  <2> QED BY <2>2, <2>3, <2>4, <1>4
<1>7. ASSUME NEW taken \in SUBSET Candidates(path),
             next = Walk("OPEN", walk.paths \cup taken, (walk.queue \ {path}) \cup taken, {}, {})
      PROVE  next \in Walks /\ \A s \in SUBSET Nodes : Closed(s) /\ WalkWithin(walk, s) => WalkWithin(next, s)
  <2> DEFINE queue == (walk.queue \ {path}) \cup taken
             fr == {}
             ct == {}
  <2>1. next = Walk("OPEN", walk.paths \cup taken, queue, fr, ct)
    BY <1>7
  <2>2. /\ queue \in SUBSET ((walk.queue \ {path}) \cup taken)
        /\ fr \in SUBSET ({Last(path)} \cup Ends((walk.queue \ {path}) \cup taken))
        /\ ct \in SUBSET Nodes
    OBVIOUS
  <2> HIDE DEF queue, fr, ct
  <2> QED BY <2>1, <2>2, <1>4
<1>8. CASE next \in Expanded(walk, path) \/ next = Walk("OPEN", walk.paths, walk.queue \ {path}, {}, {})
  <2>1. PICK taken \in SUBSET Candidates(path) :
          next = Walk("OPEN", walk.paths \cup taken, (walk.queue \ {path}) \cup taken, {}, {})
    <3>1. CASE next \in Expanded(walk, path)
      BY <3>1 DEF Expanded, Takes
    <3>2. CASE next = Walk("OPEN", walk.paths, walk.queue \ {path}, {}, {})
      <4>1. next = Walk("OPEN", walk.paths \cup {}, (walk.queue \ {path}) \cup {}, {}, {})
        BY <3>2
      <4> QED BY <4>1
    <3> QED BY <1>8, <3>1, <3>2
  <2> QED BY <2>1, <1>7
<1>9. \/ next \in TimedOut(walk, path) \cup NodesRunOut(walk, path) \cup {Stopped(walk, {}, Left(walk, path, {}), {})}
      \/ next \in PathsRunOut(walk, path) \/ next \in Expanded(walk, path)
      \/ next = Walk("OPEN", walk.paths, walk.queue \ {path}, {}, {})
  BY DEF Turns
<1> QED BY <1>5, <1>6, <1>8, <1>9

LEMMA HopsAreWithin ==
  ASSUME NEW walk \in Walks, NEW next \in Hops(walk)
  PROVE  next \in Walks /\ \A s \in SUBSET Nodes : Closed(s) /\ WalkWithin(walk, s) => WalkWithin(next, s)
<1>1. CASE walk.queue = {}
  <2>1. next = Walk("COMPLETE", walk.paths, {}, {}, {})
    BY <1>1 DEF Hops
  <2>2. walk.paths \in SUBSET Paths
    BY DEF Walks
  <2> QED BY <2>1, <2>2, WalkOfParts DEF WalkWithin
<1>2. CASE walk.queue # {}
  <2>1. PICK path \in walk.queue : next \in Turns(walk, path)
    BY <1>2 DEF Hops, Heads
  <2> QED BY <2>1, TurnsAreWithin
<1> QED BY <1>1, <1>2

-----------------------------------------------------------------------------
(* Steps                                                                   *)

LEMMA NothingIsWithin == JobWithin(NoJob) /\ NoJob \in Jobs /\ NoWalk \in Walks
<1>1. NoWalk \in Walks /\ \A s : WalkWithin(NoWalk, s)
  BY WalkOfParts DEF NoWalk
<1>2. NoJob \in Jobs
  BY <1>1 DEF NoJob, Jobs
<1> HIDE DEF NoWalk
<1>3. NoJob.from = {} /\ NoJob.before = {} /\ NoJob.walk = NoWalk
  BY DEF NoJob
<1> HIDE DEF NoJob
<1> QED BY <1>1, <1>2, <1>3 DEF JobWithin

LEMMA ImpactInvInit == Init => ImpactInv
<1> SUFFICES ASSUME Init PROVE ImpactInv
  OBVIOUS
<1>1. RowTypes
  <2>1. late \in BOOLEAN
    BY Zenon DEF Init
  <2> QED BY <2>1, ImpactAssumption DEF Init, RowTypes, Statuses
<1>2. EndedAsProjected /\ RowWithin
  BY DEF Init, EndedAsProjected, Ended, RowWithin
<1>3. CallInv
  <2>1. JobFits("idle", NoJob) /\ "idle" \in Places /\ NoJob \in Jobs
    BY NothingIsWithin DEF JobFits, Places
  <2> QED BY <2>1 DEF Init, CallInv
<1>4. CountTypes
  BY ImpactAssumption DEF Init, CountTypes
<1> QED BY <1>1, <1>2, <1>3, <1>4 DEF ImpactInv, RowInv

\* What a step does to one call keeps all of them fitting.
LEMMA CallSteps ==
  ASSUME CallInv, NEW w \in Workers, NEW p \in Places, NEW j \in Jobs, JobFits(p, j),
         pc' = [pc EXCEPT ![w] = p],
         job' = [job EXCEPT ![w] = j] \/ (job' = job /\ j = job[w])
  PROVE  CallInv'
<1>1. pc \in [Workers -> Places] /\ job \in [Workers -> Jobs] /\ \A v \in Workers : JobFits(pc[v], job[v])
  BY DEF CallInv
<1>2. /\ pc' \in [Workers -> Places] /\ job' \in [Workers -> Jobs] /\ pc'[w] = p /\ job'[w] = j
      /\ \A v \in Workers : v # w => pc'[v] = pc[v] /\ job'[v] = job[v]
  BY <1>1
<1>3. \A v \in Workers : JobFits(pc'[v], job'[v])
  BY <1>1, <1>2
<1> QED BY <1>2, <1>3 DEF CallInv, JobFits, JobWithin, RootSets

LEMMA CallsRest == ASSUME CallInv, UNCHANGED <<pc, job>> PROVE CallInv'
BY DEF CallInv, JobFits, JobWithin, RootSets

LEMMA RowRests == ASSUME RowInv, UNCHANGED row, checkpoint' \in Nat PROVE RowInv'
BY DEF row, found, RowInv, RowTypes, EndedAsProjected, Ended, RowWithin

LEMMA JobIsTyped ==
  ASSUME CallInv, NEW w \in Workers
  PROVE  /\ job[w] \in Jobs /\ pc[w] \in Places /\ JobFits(pc[w], job[w])
         /\ job[w].seen \in Nat /\ job[w].walk \in Walks
         /\ job[w].from \subseteq Nodes /\ job[w].before \subseteq Nodes /\ job[w].lost \subseteq Nodes
BY DEF CallInv, Jobs

\* A call that ends
LEMMA LeaveKeeps == ASSUME CallInv, NEW w \in Workers, Leave(w) PROVE CallInv'
<1>1. JobFits("idle", NoJob) /\ "idle" \in Places /\ NoJob \in Jobs
  BY NothingIsWithin DEF JobFits, Places
<1> HIDE DEF NoJob
<1> QED BY <1>1, CallSteps DEF Leave, Goto, Know

\* A call that goes on with what it knows, to a place that asks no more of it
LEMMA GotoKeeps ==
  ASSUME CallInv, NEW w \in Workers, NEW p \in Places, Goto(w, p), job' = job, p # "idle",
         p \in {"look", "traverse", "lookAgain", "complete"} => Projected(job[w].seen),
         p \in {"lookAgain", "complete"} => job[w].walk.status # "OPEN"
  PROVE  CallInv'
<1>1. JobFits(p, job[w]) /\ job[w] \in Jobs
  BY JobIsTyped DEF JobFits
<1> QED BY <1>1, CallSteps DEF Goto

\* A step of a call that leaves the row alone
LEMMA LocalKeeps ==
  ASSUME ImpactInv, UNCHANGED <<row, checkpoint>>, CallInv',
         calls' \in 0 .. MaxCalls, faults' \in 0 .. MaxFaults
  PROVE  ImpactInv'
<1>1. RowInv' 
  BY RowRests DEF ImpactInv, RowInv, RowTypes
<1>2. CountTypes'
  BY DEF ImpactInv, CountTypes
<1> QED BY <1>1, <1>2 DEF ImpactInv

LEMMA Parts ==
  ASSUME ImpactInv
  PROVE  /\ RowInv /\ RowTypes /\ CallInv /\ RowWithin /\ EndedAsProjected
         /\ calls \in 0 .. MaxCalls /\ faults \in 0 .. MaxFaults
BY DEF ImpactInv, RowInv, CountTypes

LEMMA CallKeeps ==
  ASSUME ImpactInv, NEW w \in Workers, NEW kind \in {"run", "resume", "retry"},
         NEW place \in {"check", "history", "requeue"}, NEW from \in SUBSET Nodes,
         \A s \in RootSets : from \subseteq s, Call(w, kind, place, from)
  PROVE  ImpactInv'
<1> DEFINE j == [NoJob EXCEPT !.kind = kind, !.from = from]
<1>1. j \in Jobs /\ j.from = from /\ j.before = {} /\ j.walk = NoJob.walk
  BY NothingIsWithin DEF NoJob, Jobs
<1>2. JobFits(place, j) /\ place \in Places
  BY <1>1, NothingIsWithin DEF JobFits, JobWithin, Places
<1>3. pc' = [pc EXCEPT ![w] = place] /\ job' = [job EXCEPT ![w] = j]
  BY DEF Call, Goto, Know
<1> HIDE DEF j
<1>4. CallInv'
  BY <1>1, <1>2, <1>3, Parts, CallSteps
<1>5. calls' \in 0 .. MaxCalls
  BY Parts, ImpactAssumption DEF Call
<1> QED BY <1>4, <1>5, Parts, LocalKeeps DEF Call

LEMMA CallsKeep ==
  ASSUME ImpactInv, NEW w \in Workers, Run(w) \/ Resume(w) \/ RetryRun(w) PROVE ImpactInv'
<1>1. CASE Run(w)
  BY <1>1, CallKeeps, ImpactAssumption DEF Run, RootSets
<1>2. CASE Resume(w)
  <2>1. frontier \in SUBSET Nodes /\ \A s \in RootSets : frontier \subseteq s
    BY Parts DEF RowTypes, RowWithin
  <2> QED BY <1>2, <2>1, CallKeeps DEF Resume
<1>3. CASE RetryRun(w)
  BY <1>3, CallKeeps, ImpactAssumption DEF RetryRun, RootSets
<1> QED BY <1>1, <1>2, <1>3

LEMMA LoadPersistedKeeps == ASSUME ImpactInv, NEW w \in Workers, LoadPersisted(w) PROVE ImpactInv'
<1> DEFINE j == [job[w] EXCEPT !.before = result, !.lost = (frontier \cup forgotten) \ job[w].from]
<1>1. /\ j \in Jobs /\ j.from = job[w].from /\ j.before = result /\ j.walk = job[w].walk
      /\ JobWithin(job[w])
  BY Parts, JobIsTyped DEF RowTypes, Jobs, JobFits
<1>2. JobFits("requeue", j) /\ "requeue" \in Places
  BY <1>1, Parts DEF JobFits, JobWithin, RowWithin, Places
<1>3. pc' = [pc EXCEPT ![w] = "requeue"] /\ job' = [job EXCEPT ![w] = j]
  BY DEF LoadPersisted, Goto, Know
<1> HIDE DEF j
<1>4. CallInv'
  BY <1>1, <1>2, <1>3, Parts, CallSteps
<1> QED BY <1>4, Parts, LocalKeeps DEF LoadPersisted

\* A status that is not the end of an analysis
LEMMA RowSteps ==
  ASSUME ImpactInv, status' \in Statuses \ {"COMPLETE", "PARTIAL"},
         owner' \in Workers \cup {NoWorker}, status' = "RUNNING" => owner' \in Workers,
         late' \in BOOLEAN, stamp' \in Nat, checkpoint' \in Nat, UNCHANGED found
  PROVE  RowInv'
<1>1. RowTypes'
  BY Parts DEF RowTypes, found
<1>2. EndedAsProjected' /\ RowWithin'
  BY Parts DEF found, EndedAsProjected, Ended, RowWithin, RootSets
<1> QED BY <1>1, <1>2 DEF RowInv

LEMMA RequeueKeeps == ASSUME ImpactInv, NEW w \in Workers, Requeue(w) PROVE ImpactInv'
<1>1. RowInv'
  <2>1. "QUEUED" \in Statuses \ {"COMPLETE", "PARTIAL"} /\ "QUEUED" # "RUNNING"
    BY DEF Statuses
  <2> QED BY <2>1, Parts, RowSteps DEF Requeue, RowTypes
<1>2. CallInv'
  <2> DEFINE p == IF job[w].kind = "resume" THEN "claim" ELSE "check"
  <2>1. p \in Places /\ p \notin {"idle", "look", "traverse", "lookAgain", "complete"}
    BY DEF Places
  <2>2. Goto(w, p) /\ job' = job
    BY DEF Requeue
  <2> HIDE DEF p
  <2> QED BY <2>1, <2>2, Parts, GotoKeeps
<1>3. CountTypes'
  BY DEF Requeue, ImpactInv, CountTypes
<1> QED BY <1>1, <1>2, <1>3 DEF ImpactInv

LEMMA LookKeeps ==
  ASSUME ImpactInv, NEW w \in Workers, NEW at, NEW next,
         <<at, next>> \in {<<"lookAgain", "complete">>, <<"check", "claim">>}, Look(w, at, next)
  PROVE  ImpactInv'
<1>1. (at = "lookAgain" /\ next = "complete") \/ (at = "check" /\ next = "claim")
  OBVIOUS
<1>2. JobFits(pc[w], job[w])
  BY Parts, JobIsTyped
<1>3. CallInv'
  <2>1. CASE Cancelling
    <3>1. Goto(w, "cancel") /\ job' = job /\ "cancel" \in Places
      BY <2>1 DEF Look, Places, Executing
    <3> QED BY <3>1, Parts, GotoKeeps
  <2>2. CASE ~Cancelling
    <3>1. Goto(w, next) /\ job' = job /\ next \in Places /\ next # "idle"
      BY <2>2, <1>1 DEF Look, Places, Executing
    <3>2. next = "complete" => Projected(job[w].seen) /\ job[w].walk.status # "OPEN"
      BY <1>1, <1>2 DEF Look, JobFits
    <3>3. next \notin {"look", "traverse", "lookAgain"}
      BY <1>1
    <3> QED BY <3>1, <3>2, <3>3, Parts, GotoKeeps
  <2> QED BY <2>1, <2>2
<1> QED BY <1>3, Parts, LocalKeeps DEF Look

LEMMA ClaimKeeps == ASSUME ImpactInv, NEW w \in Workers, Claim(w) PROVE ImpactInv'
<1>1. CASE Claimable
  <2>1. /\ status' = "RUNNING" /\ owner' = w /\ late' = FALSE /\ Goto(w, "checkpoint")
        /\ UNCHANGED <<stamp, found, checkpoint, job, calls, faults>>
    BY <1>1 DEF Claim
  <2>2. late' \in BOOLEAN
    BY <2>1, Zenon
  <2>3. status' \in Statuses \ {"COMPLETE", "PARTIAL"}
    BY <2>1 DEF Statuses
  <2>4. RowInv'
    BY <2>1, <2>2, <2>3, Parts, RowSteps DEF RowTypes
  <2>5. CallInv'
    <3>1. "checkpoint" \in Places
      BY DEF Places, Executing
    <3> QED BY <2>1, <3>1, Parts, GotoKeeps
  <2> QED BY <2>1, <2>4, <2>5 DEF ImpactInv, CountTypes
<1>2. CASE ~Claimable
  <2>1. Leave(w) /\ UNCHANGED <<row, checkpoint, calls, faults>>
    BY <1>2 DEF Claim, row
  <2> QED BY <2>1, Parts, LeaveKeeps, LocalKeeps
<1> QED BY <1>1, <1>2

-----------------------------------------------------------------------------
(* execute                                                                 *)

LEMMA ReadCheckpointKeeps == ASSUME ImpactInv, NEW w \in Workers, ReadCheckpoint(w) PROVE ImpactInv'
<1> DEFINE j == [job[w] EXCEPT !.seen = checkpoint]
<1>1. /\ j \in Jobs /\ j.from = job[w].from /\ j.before = job[w].before /\ j.walk = job[w].walk
      /\ JobWithin(job[w])
  BY Parts, JobIsTyped DEF RowTypes, Jobs, JobFits
<1>2. JobFits("stamp", j) /\ "stamp" \in Places
  BY <1>1 DEF JobFits, JobWithin, Places, Executing
<1>3. pc' = [pc EXCEPT ![w] = "stamp"] /\ job' = [job EXCEPT ![w] = j]
  BY DEF ReadCheckpoint, Goto, Know
<1> HIDE DEF j
<1>4. CallInv'
  BY <1>1, <1>2, <1>3, Parts, CallSteps
<1> QED BY <1>4, Parts, LocalKeeps DEF ReadCheckpoint

\* The fence is missed.
LEMMA MissKeeps ==
  ASSUME ImpactInv, NEW w \in Workers, Goto(w, "missed"),
         UNCHANGED <<row, job, checkpoint, calls, faults>>
  PROVE  ImpactInv'
<1>1. "missed" \in Places
  BY DEF Places, Executing
<1>2. CallInv'
  BY <1>1, Parts, GotoKeeps
<1> QED BY <1>2, Parts, LocalKeeps

LEMMA StampKeeps == ASSUME ImpactInv, NEW w \in Workers, Stamp(w) PROVE ImpactInv'
<1>1. CASE Holds(w)
  <2> DEFINE p == IF Projected(job[w].seen) THEN "look" ELSE "wait"
  <2>1. /\ stamp' = job[w].seen /\ Goto(w, p) /\ status = "RUNNING"
        /\ UNCHANGED <<status, owner, late, found, checkpoint, job, calls, faults>>
    BY <1>1 DEF Stamp, Holds
  <2>2. p \in Places /\ p \notin {"idle", "traverse", "lookAgain", "complete"}
    BY DEF Places, Executing
  <2>3. p = "look" => Projected(job[w].seen)
    OBVIOUS
  <2> HIDE DEF p
  <2>4. CallInv'
    BY <2>1, <2>2, <2>3, Parts, GotoKeeps
  <2>5. stamp' \in Nat
    BY <2>1, Parts, JobIsTyped
  <2>6. status' \in Statuses \ {"COMPLETE", "PARTIAL"}
    BY <2>1 DEF Statuses
  <2>7. RowInv'
    BY <2>1, <2>5, <2>6, Parts, RowSteps DEF RowTypes
  <2> QED BY <2>1, <2>4, <2>7 DEF ImpactInv, CountTypes
<1>2. CASE ~Holds(w)
  BY <1>2, MissKeeps DEF Stamp, row
<1> QED BY <1>1, <1>2

LEMMA WaitKeeps == ASSUME ImpactInv, NEW w \in Workers, Wait(w) PROVE ImpactInv'
<1>1. CASE Holds(w)
  <2>1. /\ status' = "WAITING_FOR_PROJECTION" /\ Leave(w)
        /\ UNCHANGED <<owner, late, stamp, found, checkpoint, calls, faults>>
    BY <1>1 DEF Wait
  <2>2. status' \in Statuses \ {"COMPLETE", "PARTIAL"} /\ status' # "RUNNING"
    BY <2>1 DEF Statuses
  <2>3. RowInv'
    BY <2>1, <2>2, Parts, RowSteps DEF RowTypes
  <2> QED BY <2>1, <2>3, Parts, LeaveKeeps DEF ImpactInv, CountTypes
<1>2. CASE ~Holds(w)
  BY <1>2, MissKeeps DEF Wait, row
<1> QED BY <1>1, <1>2

\* The walk goes on, or is over.
LEMMA WalkKeeps ==
  ASSUME ImpactInv, NEW w \in Workers, pc[w] \in {"look", "traverse"}, NEW walk \in Walks,
         \A s \in RootSets : WalkWithin(walk, s),
         Know(w, [job[w] EXCEPT !.walk = walk]),
         Goto(w, IF walk.status = "OPEN" THEN "traverse" ELSE "lookAgain"),
         UNCHANGED <<row, checkpoint, calls, faults>>
  PROVE  ImpactInv'
<1> DEFINE j == [job[w] EXCEPT !.walk = walk]
           p == IF walk.status = "OPEN" THEN "traverse" ELSE "lookAgain"
<1>1. /\ j \in Jobs /\ j.from = job[w].from /\ j.before = job[w].before /\ j.walk = walk
      /\ j.seen = job[w].seen /\ JobFits(pc[w], job[w])
  BY Parts, JobIsTyped DEF Jobs
<1>2. JobWithin(j) /\ Projected(j.seen)
  BY <1>1 DEF JobFits, JobWithin
<1>3. p \in Places /\ p \in {"traverse", "lookAgain"} /\ (p = "lookAgain" => j.walk.status # "OPEN")
  BY <1>1 DEF Places, Executing
<1>4. pc' = [pc EXCEPT ![w] = p] /\ job' = [job EXCEPT ![w] = j]
  BY DEF Goto, Know
<1> HIDE DEF j, p
<1>5. JobFits(p, j)
  BY <1>2, <1>3 DEF JobFits
<1>6. CallInv'
  BY <1>1, <1>3, <1>4, <1>5, Parts, CallSteps
<1> QED BY <1>6, Parts, LocalKeeps

LEMMA BeginKeeps == ASSUME ImpactInv, NEW w \in Workers, Begin(w) PROVE ImpactInv'
<1>1. CASE Cancelling
  <2>1. Goto(w, "cancel") /\ job' = job /\ "cancel" \in Places
    BY <1>1 DEF Begin, Places, Executing
  <2>2. CallInv'
    BY <2>1, Parts, GotoKeeps
  <2> QED BY <2>2, Parts, LocalKeeps DEF Begin
<1>2. CASE ~Cancelling
  <2>1. PICK walk \in Starts(job[w].from) :
          /\ Know(w, [job[w] EXCEPT !.walk = walk])
          /\ Goto(w, IF walk.status = "OPEN" THEN "traverse" ELSE "lookAgain")
    BY <1>2 DEF Begin
  <2>2. job[w].from \in SUBSET Nodes /\ JobWithin(job[w])
    BY Parts, JobIsTyped DEF JobFits
  <2>3. walk \in Walks /\ \A s \in RootSets : WalkWithin(walk, s)
    BY <2>2, StartsAreWithin DEF JobWithin
  <2> QED BY <2>1, <2>3, WalkKeeps DEF Begin
<1> QED BY <1>1, <1>2

LEMMA HopKeeps == ASSUME ImpactInv, NEW w \in Workers, Hop(w) PROVE ImpactInv'
<1>1. PICK walk \in Hops(job[w].walk) :
        /\ Know(w, [job[w] EXCEPT !.walk = walk])
        /\ Goto(w, IF walk.status = "OPEN" THEN "traverse" ELSE "lookAgain")
  BY DEF Hop
<1>2. job[w].walk \in Walks /\ JobWithin(job[w])
  BY Parts, JobIsTyped DEF JobFits
<1>3. walk \in Walks /\ \A s \in RootSets : WalkWithin(walk, s)
  BY <1>2, HopsAreWithin DEF JobWithin, RootSets
<1> QED BY <1>1, <1>3, WalkKeeps DEF Hop

LEMMA CompleteKeeps == ASSUME ImpactInv, NEW w \in Workers, Complete(w) PROVE ImpactInv'
<1>1. CASE Holds(w)
  <2> DEFINE walk == job[w].walk
  <2>1. /\ result' = job[w].before \cup Ends(walk.paths)
        /\ frontier' = walk.frontier /\ status' = walk.status /\ stamp' = job[w].seen
        /\ owner' = NoWorker /\ Leave(w) /\ forgotten' = job[w].lost \cup walk.cut
        /\ UNCHANGED <<late, checkpoint, calls, faults>>
    BY <1>1 DEF Complete, Composed, Found
  <2>2. /\ JobFits("complete", job[w])
        /\ walk \in Walks /\ job[w].before \subseteq Nodes /\ job[w].lost \subseteq Nodes
        /\ job[w].seen \in Nat
    BY Parts, JobIsTyped DEF Complete
  <2>3. /\ walk.status \in {"COMPLETE", "PARTIAL"} /\ walk.paths \subseteq Paths /\ walk.frontier \subseteq Nodes
        /\ walk.cut \subseteq Nodes
    BY <2>2 DEF JobFits, Walks
  <2>4. Ends(walk.paths) \subseteq Nodes
    BY <2>3, PathsEndInNodes DEF Ends
  <2>5. \A s \in RootSets :
          job[w].before \subseteq s /\ Ends(walk.paths) \subseteq s /\ walk.frontier \subseteq s
    BY <2>2 DEF JobFits, JobWithin, WalkWithin, Ends
  <2>6. job[w].seen >= Required
    BY <2>2 DEF JobFits, Projected
  <2> HIDE DEF walk
  <2>7. RowTypes'
    <3>1. status' \in Statuses /\ status' # "RUNNING"
      BY <2>1, <2>3 DEF Statuses
    <3>2. late' \in BOOLEAN /\ checkpoint' \in Nat
      BY <2>1, Parts DEF RowTypes
    <3> QED BY <3>1, <3>2, <2>1, <2>2, <2>3, <2>4 DEF RowTypes
  <2>8. EndedAsProjected' /\ RowWithin'
    BY <2>1, <2>5, <2>6 DEF EndedAsProjected, RowWithin, RootSets
  <2> QED BY <2>1, <2>7, <2>8, Parts, LeaveKeeps DEF ImpactInv, RowInv, CountTypes
<1>2. CASE ~Holds(w)
  BY <1>2, MissKeeps DEF Complete, row
<1> QED BY <1>1, <1>2

LEMMA FailKeeps == ASSUME ImpactInv, NEW w \in Workers, Fail(w) PROVE ImpactInv'
<1>1. CASE Holds(w)
  <2>1. /\ status' = "FAILED" /\ owner' = NoWorker /\ Leave(w)
        /\ UNCHANGED <<late, stamp, found, checkpoint, calls, faults>>
    BY <1>1 DEF Fail
  <2>2. status' \in Statuses \ {"COMPLETE", "PARTIAL"} /\ status' # "RUNNING"
    BY <2>1 DEF Statuses
  <2>3. RowInv'
    BY <2>1, <2>2, Parts, RowSteps DEF RowTypes
  <2> QED BY <2>1, <2>3, Parts, LeaveKeeps DEF ImpactInv, CountTypes
<1>2. CASE ~Holds(w)
  BY <1>2, MissKeeps DEF Fail, row
<1> QED BY <1>1, <1>2

LEMMA MissedKeeps == ASSUME ImpactInv, NEW w \in Workers, Missed(w) PROVE ImpactInv'
<1>1. CallInv'
  <2>1. CASE Cancelling
    <3>1. Goto(w, "cancel") /\ job' = job /\ "cancel" \in Places
      BY <2>1 DEF Missed, Places, Executing
    <3> QED BY <3>1, Parts, GotoKeeps
  <2>2. CASE ~Cancelling
    BY <2>2, Parts, LeaveKeeps DEF Missed
  <2> QED BY <2>1, <2>2
<1> QED BY <1>1, Parts, LocalKeeps DEF Missed

LEMMA CancelKeeps == ASSUME ImpactInv, NEW w \in Workers, Cancel(w) PROVE ImpactInv'
<1>1. RowInv'
  <2>1. CASE status' = "CANCELLED" /\ owner' = NoWorker
    <3>1. status' \in Statuses \ {"COMPLETE", "PARTIAL"} /\ status' # "RUNNING"
      BY <2>1 DEF Statuses
    <3> QED BY <2>1, <3>1, Parts, RowSteps DEF Cancel, RowTypes
  <2>2. CASE UNCHANGED <<status, owner>>
    BY <2>2, Parts, RowRests DEF Cancel, row, RowTypes
  <2> QED BY <2>1, <2>2 DEF Cancel
<1> QED BY <1>1, Parts, LeaveKeeps DEF Cancel, ImpactInv, CountTypes

-----------------------------------------------------------------------------
(* Around the calls                                                        *)

LEMMA RequestCancelKeeps == ASSUME ImpactInv, RequestCancel PROVE ImpactInv'
<1>1. status' \in Statuses \ {"COMPLETE", "PARTIAL"} /\ status' # "RUNNING"
  BY DEF RequestCancel, Statuses
<1>2. RowInv'
  BY <1>1, Parts, RowSteps DEF RequestCancel, RowTypes
<1> QED BY <1>2, Parts, CallsRest DEF RequestCancel, ImpactInv, CountTypes

LEMMA ProjectKeeps == ASSUME ImpactInv, Project PROVE ImpactInv'
<1>1. checkpoint' \in Nat
  BY Parts DEF Project, RowTypes
<1>2. RowInv'
  BY <1>1, Parts, RowRests DEF Project
<1> QED BY <1>2, Parts, CallsRest DEF Project, ImpactInv, CountTypes

LEMMA LeaseExpiresKeeps == ASSUME ImpactInv, LeaseExpires PROVE ImpactInv'
<1>1. late' \in BOOLEAN
  BY Zenon DEF LeaseExpires
<1>2. status' \in Statuses \ {"COMPLETE", "PARTIAL"}
  BY DEF LeaseExpires, Statuses
<1>3. RowInv'
  BY <1>1, <1>2, Parts, RowSteps DEF LeaseExpires, RowTypes
<1>4. faults' \in 0 .. MaxFaults
  BY Parts, ImpactAssumption DEF LeaseExpires, Fault
<1> QED BY <1>3, <1>4, Parts, CallsRest DEF LeaseExpires, ImpactInv, CountTypes

LEMMA ThrowsKeeps == ASSUME ImpactInv, NEW w \in Workers, Throws(w) \/ Crash(w) PROVE ImpactInv'
<1>1. faults' \in 0 .. MaxFaults
  BY Parts, ImpactAssumption DEF Throws, Crash, Fault
<1>2. (Goto(w, "fail") /\ job' = job) \/ Leave(w)
  BY DEF Throws, Crash
<1>3. "fail" \in Places
  BY DEF Places, Executing
<1>4. CallInv'
  BY <1>2, <1>3, Parts, GotoKeeps, LeaveKeeps
<1> QED BY <1>1, <1>4, Parts, LocalKeeps DEF Throws, Crash

LEMMA ImpactInvNext == ASSUME ImpactInv, [Next]_vars PROVE ImpactInv'
<1>1. ASSUME NEW w \in Workers, Execute(w) PROVE ImpactInv'
  <2>1. CASE ReadCheckpoint(w) \/ Stamp(w) \/ Wait(w) \/ Begin(w) \/ Hop(w)
    BY <2>1, ReadCheckpointKeeps, StampKeeps, WaitKeeps, BeginKeeps, HopKeeps
  <2>2. CASE Look(w, "lookAgain", "complete")
    BY <2>2, LookKeeps
  <2>3. CASE Complete(w) \/ Fail(w) \/ Missed(w) \/ Cancel(w)
    BY <2>3, CompleteKeeps, FailKeeps, MissedKeeps, CancelKeeps
  <2> QED BY <1>1, <2>1, <2>2, <2>3 DEF Execute
<1>2. ASSUME NEW w \in Workers, Step(w) PROVE ImpactInv'
  <2>1. CASE LoadPersisted(w) \/ Requeue(w) \/ Claim(w)
    BY <2>1, LoadPersistedKeeps, RequeueKeeps, ClaimKeeps
  <2>2. CASE Look(w, "check", "claim")
    BY <2>2, LookKeeps
  <2> QED BY <1>1, <1>2, <2>1, <2>2 DEF Step
<1>3. CASE UNCHANGED vars
  <2>1. UNCHANGED <<row, checkpoint, pc, job, calls, faults>>
    BY <1>3 DEF vars
  <2> QED BY <2>1, Parts, CallsRest, LocalKeeps
<1> QED BY <1>2, <1>3, RequestCancelKeeps, ProjectKeeps, LeaseExpiresKeeps, CallsKeep, ThrowsKeeps
     DEF Next

LEMMA InvariantHolds == Spec => []ImpactInv
<1> QED BY ImpactInvInit, ImpactInvNext, PTL DEF Spec

-----------------------------------------------------------------------------
(* Without the lease                                                       *)

\* What changes the row of a run comes from the call at that place.
LEMMA FencedSteps ==
  ASSUME ImpactInv, NEW v \in Workers, Step(v), row' # row
  PROVE  pc[v] \in {"requeue", "claim", "cancel"} \/ Holds(v)
<1>1. ASSUME NEW at, NEW next, Look(v, at, next) PROVE FALSE
  BY <1>1 DEF Look
<1>2. CASE LoadPersisted(v) \/ Requeue(v) \/ Claim(v)
  BY <1>2 DEF LoadPersisted, Requeue, Claim
<1>3. CASE ReadCheckpoint(v) \/ Begin(v) \/ Hop(v) \/ Missed(v) \/ Cancel(v)
  BY <1>3 DEF ReadCheckpoint, Begin, Hop, Missed, Cancel
<1>4. CASE Stamp(v) \/ Wait(v) \/ Complete(v) \/ Fail(v)
  BY <1>4 DEF Stamp, Wait, Complete, Fail, row
<1> QED BY <1>1, <1>2, <1>3, <1>4 DEF Step, Execute

\* No other call moves.
LEMMA OthersStay ==
  ASSUME ImpactInv, NEW v \in Workers,
         Run(v) \/ Resume(v) \/ RetryRun(v) \/ Step(v) \/ Throws(v) \/ Crash(v),
         NEW w \in Workers, w # v
  PROVE  pc'[w] = pc[w]
<1>1. pc \in [Workers -> Places]
  BY Parts DEF CallInv
<1>2. \E p : Goto(v, p)
  <2>1. CASE Run(v) \/ Resume(v) \/ RetryRun(v)
    BY <2>1 DEF Run, Resume, RetryRun, Call
  <2>2. CASE Throws(v) \/ Crash(v)
    BY <2>2 DEF Throws, Crash, Leave
  <2>3. CASE LoadPersisted(v) \/ Requeue(v) \/ Look(v, "check", "claim") \/ Claim(v)
    BY <2>3 DEF LoadPersisted, Requeue, Look, Claim, Leave
  <2>4. CASE ReadCheckpoint(v) \/ Stamp(v) \/ Wait(v) \/ Begin(v) \/ Hop(v)
    BY <2>4 DEF ReadCheckpoint, Stamp, Wait, Begin, Hop, Leave
  <2>5. CASE Look(v, "lookAgain", "complete") \/ Complete(v) \/ Fail(v) \/ Missed(v) \/ Cancel(v)
    BY <2>5 DEF Look, Complete, Fail, Missed, Cancel, Leave
  <2> QED BY <2>1, <2>2, <2>3, <2>4, <2>5 DEF Step, Execute
<1> QED BY <1>1, <1>2 DEF Goto

LEMMA StepsAreFenced ==
  ASSUME ImpactInv, [Next]_vars, NEW w \in Workers,
         pc[w] \in Executing \ {"cancel"}, pc'[w] # pc[w], row' # row
  PROVE  owner = w /\ ~late
<1>1. CASE RequestCancel \/ Project \/ LeaseExpires \/ UNCHANGED vars
  BY <1>1 DEF RequestCancel, Project, LeaseExpires, vars
<1>2. ASSUME NEW v \in Workers,
             Run(v) \/ Resume(v) \/ RetryRun(v) \/ Step(v) \/ Throws(v) \/ Crash(v)
      PROVE  owner = w /\ ~late
  <2>1. v = w
    BY <1>2, OthersStay
  <2>2. Step(w)
    BY <1>2, <2>1 DEF Run, Resume, RetryRun, Call, Throws, Crash
  <2>3. pc[w] \notin {"requeue", "claim", "cancel"}
    BY DEF Executing
  <2> QED BY <2>2, <2>3, FencedSteps DEF Holds
<1> QED BY <1>1, <1>2 DEF Next

-----------------------------------------------------------------------------
(* Theorems                                                                *)

LEMMA TypesFollow == ASSUME ImpactInv PROVE TypeOK
<1>1. \A w \in Workers : pc[w] = "idle" => job[w] = NoJob
  BY Parts DEF CallInv, JobFits
<1> QED BY <1>1, Parts DEF RowTypes, CallInv, TypeOK

\* The row of a run, what its calls know and every walk of the graph keep
\* their types, and a call that is over knows nothing.
THEOREM ImpactTypesAreKept == Spec => []TypeOK
<1>1. ImpactInv => TypeOK
  BY TypesFollow
<1> QED BY <1>1, InvariantHolds, PTL

\* For any graph, budgets, calls and failures the results of a run can be
\* reached from its roots, also when they are put together by resume.
THEOREM ResultsAreReachable == Spec => []OnlyReachable
<1>1. ImpactInv => OnlyReachable
  BY Parts DEF RowWithin, RootSets, OnlyReachable, Reached
<1> QED BY <1>1, InvariantHolds, PTL

\* A run ends COMPLETE or PARTIAL only with a projection as new as required,
\* whoever ended it and whatever the projector did meanwhile.
THEOREM EndedRunsSawTheProjection == Spec => []EndedAsProjected
<1>1. ImpactInv => EndedAsProjected
  BY Parts
<1> QED BY <1>1, InvariantHolds, PTL

\* A call whose lease has passed to another or has ended changes nothing of
\* the run from inside execute, but to cancel it.
THEOREM LostLeasesAreLost == Spec => LostLeaseIsLost
<1>1. ASSUME ImpactInv, [Next]_vars
      PROVE  [\A w \in Workers :
                pc[w] \in Executing \ {"cancel"} /\ pc'[w] # pc[w] /\ row' # row
                  => owner = w /\ ~late]_vars
  BY <1>1, StepsAreFenced
<1> QED BY <1>1, InvariantHolds, PTL DEF Spec, LostLeaseIsLost

-----------------------------------------------------------------------------
(* What a walk leaves to the next                                          *)

\* What has not been followed up: the ends of the queue of a walk that goes on,
\* the frontier of one that is over, and what it has cut off
Owed(walk) == Ends(walk.queue) \cup walk.frontier \cup walk.cut

\* From what was found and what is owed nothing leads away, but what is owed.
Leads(nodes, owed, from) ==
  /\ from \subseteq nodes \cup owed
  /\ \A n \in nodes : n \in owed \/ Edges[n] \subseteq nodes \cup owed

WalkGoesOn(walk) ==
  /\ walk.frontier = {} /\ walk.cut = {}
  /\ walk.queue \subseteq walk.paths
  /\ \A p \in walk.paths : Range(p) \subseteq Found(walk)

WalkIsOver(walk) ==
  /\ walk.queue = {}
  /\ walk.status = "COMPLETE" => walk.frontier = {}

WalkSound(walk, from) ==
  /\ Leads(Found(walk), Owed(walk), from)
  /\ IF walk.status = "OPEN" THEN WalkGoesOn(walk) ELSE WalkIsOver(walk)

\* A path with one node more
LEMMA CandidateIsLonger ==
  ASSUME NEW p \in Paths, NEW n \in Nodes
  PROVE  Last(Append(p, n)) = n /\ Range(Append(p, n)) = Range(p) \cup {n}
<1>1. p \in Seq(Nodes) /\ Len(p) \in Nat
  BY LenProperties DEF Paths
<1> DEFINE q == Append(p, n)
<1>2. /\ q \in Seq(Nodes) /\ Len(q) = Len(p) + 1 /\ q[Len(p) + 1] = n
      /\ \A i \in 1 .. Len(p) : q[i] = p[i]
  BY <1>1, AppendProperties
<1>3. Last(q) = n
  BY <1>1, <1>2 DEF Last
<1>4. DOMAIN p = 1 .. Len(p) /\ DOMAIN q = 1 .. Len(p) + 1
  BY <1>1, <1>2, LenProperties
<1>5. Range(q) = Range(p) \cup {n}
  <2> HIDE DEF q
  <2>1. 1 .. Len(p) + 1 = (1 .. Len(p)) \cup {Len(p) + 1}
    BY <1>1
  <2>2. ASSUME NEW x \in Range(q) PROVE x \in Range(p) \cup {n}
    BY <1>2, <1>4, <2>1 DEF Range
  <2>3. ASSUME NEW x \in Range(p) \cup {n} PROVE x \in Range(q)
    BY <1>2, <1>4, <2>1 DEF Range
  <2> QED BY <2>2, <2>3
<1> QED BY <1>3, <1>5

\* The candidates are all that a path leads to and that is not on it.
LEMMA CandidatesAre ==
  ASSUME NEW p \in Paths
  PROVE  /\ \A n \in Edges[Last(p)] : n \in Range(p) \/ n \in Ends(Candidates(p))
         /\ \A c \in Candidates(p) : Range(c) = Range(p) \cup {Last(c)}
<1>1. Last(p) \in Nodes
  BY PathsEndInNodes
<1>2. Edges[Last(p)] \subseteq Nodes
  BY <1>1, TraversalAssumption
<1>3. ASSUME NEW n \in Edges[Last(p)], n \notin Range(p) PROVE n \in Ends(Candidates(p))
  <2>1. Append(p, n) \in Candidates(p) /\ Last(Append(p, n)) = n
    BY <1>2, <1>3, CandidateIsLonger DEF Candidates
  <2> QED BY <2>1 DEF Ends
<1>4. ASSUME NEW c \in Candidates(p) PROVE Range(c) = Range(p) \cup {Last(c)}
  <2>1. PICK n \in Edges[Last(p)] : c = Append(p, n)
    BY DEF Candidates
  <2> QED BY <1>2, <2>1, CandidateIsLonger
<1> QED BY <1>3, <1>4

LEMMA FoundGrows ==
  ASSUME NEW paths, NEW taken
  PROVE  Ends(paths \cup taken) = Ends(paths) \cup Ends(taken)
BY DEF Ends

LEMMA WalkFields ==
  ASSUME NEW st, NEW paths, NEW queue, NEW fr, NEW ct, NEW walk, walk = Walk(st, paths, queue, fr, ct)
  PROVE  /\ walk.status = st /\ walk.paths = paths /\ walk.queue = queue
         /\ walk.frontier = fr /\ walk.cut = ct
         /\ Found(walk) = Ends(paths) /\ Owed(walk) = Ends(queue) \cup fr \cup ct
BY DEF Walk, Found, Owed

\* With too many start nodes, those that are found are cut off.
LEMMA StartsAreSound ==
  ASSUME NEW from \in SUBSET Nodes, NEW walk \in Starts(from)
  PROVE  WalkSound(walk, from)
<1>1. \/ walk = Walk("PARTIAL", {}, {}, from, {})
      \/ walk = Walk("OPEN", Alone(from), Alone(from), {}, {})
      \/ \E first \in SUBSET from : walk = Walk("PARTIAL", Alone(first), {}, from \ first, first)
  BY DEF Starts
<1>2. Ends({}) = {}
  BY DEF Ends
<1>3. ASSUME NEW nodes \in SUBSET Nodes PROVE Ends(Alone(nodes)) = nodes
  <2>1. \A n \in nodes : <<n>> \in Alone(nodes) /\ Last(<<n>>) = n
    BY AloneIsPaths DEF Last, Alone
  <2>2. \A p \in Alone(nodes) : Last(p) \in nodes
    BY AloneIsPaths
  <2> QED BY <2>1, <2>2 DEF Ends
<1>4. CASE walk = Walk("PARTIAL", {}, {}, from, {})
  <2>1. Found(walk) = {} /\ Owed(walk) = from /\ walk.status = "PARTIAL" /\ walk.queue = {}
    <3>1. /\ walk.status = "PARTIAL" /\ walk.queue = {}
          /\ Found(walk) = Ends({}) /\ Owed(walk) = Ends({}) \cup from \cup {}
      BY <1>4 DEF Walk, Found, Owed
    <3> QED BY <1>2, <3>1
  <2> QED BY <2>1 DEF WalkSound, WalkIsOver, Leads
<1>5. CASE walk = Walk("OPEN", Alone(from), Alone(from), {}, {})
  <2>1. /\ walk.status = "OPEN" /\ walk.paths = Alone(from) /\ walk.queue = Alone(from)
        /\ walk.frontier = {} /\ walk.cut = {} /\ Found(walk) = from /\ Owed(walk) = from
    <3>1. /\ walk.status = "OPEN" /\ walk.paths = Alone(from) /\ walk.queue = Alone(from)
          /\ walk.frontier = {} /\ walk.cut = {}
          /\ Found(walk) = Ends(Alone(from)) /\ Owed(walk) = Ends(Alone(from)) \cup {} \cup {}
      BY <1>5 DEF Walk, Found, Owed
    <3> QED BY <1>3, <3>1
  <2>2. \A p \in Alone(from) : Range(p) \subseteq from
    BY DEF Alone, Range
  <2> QED BY <2>1, <2>2 DEF WalkSound, WalkGoesOn, Leads
<1>6. ASSUME NEW first \in SUBSET from, walk = Walk("PARTIAL", Alone(first), {}, from \ first, first)
      PROVE  WalkSound(walk, from)
  <2>1. Ends(Alone(first)) = first
    BY <1>3
  <2>2. /\ Found(walk) = first /\ Owed(walk) = {} \cup (from \ first) \cup first
        /\ walk.status = "PARTIAL" /\ walk.queue = {}
    BY <1>2, <1>6, <2>1, WalkFields
  <2> QED BY <2>2 DEF WalkSound, WalkIsOver, Leads
<1> QED BY <1>1, <1>4, <1>5, <1>6

\* Where the loop is when it turns to a path
LEMMA WalksAreOpen ==
  ASSUME NEW from, NEW walk \in Walks, walk.status = "OPEN", WalkSound(walk, from),
         NEW path \in walk.queue
  PROVE  /\ path \in Paths /\ path \in walk.paths /\ Range(path) \subseteq Ends(walk.paths)
         /\ Ends(walk.queue) \subseteq Ends(walk.paths)
         /\ from \subseteq Ends(walk.paths)
         /\ \A n \in Ends(walk.paths) : n \in Ends(walk.queue) \/ Edges[n] \subseteq Ends(walk.paths)
         /\ Edges[Last(path)] \subseteq Ends(walk.paths) \cup Ends(Candidates(path))
<1>1. WalkGoesOn(walk) /\ Leads(Found(walk), Owed(walk), from)
  BY DEF WalkSound
<1>2. Found(walk) = Ends(walk.paths) /\ Owed(walk) = Ends(walk.queue)
  BY <1>1 DEF Found, Owed, WalkGoesOn
<1>3. path \in Paths /\ path \in walk.paths /\ Range(path) \subseteq Ends(walk.paths)
  BY <1>1, <1>2 DEF Walks, WalkGoesOn
<1>4. Ends(walk.queue) \subseteq Ends(walk.paths)
  BY <1>1 DEF Ends, WalkGoesOn
<1>5. Edges[Last(path)] \subseteq Ends(walk.paths) \cup Ends(Candidates(path))
  BY <1>3, CandidatesAre
<1> QED BY <1>1, <1>2, <1>3, <1>4, <1>5 DEF Leads

\* A walk that stops owes what waits, and of the path that it stops at the end,
\* or every candidate that was not taken.
LEMMA StopsAreSound ==
  ASSUME NEW from \in SUBSET Nodes,
         NEW walk \in Walks, walk.status = "OPEN", WalkSound(walk, from), NEW path \in walk.queue,
         NEW taken \in SUBSET Candidates(path), NEW fr, NEW ct,
         Ends((walk.queue \ {path}) \cup taken) \subseteq fr \cup ct,
         Last(path) \in fr \/ Ends(Candidates(path)) \subseteq Ends(taken) \cup fr \cup ct,
         NEW next, next = Stopped(walk, taken, fr, ct)
  PROVE  WalkSound(next, from)
<1> DEFINE all == walk.paths \cup taken
           wait == (walk.queue \ {path}) \cup taken
           owed == fr \cup ct
<1>1. /\ next.status = "PARTIAL" /\ next.queue = {}
      /\ Found(next) = Ends(all) /\ Owed(next) = owed
  <2>1. Ends({}) = {}
    BY DEF Ends
  <2>2. Ends({}) \cup fr \cup ct = fr \cup ct
    BY <2>1
  <2> QED BY <2>2, WalkFields DEF Stopped
<1>2. /\ Ends(all) = Ends(walk.paths) \cup Ends(taken)
      /\ Ends(wait) = Ends(walk.queue \ {path}) \cup Ends(taken) /\ Ends(wait) \subseteq owed
  BY FoundGrows
<1>3. /\ from \subseteq Ends(walk.paths)
      /\ \A n \in Ends(walk.paths) : n \in Ends(walk.queue) \/ Edges[n] \subseteq Ends(walk.paths)
      /\ Edges[Last(path)] \subseteq Ends(walk.paths) \cup Ends(Candidates(path))
  BY WalksAreOpen
<1>4. Last(path) \in owed \/ Ends(Candidates(path)) \subseteq Ends(taken) \cup owed
  OBVIOUS
<1>5. \A n \in Ends(walk.queue) : n = Last(path) \/ n \in Ends(wait)
  BY DEF Ends
<1> HIDE DEF all, wait, owed
<1>6. ASSUME NEW n \in Ends(all), n \notin owed PROVE Edges[n] \subseteq Ends(all) \cup owed
  <2>1. n \in Ends(walk.paths) /\ n \notin Ends(wait)
    BY <1>2, <1>6
  <2>2. CASE n = Last(path)
    BY <1>2, <1>3, <1>4, <1>6, <2>2
  <2>3. CASE n # Last(path)
    BY <1>2, <1>3, <1>5, <2>1, <2>3
  <2> QED BY <2>2, <2>3
<1>7. Leads(Ends(all), owed, from)
  BY <1>2, <1>3, <1>6 DEF Leads
<1> QED BY <1>1, <1>7 DEF WalkSound, WalkIsOver

\* A walk that goes on has followed every way that leads from the end of a path.
LEMMA ExpandingIsSound ==
  ASSUME NEW from \in SUBSET Nodes,
         NEW walk \in Walks, walk.status = "OPEN", WalkSound(walk, from), NEW path \in walk.queue,
         NEW taken, taken = Candidates(path), NEW next,
         next = Walk("OPEN", walk.paths \cup taken, (walk.queue \ {path}) \cup taken, {}, {})
  PROVE  WalkSound(next, from)
<1> DEFINE wait == (walk.queue \ {path}) \cup taken
           all == walk.paths \cup taken
<1>1. /\ next.status = "OPEN" /\ next.paths = all /\ next.queue = wait /\ next.frontier = {}
      /\ next.cut = {} /\ Found(next) = Ends(all) /\ Owed(next) = Ends(wait)
  <2>1. /\ next.status = "OPEN" /\ next.paths = all /\ next.queue = wait /\ next.frontier = {}
        /\ next.cut = {} /\ Found(next) = Ends(all) /\ Owed(next) = Ends(wait) \cup {} \cup {}
    BY DEF Walk, Found, Owed
  <2> HIDE DEF all, wait
  <2> QED BY <2>1
<1>2. /\ Ends(all) = Ends(walk.paths) \cup Ends(taken)
      /\ Ends(wait) = Ends(walk.queue \ {path}) \cup Ends(taken)
  BY FoundGrows
<1>3. /\ path \in Paths /\ path \in walk.paths /\ Range(path) \subseteq Ends(walk.paths)
      /\ from \subseteq Ends(walk.paths)
      /\ \A n \in Ends(walk.paths) : n \in Ends(walk.queue) \/ Edges[n] \subseteq Ends(walk.paths)
      /\ Edges[Last(path)] \subseteq Ends(walk.paths) \cup Ends(taken)
  BY WalksAreOpen
<1>4. \A n \in Ends(walk.queue) : n = Last(path) \/ n \in Ends(wait)
  BY DEF Ends
<1>5. Leads(Ends(all), Ends(wait), from)
  <2> HIDE DEF all, wait
  <2>1. ASSUME NEW n \in Ends(all), n \notin Ends(wait) PROVE Edges[n] \subseteq Ends(all)
    <3>1. n \in Ends(walk.paths)
      BY <1>2, <2>1
    <3>2. CASE n = Last(path)
      BY <1>2, <1>3, <3>2
    <3>3. CASE n # Last(path)
      BY <1>2, <1>3, <1>4, <2>1, <3>1, <3>3
    <3> QED BY <3>2, <3>3
  <2> QED BY <1>2, <1>3, <2>1 DEF Leads
<1>6. \A p \in all : Range(p) \subseteq Ends(all)
  <2>1. \A p \in walk.paths : Range(p) \subseteq Ends(all)
    BY <1>2 DEF WalkSound, WalkGoesOn, Found
  <2>2. ASSUME NEW p \in taken PROVE Range(p) \subseteq Ends(all)
    <3>1. Range(p) = Range(path) \cup {Last(p)}
      BY <1>3, CandidatesAre
    <3>2. Last(p) \in Ends(all)
      BY DEF Ends
    <3> QED BY <1>3, <2>1, <3>1, <3>2
  <2> QED BY <2>1, <2>2
<1>7. wait \subseteq all
  BY DEF WalkSound, WalkGoesOn
<1> HIDE DEF all, wait
<1>8. WalkGoesOn(next)
  BY <1>1, <1>6, <1>7 DEF WalkGoesOn
<1> QED BY <1>1, <1>5, <1>8 DEF WalkSound

\* Every turn of the loop, whichever budget it meets
LEMMA TurnsAreSound ==
  ASSUME NEW from \in SUBSET Nodes,
         NEW walk \in Walks, walk.status = "OPEN", WalkSound(walk, from), NEW path \in walk.queue,
         NEW next \in Turns(walk, path)
  PROVE  WalkSound(next, from)
<1>1. CASE next \in TimedOut(walk, path) \cup NodesRunOut(walk, path) \cup {Stopped(walk, {}, Left(walk, path, {}), {})}
  <2>1. PICK taken \in SUBSET Candidates(path) : next = Stopped(walk, taken, Left(walk, path, taken), {})
    BY <1>1 DEF TimedOut, NodesRunOut, Takes
  <2>2. PICK fr : fr = Left(walk, path, taken)
    OBVIOUS
  <2>3. Ends((walk.queue \ {path}) \cup taken) \subseteq fr \cup {} /\ Last(path) \in fr
    BY <2>2 DEF Left
  <2>4. PICK ct : ct = {}
    OBVIOUS
  <2> QED BY <2>1, <2>2, <2>3, <2>4, StopsAreSound
<1>2. CASE next \in PathsRunOut(walk, path)
  <2>1. PICK taken \in SUBSET Candidates(path), c \in Candidates(path) :
          next = Stopped(walk, taken, {Last(c)} \cup Ends((walk.queue \ {path}) \cup taken),
                         Ends(Candidates(path) \ (taken \cup {c})))
    BY <1>2 DEF PathsRunOut, Takes
  <2>2. PICK fr, ct : /\ fr = {Last(c)} \cup Ends((walk.queue \ {path}) \cup taken)
                      /\ ct = Ends(Candidates(path) \ (taken \cup {c}))
    OBVIOUS
  <2>3. Ends((walk.queue \ {path}) \cup taken) \subseteq fr \cup ct
    BY <2>2
  <2>4. Ends(Candidates(path)) \subseteq Ends(taken) \cup fr \cup ct
    BY <2>2 DEF Ends
  <2> QED BY <2>1, <2>2, <2>3, <2>4, StopsAreSound
<1>3. CASE next \in Expanded(walk, path)
  BY <1>3, ExpandingIsSound DEF Expanded
<1>4. CASE Candidates(path) = {} /\ next = Walk("OPEN", walk.paths, walk.queue \ {path}, {}, {})
  <2>1. next = Walk("OPEN", walk.paths \cup Candidates(path), (walk.queue \ {path}) \cup Candidates(path), {}, {})
    <3>1. walk.paths = walk.paths \cup {} /\ walk.queue \ {path} = (walk.queue \ {path}) \cup {}
      OBVIOUS
    <3> QED BY <1>4, <3>1
  <2> QED BY <2>1, ExpandingIsSound
<1> QED BY <1>1, <1>2, <1>3, <1>4 DEF Turns

LEMMA HopsAreSound ==
  ASSUME NEW from \in SUBSET Nodes,
         NEW walk \in Walks, walk.status = "OPEN", WalkSound(walk, from), NEW next \in Hops(walk)
  PROVE  WalkSound(next, from)
<1>1. CASE walk.queue = {}
  <2>1. /\ next.status = "COMPLETE" /\ next.queue = {} /\ next.frontier = {}
        /\ Found(next) = Found(walk) /\ Owed(next) = Ends({}) \cup {} \cup {}
    BY <1>1, WalkFields DEF Hops, Found
  <2>2. Owed(walk) = Owed(next)
    BY <1>1, <2>1 DEF WalkSound, WalkGoesOn, Owed
  <2> QED BY <2>1, <2>2 DEF WalkSound, WalkIsOver
<1>2. CASE walk.queue # {}
  <2>1. PICK path \in walk.queue : next \in Turns(walk, path)
    BY <1>2 DEF Hops, Heads
  <2> QED BY <2>1, TurnsAreSound
<1> QED BY <1>1, <1>2

-----------------------------------------------------------------------------
(* Results put together                                                    *)

\* What is found from a frontier completes the results it belongs to; what was
\* not followed from there is still missing.
LEMMA CoversComposes ==
  ASSUME NEW before, NEW from, NEW lost, NEW roots, Covers(before, from \cup lost, roots),
         NEW nodes \in SUBSET Nodes, NEW owed, Leads(nodes, owed, from)
  PROVE  Covers(before \cup nodes, owed \cup lost, roots)
<1> SUFFICES ASSUME NEW s \in SUBSET Nodes, owed \cup lost \subseteq s, Closed(s)
             PROVE  roots \subseteq (before \cup nodes) \cup s /\ Closed((before \cup nodes) \cup s)
  BY DEF Covers
<1>1. nodes \cup s \in SUBSET Nodes /\ from \cup lost \subseteq nodes \cup s
  BY DEF Leads
<1>2. Closed(nodes \cup s)
  <2>1. ASSUME NEW n \in nodes \cup s PROVE Edges[n] \subseteq nodes \cup s
    BY DEF Leads, Closed
  <2> QED BY <2>1 DEF Closed
<1>3. roots \subseteq before \cup (nodes \cup s) /\ Closed(before \cup (nodes \cup s))
  BY <1>1, <1>2 DEF Covers
<1>4. before \cup (nodes \cup s) = (before \cup nodes) \cup s
  OBVIOUS
<1> QED BY <1>3, <1>4

\* More to follow takes nothing from what is covered.
LEMMA CoversMore ==
  ASSUME NEW nodes, NEW others, NEW roots, Covers(nodes, others, roots), NEW more, others \subseteq more
  PROVE  Covers(nodes, more, roots)
BY DEF Covers

LEMMA RootsCover == Covers({}, Roots \cup {}, Roots)
BY DEF Covers

-----------------------------------------------------------------------------
(* Results and their frontier                                              *)

Covered == Covers(result, frontier \cup forgotten, Roots)

\* Before it has read the results that it adds to, a call knows nothing of
\* them; then they and what it starts from cover the roots, but for what is lost.
JobSound(place, j) ==
  /\ place \notin {"idle", "history"} => Covers(j.before, j.from \cup j.lost, Roots)
  /\ place = "traverse" => j.walk.status = "OPEN"
  /\ place \in {"traverse", "lookAgain", "complete"} => WalkSound(j.walk, j.from)

\* The results of a run are covered from its first end on, and nobody resumes
\* a run before.
CoverInv ==
  /\ Ended \/ (\E w \in Workers : pc[w] = "history") => Covered
  /\ status = "COMPLETE" => frontier = {}
  /\ \A w \in Workers : JobSound(pc[w], job[w])

LEMMA CoverInit == Init => CoverInv
<1> SUFFICES ASSUME Init PROVE CoverInv
  OBVIOUS
<1>1. /\ ~ Ended /\ status # "COMPLETE"
      /\ \A w \in Workers : pc[w] = "idle" /\ job[w] = NoJob
  BY DEF Init, Ended
<1> HIDE DEF NoJob
<1> QED BY <1>1 DEF CoverInv, JobSound

\* A step of one call that does not end an analysis
LEMMA CoverSteps ==
  ASSUME ImpactInv, CoverInv, NEW w \in Workers, NEW p, NEW j,
         pc' = [pc EXCEPT ![w] = p],
         job' = [job EXCEPT ![w] = j] \/ (job' = job /\ j = job[w]),
         JobSound(p, j), p = "history" => Covered,
         UNCHANGED found, status' \in {"COMPLETE", "PARTIAL"} => status' = status
  PROVE  CoverInv'
<1>1. pc \in [Workers -> Places] /\ job \in [Workers -> Jobs]
  BY Parts DEF CallInv
<1>2. /\ pc'[w] = p /\ job'[w] = j
      /\ \A v \in Workers : v # w => pc'[v] = pc[v] /\ job'[v] = job[v]
  BY <1>1
<1>3. \A v \in Workers : JobSound(pc'[v], job'[v])
  BY <1>2 DEF CoverInv
<1>4. Ended' \/ (\E v \in Workers : pc'[v] = "history") => Covered
  BY <1>2 DEF CoverInv, Ended
<1>5. Covered => Covered'
  BY DEF Covered, found
<1>6. (status = "COMPLETE" => frontier = {})'
  BY DEF CoverInv, found
<1>7. (\A v \in Workers : JobSound(pc[v], job[v]))'
  BY <1>3 DEF JobSound, Covers, Closed, WalkSound, Leads, WalkGoesOn, WalkIsOver, Owed, Found
<1> QED BY <1>4, <1>5, <1>6, <1>7 DEF CoverInv

LEMMA CoverRests ==
  ASSUME CoverInv, UNCHANGED <<pc, job, found>>,
         status' \in {"COMPLETE", "PARTIAL"} => status' = status
  PROVE  CoverInv'
<1>1. (\A v \in Workers : JobSound(pc[v], job[v]))'
  BY DEF CoverInv
<1>2. Ended' \/ (\E v \in Workers : pc'[v] = "history") => Covered
  BY DEF CoverInv, Ended
<1>3. Covered => Covered'
  BY DEF Covered, found
<1>4. (status = "COMPLETE" => frontier = {})'
  BY DEF CoverInv, found
<1> QED BY <1>1, <1>2, <1>3, <1>4 DEF CoverInv

\* A call that goes on with what it knows
LEMMA CoverMoves ==
  ASSUME ImpactInv, CoverInv, NEW w \in Workers, NEW p, Goto(w, p), job' = job,
         pc[w] \notin {"idle", "history"}, p \notin {"idle", "history", "traverse"},
         p \in {"lookAgain", "complete"} => pc[w] \in {"lookAgain", "complete"},
         UNCHANGED found, status' \in {"COMPLETE", "PARTIAL"} => status' = status
  PROVE  CoverInv'
<1>1. JobSound(pc[w], job[w])
  BY DEF CoverInv
<1>2. JobSound(p, job[w])
  BY <1>1 DEF JobSound
<1> QED BY <1>2, CoverSteps DEF Goto

LEMMA CoverLeaves ==
  ASSUME ImpactInv, CoverInv, NEW w \in Workers, Leave(w),
         UNCHANGED found, status' \in {"COMPLETE", "PARTIAL"} => status' = status
  PROVE  CoverInv'
<1> HIDE DEF NoJob
<1>1. JobSound("idle", NoJob)
  BY DEF JobSound
<1> QED BY <1>1, CoverSteps DEF Leave, Goto, Know

LEMMA CallsCover ==
  ASSUME ImpactInv, CoverInv, NEW w \in Workers, Run(w) \/ Resume(w) \/ RetryRun(w)
  PROVE  CoverInv'
<1>1. ASSUME NEW kind, NEW place \in {"check", "history", "requeue"}, NEW from,
             Call(w, kind, place, from), place = "history" => Covered,
             place # "history" => from = Roots
      PROVE  CoverInv'
  <2> DEFINE j == [NoJob EXCEPT !.kind = kind, !.from = from]
  <2>1. j.from = from /\ j.before = {} /\ j.lost = {}
    BY DEF NoJob
  <2>2. pc' = [pc EXCEPT ![w] = place] /\ job' = [job EXCEPT ![w] = j]
    BY <1>1 DEF Call, Goto, Know
  <2> HIDE DEF j
  <2>3. JobSound(place, j)
    BY <1>1, <2>1, RootsCover DEF JobSound
  <2> QED BY <1>1, <2>2, <2>3, CoverSteps DEF Call, row
<1>2. CASE Run(w)
  BY <1>1, <1>2 DEF Run
<1>3. CASE Resume(w)
  <2>1. Covered
    BY <1>3 DEF Resume, CoverInv, Ended
  <2> QED BY <1>1, <1>3, <2>1 DEF Resume
<1>4. CASE RetryRun(w)
  BY <1>1, <1>4 DEF RetryRun
<1> QED BY <1>2, <1>3, <1>4

\* A resume takes the results with the frontier it has read; what they would
\* have needed besides is lost.
LEMMA LoadPersistedCovers ==
  ASSUME ImpactInv, CoverInv, NEW w \in Workers, LoadPersisted(w) PROVE CoverInv'
<1> DEFINE j == [job[w] EXCEPT !.before = result, !.lost = (frontier \cup forgotten) \ job[w].from]
<1>1. /\ j.from = job[w].from /\ j.before = result
      /\ j.lost = (frontier \cup forgotten) \ job[w].from
  BY Parts, JobIsTyped DEF Jobs
<1>2. pc' = [pc EXCEPT ![w] = "requeue"] /\ job' = [job EXCEPT ![w] = j] /\ pc[w] = "history"
      /\ UNCHANGED <<status, found>>
  BY DEF LoadPersisted, Goto, Know, row
<1> HIDE DEF j
<1>3. Covered
  BY <1>2 DEF CoverInv
<1>4. frontier \cup forgotten \subseteq j.from \cup j.lost
  BY <1>1
<1>5. Covers(j.before, j.from \cup j.lost, Roots)
  BY <1>1, <1>3, <1>4, CoversMore DEF Covered
<1>6. JobSound("requeue", j)
  BY <1>5 DEF JobSound
<1> QED BY <1>2, <1>6, CoverSteps

\* The other steps of a call before execute
LEMMA ClaimingCovers ==
  ASSUME ImpactInv, CoverInv, NEW w \in Workers,
         Requeue(w) \/ Look(w, "check", "claim") \/ Claim(w)
  PROVE  CoverInv'
<1>1. CASE Requeue(w)
  <2> DEFINE p == IF job[w].kind = "resume" THEN "claim" ELSE "check"
  <2>1. p \in {"claim", "check"} /\ Goto(w, p) /\ job' = job /\ pc[w] = "requeue" /\ status' = "QUEUED"
        /\ UNCHANGED found
    BY <1>1 DEF Requeue
  <2> HIDE DEF p
  <2> QED BY <2>1, CoverMoves
<1>2. CASE Look(w, "check", "claim")
  <2>1. PICK p \in {"cancel", "claim"} : Goto(w, p)
    BY <1>2 DEF Look
  <2> QED BY <1>2, <2>1, CoverMoves DEF Look, row
<1>3. CASE Claim(w)
  BY <1>3, CoverMoves, CoverLeaves DEF Claim
<1> QED BY <1>1, <1>2, <1>3

\* The steps of execute that leave the walk as it is
LEMMA ExecutingCovers ==
  ASSUME ImpactInv, CoverInv, NEW w \in Workers,
         \/ ReadCheckpoint(w) \/ Stamp(w) \/ Wait(w) \/ Look(w, "lookAgain", "complete")
         \/ Fail(w) \/ Missed(w) \/ Cancel(w)
  PROVE  CoverInv'
<1>1. CASE ReadCheckpoint(w)
  <2> DEFINE j == [job[w] EXCEPT !.seen = checkpoint]
  <2>1. /\ j.from = job[w].from /\ j.before = job[w].before /\ j.lost = job[w].lost
        /\ j.walk = job[w].walk
    BY Parts, JobIsTyped DEF Jobs
  <2>2. pc' = [pc EXCEPT ![w] = "stamp"] /\ job' = [job EXCEPT ![w] = j] /\ pc[w] = "checkpoint"
        /\ UNCHANGED <<status, found>>
    BY <1>1 DEF ReadCheckpoint, Goto, Know, row
  <2> HIDE DEF j
  <2>3. JobSound(pc[w], job[w])
    BY DEF CoverInv
  <2>4. JobSound("stamp", j)
    BY <2>1, <2>2, <2>3 DEF JobSound
  <2> QED BY <2>2, <2>4, CoverSteps
<1>2. CASE Stamp(w)
  <2>1. PICK p \in {"look", "wait", "missed"} : Goto(w, p)
    BY <1>2 DEF Stamp
  <2> QED BY <1>2, <2>1, CoverMoves DEF Stamp
<1>3. CASE Wait(w)
  BY <1>3, CoverMoves, CoverLeaves DEF Wait
<1>4. CASE Look(w, "lookAgain", "complete")
  <2>1. PICK p \in {"cancel", "complete"} : Goto(w, p)
    BY <1>4 DEF Look
  <2> QED BY <1>4, <2>1, CoverMoves DEF Look, row
<1>5. CASE Fail(w)
  BY <1>5, CoverMoves, CoverLeaves DEF Fail
<1>6. CASE Missed(w)
  BY <1>6, CoverMoves, CoverLeaves DEF Missed, row
<1>7. CASE Cancel(w)
  BY <1>7, CoverLeaves DEF Cancel
<1> QED BY <1>1, <1>2, <1>3, <1>4, <1>5, <1>6, <1>7

LEMMA WalkingCovers ==
  ASSUME ImpactInv, CoverInv, NEW w \in Workers, Begin(w) \/ Hop(w) PROVE CoverInv'
<1>1. JobSound(pc[w], job[w])
  BY DEF CoverInv
<1>2. job[w].from \in SUBSET Nodes /\ job[w].walk \in Walks
  BY Parts, JobIsTyped
<1>3. ASSUME NEW walk, WalkSound(walk, job[w].from), pc[w] \in {"look", "traverse"},
             Know(w, [job[w] EXCEPT !.walk = walk]),
             Goto(w, IF walk.status = "OPEN" THEN "traverse" ELSE "lookAgain"),
             UNCHANGED <<status, found>>
      PROVE  CoverInv'
  <2> DEFINE j == [job[w] EXCEPT !.walk = walk]
             p == IF walk.status = "OPEN" THEN "traverse" ELSE "lookAgain"
  <2>1. j.from = job[w].from /\ j.before = job[w].before /\ j.lost = job[w].lost /\ j.walk = walk
    BY Parts, JobIsTyped DEF Jobs
  <2>2. pc' = [pc EXCEPT ![w] = p] /\ job' = [job EXCEPT ![w] = j]
    BY <1>3 DEF Goto, Know
  <2>3. p \in {"traverse", "lookAgain"} /\ (p = "traverse" => walk.status = "OPEN")
    OBVIOUS
  <2> HIDE DEF j, p
  <2>4. JobSound(p, j)
    BY <1>1, <1>3, <2>1, <2>3 DEF JobSound
  <2> QED BY <1>3, <2>2, <2>3, <2>4, CoverSteps
<1>4. CASE Begin(w) /\ Cancelling
  BY <1>4, CoverMoves DEF Begin, row
<1>5. CASE Begin(w) /\ ~ Cancelling
  <2>1. PICK walk \in Starts(job[w].from) :
          /\ Know(w, [job[w] EXCEPT !.walk = walk])
          /\ Goto(w, IF walk.status = "OPEN" THEN "traverse" ELSE "lookAgain")
    BY <1>5 DEF Begin
  <2>2. WalkSound(walk, job[w].from)
    BY <1>2, StartsAreSound
  <2>3. pc[w] \in {"look", "traverse"} /\ UNCHANGED <<status, found>>
    BY <1>5 DEF Begin, row
  <2> QED BY <1>3, <2>1, <2>2, <2>3
<1>6. CASE Hop(w)
  <2>1. PICK walk \in Hops(job[w].walk) :
          /\ Know(w, [job[w] EXCEPT !.walk = walk])
          /\ Goto(w, IF walk.status = "OPEN" THEN "traverse" ELSE "lookAgain")
    BY <1>6 DEF Hop
  <2>2. pc[w] = "traverse" /\ UNCHANGED <<status, found>>
    BY <1>6 DEF Hop, row
  <2>3. WalkSound(walk, job[w].from)
    BY <1>1, <1>2, <2>1, <2>2, HopsAreSound DEF JobSound
  <2> QED BY <1>3, <2>1, <2>2, <2>3
<1> QED BY <1>4, <1>5, <1>6

\* What is stored is what was found before and now, with what is left of the
\* walk; what it has cut off and what was lost is forgotten.
LEMMA CompletingCovers ==
  ASSUME ImpactInv, CoverInv, NEW w \in Workers, Complete(w) PROVE CoverInv'
<1>1. CASE Holds(w)
  <2> DEFINE walk == job[w].walk
  <2>1. /\ result' = job[w].before \cup Found(walk)
        /\ frontier' = walk.frontier /\ status' = walk.status
        /\ forgotten' = job[w].lost \cup walk.cut /\ Leave(w) /\ pc[w] = "complete"
    BY <1>1 DEF Complete, Composed
  <2>2. /\ walk.status # "OPEN" /\ WalkSound(walk, job[w].from)
        /\ Covers(job[w].before, job[w].from \cup job[w].lost, Roots)
    <3>1. JobFits(pc[w], job[w]) /\ JobSound(pc[w], job[w])
      BY Parts, JobIsTyped DEF CoverInv
    <3> QED BY <2>1, <3>1 DEF JobFits, JobSound
  <2>3. /\ walk.status = "COMPLETE" => walk.frontier = {}
        /\ Leads(Found(walk), walk.frontier \cup walk.cut, job[w].from)
    <3>1. Ends({}) = {}
      BY DEF Ends
    <3> QED BY <2>2, <3>1 DEF WalkSound, WalkIsOver, Owed
  <2>4. Found(walk) \in SUBSET Nodes
    <3>1. walk.paths \subseteq Paths
      BY Parts, JobIsTyped DEF Walks
    <3> HIDE DEF walk
    <3> QED BY <3>1, PathsEndInNodes DEF Found, Ends
  <2> HIDE DEF walk
  <2>5. Covers(job[w].before \cup Found(walk), (walk.frontier \cup walk.cut) \cup job[w].lost, Roots)
    BY <2>2, <2>3, <2>4, CoversComposes
  <2>6. Covered'
    <3>1. (walk.frontier \cup walk.cut) \cup job[w].lost = frontier' \cup forgotten'
      BY <2>1
    <3> QED BY <2>1, <2>5, <3>1 DEF Covered
  <2>7. (status = "COMPLETE" => frontier = {})'
    BY <2>1, <2>3
  <2>8. (\A v \in Workers : JobSound(pc[v], job[v]))'
    <3>1. pc \in [Workers -> Places] /\ job \in [Workers -> Jobs]
      BY Parts DEF CallInv
    <3> HIDE DEF NoJob
    <3>2. /\ pc'[w] = "idle" /\ job'[w] = NoJob
          /\ \A v \in Workers : v # w => pc'[v] = pc[v] /\ job'[v] = job[v]
      BY <2>1, <3>1 DEF Leave, Goto, Know
    <3>3. JobSound("idle", NoJob)
      BY DEF JobSound
    <3> QED BY <3>2, <3>3 DEF CoverInv
  <2> QED BY <2>6, <2>7, <2>8 DEF CoverInv
<1>2. CASE ~ Holds(w)
  BY <1>2, CoverMoves DEF Complete
<1> QED BY <1>1, <1>2

LEMMA FaultsCover ==
  ASSUME ImpactInv, CoverInv, NEW w \in Workers, Throws(w) \/ Crash(w) PROVE CoverInv'
<1>1. CASE pc[w] \in Executing \ {"fail", "cancel"} /\ Goto(w, "fail") /\ job' = job
  BY <1>1, CoverMoves DEF Throws, Crash, row, Executing
<1>2. CASE Leave(w)
  BY <1>2, CoverLeaves DEF Throws, Crash, row
<1> QED BY <1>1, <1>2 DEF Throws, Crash

LEMMA CoverNext == ASSUME ImpactInv, CoverInv, [Next]_vars PROVE CoverInv'
<1>1. ASSUME NEW w \in Workers, Step(w) PROVE CoverInv'
  BY <1>1, LoadPersistedCovers, ClaimingCovers, ExecutingCovers, WalkingCovers, CompletingCovers
     DEF Step, Execute
<1>2. CASE RequestCancel \/ Project \/ LeaseExpires \/ UNCHANGED vars
  BY <1>2, CoverRests DEF RequestCancel, Project, LeaseExpires, vars, row
<1> QED BY <1>1, <1>2, CallsCover, FaultsCover DEF Next

LEMMA CoverHolds == Spec => []CoverInv
<1>1. ImpactInv /\ CoverInv /\ [Next]_vars => CoverInv'
  BY CoverNext
<1> QED BY <1>1, CoverInit, InvariantHolds, PTL DEF Spec

\* For any graph that does not change meanwhile, and any budgets, calls, faults,
\* cancellations and times, a result that a run shows, its frontier and what was
\* forgotten lead together to all that the roots lead to, however often the
\* analysis was cut off and resumed.
THEOREM FrontiersBelong == Spec => []FrontierBelongs
<1>1. CoverInv => FrontierBelongs
  BY DEF CoverInv, Covered, FrontierBelongs
<1> QED BY <1>1, CoverHolds, PTL

\* "Complete means the reachable graph was exhausted" for every run of which
\* nothing was forgotten: when it is COMPLETE its results hold the roots and
\* all they lead to, through however many hops, stops and resumes, as long as
\* the graph stays what it is.
THEOREM CompleteRunsAreWhole == Spec => [](forgotten = {} => CompleteIsWhole)
<1>1. ASSUME CoverInv PROVE forgotten = {} => CompleteIsWhole
  <2> SUFFICES ASSUME forgotten = {}, status = "COMPLETE" PROVE Roots \subseteq result /\ Closed(result)
    BY DEF CompleteIsWhole
  <2>1. frontier \cup forgotten = {}
    BY <1>1 DEF CoverInv
  <2>2. Covers(result, {}, Roots)
    BY <1>1, <2>1 DEF CoverInv, Covered, Ended
  <2>3. Roots \subseteq result \cup {} /\ Closed(result \cup {})
    BY <2>2 DEF Covers, Closed
  <2>4. result \cup {} = result
    OBVIOUS
  <2> QED BY <2>3, <2>4
<1> QED BY <1>1, CoverHolds, PTL

=============================================================================
