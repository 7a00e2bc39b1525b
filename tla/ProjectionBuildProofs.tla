------------------------ MODULE ProjectionBuildProofs ------------------------
(***************************************************************************)
(* Proofs about ProjectionBuild for any assertions, bundles, workers,      *)
(* builds and faults: what is published stays, and a worker that lost its  *)
(* build changes nothing of it.                                            *)
(***************************************************************************)
EXTENDS ProjectionBuild, FiniteSetTheorems, SequenceTheorems, TLAPS

-----------------------------------------------------------------------------
(* Sets and sequences                                                      *)

\* A finite set of numbers that is not empty has a greatest one.
LEMMA HasGreatest ==
  ASSUME NEW S \in SUBSET Nat, S # {}, IsFiniteSet(S)
  PROVE  \E x \in S : \A y \in S : y <= x
<1> DEFINE Above(x) == {y \in S : y > x}
           T == {Above(x) : x \in S}
<1>1. T \subseteq FiniteSubsetsOf(S)
  BY FS_Subset DEF FiniteSubsetsOf
<1>2. IsWellFoundedOn(StrictSubsetOrdering(S), FiniteSubsetsOf(S))
  BY FS_StrictSubsetOrderingWellFounded
<1>3. T # {}
  OBVIOUS
<1>4. \E t \in T : \A u \in T : <<u, t>> \notin StrictSubsetOrdering(S)
  <2> HIDE DEF T
  <2> QED BY <1>1, <1>2, <1>3, WFMin
<1>5. PICK x \in S : \A y \in S : <<Above(y), Above(x)>> \notin StrictSubsetOrdering(S)
  BY <1>4
<1>6. ASSUME NEW y \in S, y > x
      PROVE  FALSE
  <2>1. Above(y) \subseteq Above(x) /\ y \in Above(x) /\ y \notin Above(y)
    <3>1. \A z \in S : z \in Nat
      OBVIOUS
    <3>2. \A z \in S : z > y => z > x
      BY <3>1, <1>6
    <3>3. ~ y > y
      BY <3>1
    <3> QED BY <3>2, <3>3, <1>6
  <2>2. <<Above(y), Above(x)>> \in (SUBSET S) \X (SUBSET S)
    OBVIOUS
  <2>3. <<Above(y), Above(x)>> \in StrictSubsetOrdering(S)
    <3> HIDE DEF Above
    <3> QED BY <2>1, <2>2 DEF StrictSubsetOrdering
  <2> QED BY <2>3, <1>5
<1> QED BY <1>6

\* A set that a sequence enumerates is finite.
LEMMA AssertionsAreFinite == IsFiniteSet(Assertions)
<1> USE ProjectionAssumption
<1> DEFINE n == Len(Order)
<1>1. n \in Nat /\ Order \in [1 .. n -> Assertions] /\ DOMAIN Order = 1 .. n
  OBVIOUS
<1>2. Order \in Surjection(1 .. n, Assertions)
  BY <1>1 DEF Surjection
<1>3. IsFiniteSet(1 .. n)
  BY <1>1, FS_Interval
<1> QED BY <1>2, <1>3, FS_Surjection

\* One element of a sequence is replaced.
LEMMA Replaced ==
  ASSUME NEW S, NEW s \in Seq(S), NEW i \in DOMAIN s, NEW v \in S, NEW t,
         t = [s EXCEPT ![i] = v]
  PROVE  t \in Seq(S) /\ Len(t) = Len(s) /\ DOMAIN t = DOMAIN s
         /\ \A k \in DOMAIN s : t[k] = IF k = i THEN v ELSE s[k]
BY ExceptSeq, LenProperties

-----------------------------------------------------------------------------
(* Types of the governed path                                              *)

ChangeSetRecords == [by : Decisions \cup ReviewSets, assertions : SUBSET Assertions, version : Nat]

DecisionRecords ==
  [open : BOOLEAN, bundle : Bundles, approve : BOOLEAN, targets : SUBSET Assertions]

\* Both kinds of promotion leave types alone.
LEMMA MaterializeTypes ==
  ASSUME GovernanceTypeOK, NEW by \in Decisions \cup ReviewSets, NEW batch \in SUBSET Assertions,
         Materialize(by, batch)
  PROVE  GovernanceTypeOK' /\ baselines' = baselines
<1> USE DEF GovernanceTypeOK
<1>1. Cardinality(batch \cap Relationships) \in Nat
  BY AssertionsAreFinite, FS_Subset, FS_CardinalityType DEF Assertions
<1>2. graph' \in Nat
  BY <1>1 DEF Materialize
<1>3. /\ changeSets' \in Seq(ChangeSetRecords)
      /\ Len(changeSets') = Len(changeSets) + 1
      /\ DOMAIN changeSets = 1 .. Len(changeSets) /\ DOMAIN changeSets' = 1 .. Len(changeSets')
      /\ Len(changeSets) \in Nat
  <2> DEFINE new == [by |-> by, assertions |-> batch, version |-> graph']
  <2>1. new \in ChangeSetRecords
    BY <1>2 DEF ChangeSetRecords
  <2>2. changeSets' = Append(changeSets, new) /\ changeSets \in Seq(ChangeSetRecords)
    BY DEF Materialize, ChangeSetRecords
  <2> HIDE DEF new
  <2> QED BY <2>1, <2>2, AppendProperties, LenProperties
<1>4. DOMAIN changeSets \subseteq DOMAIN changeSets'
  BY <1>3
<1>5. changeSetOf' \in [Assertions -> 0 .. Len(changeSets')]
  BY <1>3 DEF Materialize
<1>6. baselines' \in Seq([changeSet : DOMAIN changeSets', status : {"PUBLISHED", "SUPERSEDED"}])
  <2>1. [changeSet : DOMAIN changeSets, status : {"PUBLISHED", "SUPERSEDED"}]
          \subseteq [changeSet : DOMAIN changeSets', status : {"PUBLISHED", "SUPERSEDED"}]
    BY <1>4
  <2> QED BY <2>1, SeqMonotonic DEF Materialize
<1> QED BY <1>2, <1>3, <1>4, <1>5, <1>6 DEF Materialize, ChangeSetRecords

\* A baseline is never taken back.
LEMMA GovernanceTypes ==
  ASSUME GovernanceTypeOK, GovernanceNext
  PROVE  GovernanceTypeOK' /\ DOMAIN baselines \subseteq DOMAIN baselines'
<1> USE GovernanceAssumption DEF GovernanceTypeOK
<1>1. ASSUME NEW b \in Bundles, NEW st \in {"READY", "BLOCKED"}, CreateBundle(b, st)
      PROVE  GovernanceTypeOK' /\ baselines' = baselines
  BY <1>1 DEF CreateBundle, BundleStatus
<1>2. ASSUME NEW d \in Decisions, NEW b \in Bundles, NEW approve \in BOOLEAN,
             NEW targets \in SUBSET Assertions, ReadForDecision(d, b, approve, targets)
      PROVE  GovernanceTypeOK' /\ baselines' = baselines
  <2>1. decision' \in [Decisions -> {None} \cup DecisionRecords]
    BY <1>2 DEF ReadForDecision, DecisionRecords
  <2> QED BY <2>1, <1>2 DEF ReadForDecision, DecisionRecords
<1>3. ASSUME NEW d \in Decisions, RecordDecision(d)
      PROVE  GovernanceTypeOK' /\ baselines' = baselines
  <2>1. decision[d] \in DecisionRecords
    BY <1>3 DEF RecordDecision, DecisionRecords
  <2>2. [decision[d] EXCEPT !.open = FALSE] \in DecisionRecords
    BY <2>1 DEF DecisionRecords
  <2>3. decision' \in [Decisions -> {None} \cup DecisionRecords]
    BY <1>3, <2>2 DEF RecordDecision, DecisionRecords
  <2>4. accepted' \in SUBSET Assertions /\ blocked' \in BOOLEAN /\ bundle' \in [Bundles -> BundleStatus]
    BY <1>3, <2>1 DEF RecordDecision, DecisionRecords, BundleStatus
  <2> QED BY <2>3, <2>4, <1>3 DEF RecordDecision, DecisionRecords
<1>4. ASSUME NEW d \in Decisions, PromoteDecision(d)
      PROVE  GovernanceTypeOK' /\ baselines' = baselines
  <2>1. decision[d] # None
    BY <1>4 DEF PromoteDecision, Approvals
  <2>2. decision[d].targets \in SUBSET Assertions
    BY <2>1
  <2> QED BY <2>2, <1>4, MaterializeTypes DEF PromoteDecision
<1>5. ASSUME NEW st \in ReviewSets, PromoteReviewSet(st)
      PROVE  GovernanceTypeOK' /\ baselines' = baselines
  <2>1. UNION {Members[b] : b \in Expected[st]} \in SUBSET Assertions
    OBVIOUS
  <2> QED BY <2>1, <1>5, MaterializeTypes DEF PromoteReviewSet
<1>6. ASSUME OutsideCommand
      PROVE  GovernanceTypeOK' /\ baselines' = baselines
  BY <1>6 DEF OutsideCommand
<1>7. ASSUME NEW c \in DOMAIN changeSets, Reconcile(c)
      PROVE  GovernanceTypeOK' /\ baselines' = baselines
  BY <1>7 DEF Reconcile
<1>8. ASSUME NEW c \in DOMAIN changeSets, PublishBaseline(c)
      PROVE  GovernanceTypeOK' /\ DOMAIN baselines \subseteq DOMAIN baselines'
  <2> DEFINE B == [changeSet : DOMAIN changeSets, status : {"PUBLISHED", "SUPERSEDED"}]
             old == [b \in DOMAIN baselines |-> [baselines[b] EXCEPT !.status = "SUPERSEDED"]]
             new == [changeSet |-> c, status |-> "PUBLISHED"]
  <2>0. baselines \in Seq(B)
    OBVIOUS
  <2>1. Len(baselines) \in Nat /\ DOMAIN baselines = 1 .. Len(baselines)
        /\ \A b \in DOMAIN baselines : baselines[b] \in B
    <3> HIDE DEF B
    <3> QED BY <2>0, LenProperties
  <2>2. \A b \in DOMAIN baselines : [baselines[b] EXCEPT !.status = "SUPERSEDED"] \in B
    BY <2>1
  <2>3. old \in [1 .. Len(baselines) -> B]
    BY <2>1, <2>2
  <2>4. old \in Seq(B) /\ Len(old) = Len(baselines)
    <3> DEFINE n == Len(baselines)
    <3>1. n \in Nat /\ old \in [1 .. n -> B]
      BY <2>1, <2>3
    <3> HIDE DEF B, old, n
    <3>2. old \in Seq(B) /\ Len(old) = n
      BY <3>1
    <3> QED BY <3>2 DEF n
  <2>5. new \in B
    OBVIOUS
  <2>6. Append(old, new) \in Seq(B) /\ DOMAIN Append(old, new) = 1 .. Len(baselines) + 1
    <3> HIDE DEF B, old, new
    <3> QED BY <2>1, <2>4, <2>5, AppendProperties, LenProperties
  <2>7. baselines' = Append(old, new)
    BY <1>8 DEF PublishBaseline
  <2>8. DOMAIN baselines \subseteq DOMAIN baselines' /\ baselines' \in Seq(B)
    <3> HIDE DEF B, old, new
    <3> QED BY <2>1, <2>6, <2>7
  <2>9. /\ bundle' = bundle /\ decision' = decision /\ blocked' = blocked /\ accepted' = accepted
        /\ changeSetOf' = changeSetOf /\ changeSets' = changeSets /\ graph' = graph
        /\ outside' = outside /\ reconciled' = reconciled
    BY <1>8 DEF PublishBaseline
  <2> HIDE DEF old, new
  <2> QED BY <2>8, <2>9
<1> HIDE DEF GovernanceTypeOK
<1> QED BY <1>1, <1>2, <1>3, <1>4, <1>5, <1>6, <1>7, <1>8 DEF GovernanceNext

-----------------------------------------------------------------------------
(* Types of the builds                                                     *)

JobRecords ==
  [baseline : DOMAIN baselines, query : Queries, status : Active \cup {"READY", "FAILED"},
   owner : Workers \cup {None}, lease : BOOLEAN, cursor : 0 .. Len(Order), nodes : Nat,
   edges : Nat, error : Errors \cup {None}]

Rows == [nodes : SUBSET Assertions, edges : SUBSET Relationships, units : BOOLEAN]

WorkerRecords ==
  [pc : Steps, job : DOMAIN jobs, from : 0 .. Len(Order), nodes : Nat, edges : Nat,
   page : SUBSET (DOMAIN Order), found : SUBSET Relationships, complete : BOOLEAN,
   error : Errors]

\* TypeOK by its parts, with the lengths that the sequences have.
BuildTypes ==
  /\ GovernanceTypeOK
  /\ jobs \in Seq(JobRecords) /\ generations \in Seq(Rows)
  /\ Len(generations) = Len(jobs) /\ Len(jobs) <= MaxJobs
  /\ manifests \subseteq DOMAIN jobs
  /\ worker \in [Workers -> {Idle} \cup WorkerRecords]
  /\ faults \in 0 .. MaxFaults

LEMMA TypesAreTypeOK == TypeOK <=> BuildTypes
BY DEF TypeOK, BuildTypes, JobRecords, Rows, WorkerRecords

\* A worker that is not idle works on a build that there is.
LEMMA BusyWorker ==
  ASSUME BuildTypes, NEW w \in Workers, worker[w].pc # "idle"
  PROVE  worker[w] \in WorkerRecords /\ worker[w].job \in DOMAIN jobs
                                     /\ jobs[worker[w].job] \in JobRecords
<1>1. worker[w] \in WorkerRecords
  BY DEF BuildTypes, Idle
<1>2. worker[w].job \in DOMAIN jobs
  BY <1>1 DEF WorkerRecords
<1>3. jobs \in Seq(JobRecords)
  BY DEF BuildTypes
<1> QED BY <1>1, <1>2, <1>3, LenProperties

\* What a step does to one worker keeps all of them typed.
LEMMA WorkerMoves ==
  ASSUME BuildTypes, NEW w \in Workers, NEW v \in {Idle} \cup WorkerRecords,
         worker' = [worker EXCEPT ![w] = v], DOMAIN jobs' = DOMAIN jobs
  PROVE  worker' \in [Workers -> {Idle} \cup WorkerRecords']
<1>1. WorkerRecords' = WorkerRecords
  BY DEF WorkerRecords
<1> QED BY <1>1 DEF BuildTypes

\* What a step does to one build keeps all of them typed.
LEMMA JobMoves ==
  ASSUME BuildTypes, NEW g \in DOMAIN jobs, NEW v \in JobRecords,
         jobs' = [jobs EXCEPT ![g] = v], UNCHANGED baselines
  PROVE  /\ jobs' \in Seq(JobRecords') /\ Len(jobs') = Len(jobs) /\ DOMAIN jobs' = DOMAIN jobs
         /\ \A k \in DOMAIN jobs : jobs'[k] = IF k = g THEN v ELSE jobs[k]
<1>1. JobRecords' = JobRecords
  BY DEF JobRecords
<1>2. jobs \in Seq(JobRecords)
  BY DEF BuildTypes
<1> QED BY <1>1, <1>2, Replaced

LEMMA RowsMove ==
  ASSUME BuildTypes, NEW g \in DOMAIN jobs, NEW v \in Rows,
         generations' = [generations EXCEPT ![g] = v]
  PROVE  /\ generations' \in Seq(Rows) /\ Len(generations') = Len(generations)
         /\ \A k \in DOMAIN jobs : generations'[k] = IF k = g THEN v ELSE generations[k]
<1>1. generations \in Seq(Rows) /\ DOMAIN generations = DOMAIN jobs
  BY LenProperties DEF BuildTypes
<1> QED BY <1>1, Replaced

\* The cursor stays within the order of the assertions.
LEMMA CursorIsInOrder ==
  ASSUME NEW page \in SUBSET (DOMAIN Order)
  PROVE  NextCursor(page) \in 0 .. Len(Order) /\ Cardinality(page) \in Nat
<1>1. Len(Order) \in Nat /\ DOMAIN Order = 1 .. Len(Order)
  BY ProjectionAssumption, LenProperties
<1>2. page \in SUBSET Nat /\ IsFiniteSet(page) /\ page \subseteq 1 .. Len(Order)
  <2>1. IsFiniteSet(1 .. Len(Order))
    BY <1>1, FS_Interval
  <2>2. page \in SUBSET (1 .. Len(Order))
    BY <1>1
  <2>3. IsFiniteSet(page)
    BY <2>1, <2>2, FS_Subset
  <2> QED BY <1>1, <2>2, <2>3
<1>3. Cardinality(page) \in Nat
  BY <1>2, FS_CardinalityType
<1>4. CASE page = {}
  BY <1>1, <1>3, <1>4 DEF NextCursor
<1>5. CASE page # {}
  <2>1. \E i \in page : \A k \in page : k <= i
    BY <1>2, <1>5, HasGreatest
  <2>2. NextCursor(page) \in page
    BY <2>1, <1>5 DEF NextCursor
  <2> QED BY <2>2, <1>1, <1>2, <1>3
<1> QED BY <1>4, <1>5

-----------------------------------------------------------------------------
(* The invariant                                                           *)

BuildInv == BuildTypes /\ ReadyIsPublished

LEMMA BuildInvInit == Init => BuildInv
<1> SUFFICES ASSUME Init PROVE BuildInv
  OBVIOUS
<1> USE DEF Init
<1>1. GovernanceTypeOK
  <2> USE DEF GovernanceInit
  <2>1. changeSets = <<>> /\ baselines = <<>> /\ Len(changeSets) = 0
    BY EmptySeq
  <2>2. changeSets \in Seq([by : Decisions \cup ReviewSets, assertions : SUBSET Assertions,
                           version : Nat])
    BY <2>1, EmptySeq
  <2>3. baselines \in Seq([changeSet : DOMAIN changeSets, status : {"PUBLISHED", "SUPERSEDED"}])
    BY <2>1, EmptySeq
  <2>4. bundle \in [Bundles -> BundleStatus]
    BY DEF BundleStatus
  <2>5. changeSetOf \in [Assertions -> 0 .. Len(changeSets)]
    BY <2>1
  <2>6. decision \in [Decisions -> {None} \cup
           [open : BOOLEAN, bundle : Bundles, approve : BOOLEAN, targets : SUBSET Assertions]]
    OBVIOUS
  <2>7. blocked \in BOOLEAN
    BY Zenon
  <2>8. accepted \in SUBSET Assertions /\ reconciled \in SUBSET (DOMAIN changeSets)
    BY Zenon
  <2>9. graph \in Nat /\ outside \in 0 .. MaxOutside
    BY GovernanceAssumption
  <2> HIDE DEF GovernanceInit
  <2> QED BY <2>2, <2>3, <2>4, <2>5, <2>6, <2>7, <2>8, <2>9 DEF GovernanceTypeOK
<1>2. BuildTypes
  BY <1>1, EmptySeq, ProjectionAssumption DEF BuildTypes
<1>3. ReadyIsPublished
  BY DEF ReadyIsPublished
<1> QED BY <1>2, <1>3 DEF BuildInv

\* Commands of the governed path leave builds alone.
LEMMA GovernanceKeeps ==
  ASSUME BuildInv, GovernanceNext, UNCHANGED projection
  PROVE  BuildInv'
<1> USE DEF BuildInv
<1>1. UNCHANGED <<jobs, generations, manifests, worker, faults>>
  BY DEF projection
<1>2. GovernanceTypeOK' /\ DOMAIN baselines \subseteq DOMAIN baselines'
  BY GovernanceTypes DEF BuildTypes
<1>3. JobRecords \subseteq JobRecords'
  BY <1>2 DEF JobRecords
<1>4. jobs' \in Seq(JobRecords')
  BY <1>1, <1>3, SeqMonotonic DEF BuildTypes
<1>5. WorkerRecords' = WorkerRecords
  BY <1>1 DEF WorkerRecords
<1>6. BuildTypes'
  BY <1>1, <1>2, <1>4, <1>5 DEF BuildTypes
<1> QED BY <1>1, <1>6 DEF ReadyIsPublished

LEMMA RequestKeeps ==
  ASSUME BuildInv, NEW b \in DOMAIN baselines, NEW query \in Queries, Request(b, query)
  PROVE  BuildInv'
<1> USE DEF BuildInv
<1> DEFINE new == [baseline |-> b, query |-> query, status |-> "QUEUED", owner |-> None,
                   lease |-> FALSE, cursor |-> 0, nodes |-> 0, edges |-> 0, error |-> None]
           rows == [nodes |-> {}, edges |-> {}, units |-> FALSE]
<1>1. /\ jobs' = Append(jobs, new) /\ generations' = Append(generations, rows)
      /\ UNCHANGED <<governance, manifests, worker, faults>> /\ Len(jobs) < MaxJobs
  BY DEF Request
<1>2. UNCHANGED baselines /\ GovernanceTypeOK'
  BY <1>1 DEF BuildTypes, governance, GovernanceTypeOK
<1>3. new \in JobRecords /\ JobRecords' = JobRecords /\ new.status = "QUEUED"
  BY <1>2, ProjectionAssumption, LenProperties DEF JobRecords, Active
<1>4. rows \in Rows
  BY DEF Rows
<1>5. jobs \in Seq(JobRecords) /\ generations \in Seq(Rows) /\ Len(generations) = Len(jobs)
  BY DEF BuildTypes
<1> HIDE DEF new, rows
<1>6. /\ jobs' \in Seq(JobRecords') /\ Len(jobs') = Len(jobs) + 1
      /\ \A i \in 1 .. Len(jobs) : jobs'[i] = jobs[i]
      /\ jobs'[Len(jobs) + 1] = new
  BY <1>1, <1>3, <1>5, AppendProperties
<1>7. generations' \in Seq(Rows) /\ Len(generations') = Len(jobs) + 1
  BY <1>1, <1>4, <1>5, AppendProperties
<1>8. /\ Len(jobs) \in Nat /\ DOMAIN jobs = 1 .. Len(jobs)
      /\ DOMAIN jobs' = 1 .. Len(jobs')
  BY <1>5, <1>6, LenProperties
<1>9. DOMAIN jobs \subseteq DOMAIN jobs' /\ DOMAIN jobs' = DOMAIN jobs \cup {Len(jobs) + 1}
      /\ Len(jobs) + 1 \notin DOMAIN jobs
  BY <1>6, <1>8
<1>10. WorkerRecords \subseteq WorkerRecords'
  BY <1>9 DEF WorkerRecords
<1>11. BuildTypes'
  <2>1. Len(jobs') <= MaxJobs
    BY <1>1, <1>6, <1>8, ProjectionAssumption
  <2>2. worker' \in [Workers -> {Idle} \cup WorkerRecords']
    BY <1>1, <1>10 DEF BuildTypes
  <2> QED BY <1>1, <1>2, <1>6, <1>7, <1>9, <2>1, <2>2 DEF BuildTypes
<1>12. ReadyIsPublished'
  <2> SUFFICES ASSUME NEW g \in DOMAIN jobs'
               PROVE  jobs'[g].status = "READY" <=> g \in manifests'
    BY DEF ReadyIsPublished
  <2>1. CASE g \in DOMAIN jobs
    BY <2>1, <1>1, <1>6, <1>8 DEF ReadyIsPublished
  <2>2. CASE g = Len(jobs) + 1
    BY <2>2, <1>1, <1>3, <1>6, <1>9 DEF BuildTypes
  <2> QED BY <2>1, <2>2, <1>9
<1> QED BY <1>11, <1>12

\* A step of one worker that changes at most its own build, and neither makes it
\* READY nor changes one that is.
LEMMA OneBuildKeeps ==
  ASSUME BuildInv, NEW g \in DOMAIN jobs, NEW v \in JobRecords,
         jobs' = [jobs EXCEPT ![g] = v], v.status = "READY" <=> g \in manifests',
         manifests' \subseteq manifests \cup {g}, manifests \subseteq manifests',
         generations' \in Seq(Rows), Len(generations') = Len(generations),
         worker' \in [Workers -> {Idle} \cup WorkerRecords], faults' \in 0 .. MaxFaults,
         UNCHANGED governance
  PROVE  BuildInv'
<1> USE DEF BuildInv
<1>1. UNCHANGED baselines /\ GovernanceTypeOK'
  BY DEF BuildTypes, governance, GovernanceTypeOK
<1>2. /\ jobs' \in Seq(JobRecords') /\ Len(jobs') = Len(jobs) /\ DOMAIN jobs' = DOMAIN jobs
      /\ \A k \in DOMAIN jobs : jobs'[k] = IF k = g THEN v ELSE jobs[k]
  BY <1>1, JobMoves
<1>3. WorkerRecords' = WorkerRecords
  BY <1>2 DEF WorkerRecords
<1>4. BuildTypes'
  BY <1>1, <1>2, <1>3 DEF BuildTypes
<1>5. ReadyIsPublished'
  BY <1>2 DEF ReadyIsPublished, BuildTypes
<1> QED BY <1>4, <1>5

\* A step that changes no build
LEMMA NoBuildKeeps ==
  ASSUME BuildInv, UNCHANGED <<governance, jobs, manifests>>,
         generations' \in Seq(Rows), Len(generations') = Len(generations),
         worker' \in [Workers -> {Idle} \cup WorkerRecords], faults' \in 0 .. MaxFaults
  PROVE  BuildInv'
<1> USE DEF BuildInv
<1>1. JobRecords' = JobRecords /\ WorkerRecords' = WorkerRecords /\ GovernanceTypeOK'
  BY DEF BuildTypes, governance, GovernanceTypeOK, JobRecords, WorkerRecords
<1> QED BY <1>1 DEF BuildTypes, ReadyIsPublished

\* A build that a worker works on, by whatever the step is.
LEMMA ClaimKeeps ==
  ASSUME BuildInv, NEW w \in Workers, NEW g \in DOMAIN jobs, Claim(w, g)
  PROVE  BuildInv'
<1> DEFINE v == [jobs[g] EXCEPT !.status = "BUILDING", !.owner = w, !.lease = TRUE]
           u == [Idle EXCEPT !.pc = "renewLoad", !.job = g, !.from = jobs[g].cursor,
                             !.nodes = jobs[g].nodes, !.edges = jobs[g].edges]
<1>0. /\ jobs[g] \in JobRecords /\ jobs \in Seq(JobRecords)
      /\ UNCHANGED <<governance, generations, manifests, faults>>
  <2>1. jobs \in Seq(JobRecords)
    BY DEF BuildInv, BuildTypes
  <2> QED BY <2>1, LenProperties DEF Claim
<1>1. v \in JobRecords /\ v.status = "BUILDING"
  BY <1>0 DEF JobRecords, Active
<1>2. u \in WorkerRecords
  BY <1>0 DEF WorkerRecords, JobRecords, Idle, Steps, Errors
<1>3. jobs' = [jobs EXCEPT ![g] = v]
  BY DEF Claim
<1>4. worker' = [worker EXCEPT ![w] = u]
  BY DEF Claim
<1>5. g \notin manifests
  BY <1>0 DEF Claim, Claimable, BuildInv, ReadyIsPublished
<1> HIDE DEF u, v
<1>6. worker' \in [Workers -> {Idle} \cup WorkerRecords]
  BY <1>2, <1>4 DEF BuildInv, BuildTypes
<1> QED BY <1>0, <1>1, <1>3, <1>5, <1>6, OneBuildKeeps DEF BuildInv, BuildTypes

\* The three ways a worker goes on.
LEMMA WorkersGoOn ==
  ASSUME BuildTypes, NEW w \in Workers, ~At(w, "idle"),
         \/ \E p \in Steps : Goto(w, p)
         \/ \E e \in Errors : Throw(w, e)
         \/ worker' = [worker EXCEPT ![w] = Idle]
         \/ UNCHANGED worker
  PROVE  worker' \in [Workers -> {Idle} \cup WorkerRecords]
<1>1. worker[w] \in WorkerRecords /\ worker \in [Workers -> {Idle} \cup WorkerRecords]
  BY BusyWorker DEF At, BuildTypes
<1>2. ASSUME NEW p \in Steps, Goto(w, p)
      PROVE  worker' \in [Workers -> {Idle} \cup WorkerRecords]
  <2> DEFINE v == [worker[w] EXCEPT !.pc = p]
  <2>1. v \in WorkerRecords
    BY <1>1 DEF WorkerRecords
  <2>2. worker' = [worker EXCEPT ![w] = v]
    BY <1>2 DEF Goto
  <2> HIDE DEF v
  <2> QED BY <1>1, <2>1, <2>2
<1>3. ASSUME NEW e \in Errors, Throw(w, e)
      PROVE  worker' \in [Workers -> {Idle} \cup WorkerRecords]
  <2> DEFINE v == [worker[w] EXCEPT !.pc = "fail", !.error = e]
  <2>1. v \in WorkerRecords
    BY <1>1 DEF WorkerRecords, Steps
  <2>2. worker' = [worker EXCEPT ![w] = v]
    BY <1>3 DEF Throw
  <2> HIDE DEF v
  <2> QED BY <1>1, <2>1, <2>2
<1>4. CASE worker' = [worker EXCEPT ![w] = Idle]
  BY <1>1, <1>4
<1>5. CASE UNCHANGED worker
  BY <1>1, <1>5
<1> QED BY <1>2, <1>3, <1>4, <1>5

LEMMA RenewKeeps ==
  ASSUME BuildInv, NEW w \in Workers, Renew(w)
  PROVE  BuildInv'
<1> DEFINE g == worker[w].job
           v == [jobs[g] EXCEPT !.lease = TRUE]
<1>0. worker[w].pc \in {"renewLoad", "renewWrite", "renewUnits", "renewPublish"}
  BY DEF Renew, Renewals
<1>1. ~At(w, "idle") /\ Renewals[worker[w].pc] \in Steps /\ "LEASE_LOST" \in Errors
  BY <1>0 DEF At, Renewals, Steps, Errors
<1>2. g \in DOMAIN jobs /\ jobs[g] \in JobRecords
  BY <1>1, BusyWorker DEF At, BuildInv
<1>3. /\ UNCHANGED <<governance, manifests>> /\ faults' \in 0 .. MaxFaults
      /\ generations' \in Seq(Rows) /\ Len(generations') = Len(generations)
  BY DEF Renew, BuildInv, BuildTypes
<1>4. worker' \in [Workers -> {Idle} \cup WorkerRecords]
  BY <1>1, WorkersGoOn DEF Renew, BuildInv
<1>5. CASE UNCHANGED jobs
  BY <1>3, <1>4, <1>5, NoBuildKeeps
<1>6. CASE Holds(w) /\ jobs' = [jobs EXCEPT ![g].lease = TRUE]
  <2>1. jobs' = [jobs EXCEPT ![g] = v]
    BY <1>6
  <2>2. v \in JobRecords /\ v.status = jobs[g].status
    BY <1>2 DEF JobRecords
  <2>3. v.status = "READY" <=> g \in manifests'
    BY <1>2, <1>3, <2>2 DEF BuildInv, ReadyIsPublished
  <2> HIDE DEF v, g
  <2> QED BY <1>2, <1>3, <1>4, <2>1, <2>2, <2>3, OneBuildKeeps
<1> QED BY <1>5, <1>6 DEF Renew

LEMMA LoadPageKeeps ==
  ASSUME BuildInv, NEW w \in Workers, LoadPage(w)
  PROVE  BuildInv'
<1> DEFINE rest == Remaining(Job(w).baseline, worker[w].from)
           page == {i \in rest : Cardinality({k \in rest : k < i}) < BatchLimit}
           v == [worker[w] EXCEPT !.pc = "relationships", !.page = page,
                                  !.complete = (page = rest)]
<1>1. ~At(w, "idle")
  BY DEF LoadPage, At
<1>2. worker[w] \in WorkerRecords
  BY <1>1, BusyWorker DEF At, BuildInv
<1>3. page \in SUBSET (DOMAIN Order) /\ (page = rest) \in BOOLEAN
  BY DEF Remaining
<1>4. worker' = [worker EXCEPT ![w] = v]
  BY DEF LoadPage
<1>5. v \in WorkerRecords
  <2> HIDE DEF page, rest
  <2> QED BY <1>2, <1>3 DEF WorkerRecords, Steps
<1> HIDE DEF v
<1> QED BY <1>4, <1>5, NoBuildKeeps DEF LoadPage, BuildInv, BuildTypes

LEMMA LoadRelationshipsKeeps ==
  ASSUME BuildInv, NEW w \in Workers, LoadRelationships(w)
  PROVE  BuildInv'
<1> DEFINE content == Content(Job(w).baseline)
           found == IF worker[w].from = 0 THEN content \cap Relationships ELSE {}
           v == [worker[w] EXCEPT !.pc = "renewWrite", !.found = found]
<1>1. ~At(w, "idle") /\ "ENDPOINT_UNRESOLVED" \in Errors
  BY DEF LoadRelationships, At, Errors
<1>2. worker[w] \in WorkerRecords
  BY <1>1, BusyWorker DEF At, BuildInv
<1>3. v \in WorkerRecords
  <2>1. found \in SUBSET Relationships
    OBVIOUS
  <2> HIDE DEF found
  <2> QED BY <1>2, <2>1 DEF WorkerRecords, Steps
<1>4. worker' = [worker EXCEPT ![w] = v] \/ Throw(w, "ENDPOINT_UNRESOLVED")
  BY DEF LoadRelationships
<1> HIDE DEF v
<1>5. worker' \in [Workers -> {Idle} \cup WorkerRecords]
  BY <1>1, <1>3, <1>4, WorkersGoOn DEF BuildInv, BuildTypes
<1> QED BY <1>5, NoBuildKeeps DEF LoadRelationships, BuildInv, BuildTypes

LEMMA WriteBatchKeeps ==
  ASSUME BuildInv, NEW w \in Workers, WriteBatch(w)
  PROVE  BuildInv'
<1> DEFINE g == worker[w].job
           page == worker[w].page
           found == worker[w].found
           v == [jobs[g] EXCEPT !.cursor = NextCursor(page),
                                !.nodes = @ + Cardinality(page),
                                !.edges = @ + Cardinality(found)]
           rows == [generations[g] EXCEPT !.nodes = @ \cup {Order[i] : i \in page},
                                          !.edges = @ \cup found]
<1>1. ~At(w, "idle") /\ "LEASE_LOST" \in Errors /\ "renewUnits" \in Steps
  BY DEF WriteBatch, At, Errors, Steps
<1>2. /\ worker[w] \in WorkerRecords /\ g \in DOMAIN jobs /\ jobs[g] \in JobRecords
      /\ UNCHANGED <<governance, manifests, faults>>
  BY <1>1, BusyWorker DEF At, BuildInv, WriteBatch
<1>3. worker' \in [Workers -> {Idle} \cup WorkerRecords]
  BY <1>1, WorkersGoOn DEF WriteBatch, BuildInv
<1>4. CASE ~Holds(w)
  <2>1. UNCHANGED <<jobs, generations>>
    BY <1>4 DEF WriteBatch
  <2> QED BY <2>1, <1>2, <1>3, NoBuildKeeps DEF BuildInv, BuildTypes
<1>5. CASE Holds(w)
  <2>1. page \in SUBSET (DOMAIN Order) /\ found \in SUBSET Relationships
    BY <1>2 DEF WorkerRecords
  <2>2. Cardinality(found) \in Nat /\ Cardinality(page) \in Nat
        /\ NextCursor(page) \in 0 .. Len(Order)
    BY <2>1, CursorIsInOrder, AssertionsAreFinite, FS_Subset, FS_CardinalityType DEF Assertions
  <2>3. v \in JobRecords /\ v.status = jobs[g].status
    <3> DEFINE cursor == NextCursor(page)
               nodes == jobs[g].nodes + Cardinality(page)
               edges == jobs[g].edges + Cardinality(found)
    <3>1. cursor \in 0 .. Len(Order) /\ nodes \in Nat /\ edges \in Nat
      <4> HIDE DEF page, found, g
      <4> QED BY <1>2, <2>2 DEF JobRecords
    <3>2. v = [jobs[g] EXCEPT !.cursor = cursor, !.nodes = nodes, !.edges = edges]
      OBVIOUS
    <3> HIDE DEF v, cursor, nodes, edges, g
    <3> QED BY <1>2, <3>1, <3>2 DEF JobRecords
  <2>4. jobs' = [jobs EXCEPT ![g] = v]
    BY <1>5 DEF WriteBatch
  <2>5. generations[g] \in Rows /\ generations \in Seq(Rows) /\ DOMAIN generations = DOMAIN jobs
    <3>1. generations \in Seq(Rows) /\ jobs \in Seq(JobRecords) /\ Len(generations) = Len(jobs)
      BY DEF BuildInv, BuildTypes
    <3>2. DOMAIN generations = DOMAIN jobs
      BY <3>1, LenProperties
    <3> QED BY <3>1, <3>2, <1>2, LenProperties
  <2>6. {Order[i] : i \in page} \in SUBSET Assertions
    <3>1. \A i \in DOMAIN Order : Order[i] \in Assertions
      BY ProjectionAssumption, LenProperties
    <3> QED BY <3>1, <2>1
  <2>7. rows \in Rows
    <3> DEFINE ns == {Order[i] : i \in page}
    <3> HIDE DEF ns, page, found, g
    <3> QED BY <2>1, <2>5, <2>6 DEF Rows, ns
  <2>8. generations' = [generations EXCEPT ![g] = rows]
    BY <1>5 DEF WriteBatch
  <2>9. v.status = "READY" <=> g \in manifests'
    BY <1>2, <2>3 DEF BuildInv, ReadyIsPublished
  <2> HIDE DEF v, rows, g
  <2>10. generations' \in Seq(Rows) /\ Len(generations') = Len(generations)
    BY <1>2, <2>7, <2>8, RowsMove DEF BuildInv
  <2> QED BY <1>2, <1>3, <2>3, <2>4, <2>9, <2>10, OneBuildKeeps DEF BuildInv, BuildTypes
<1> QED BY <1>4, <1>5

LEMMA WriteUnitsKeeps ==
  ASSUME BuildInv, NEW w \in Workers, WriteUnits(w)
  PROVE  BuildInv'
<1> DEFINE g == worker[w].job
           rows == [generations[g] EXCEPT !.units = TRUE]
<1>1. ~At(w, "idle") /\ "LEASE_LOST" \in Errors /\ "renewPublish" \in Steps
  BY DEF WriteUnits, At, Errors, Steps
<1>2. g \in DOMAIN jobs
  BY <1>1, BusyWorker DEF At, BuildInv
<1>3. worker' \in [Workers -> {Idle} \cup WorkerRecords]
  BY <1>1, WorkersGoOn DEF WriteUnits, BuildInv
<1>4. generations \in Seq(Rows) /\ generations[g] \in Rows
  <2>1. generations \in Seq(Rows) /\ jobs \in Seq(JobRecords) /\ Len(generations) = Len(jobs)
    BY DEF BuildInv, BuildTypes
  <2> QED BY <2>1, <1>2, LenProperties
<1>5. generations' \in Seq(Rows) /\ Len(generations') = Len(generations)
  <2>1. CASE UNCHANGED generations
    BY <2>1, <1>4
  <2>2. CASE generations' = [generations EXCEPT ![g].units = TRUE]
    <3>1. rows \in Rows
      BY <1>4 DEF Rows
    <3>2. generations' = [generations EXCEPT ![g] = rows]
      BY <2>2
    <3> HIDE DEF rows, g
    <3> QED BY <3>1, <3>2, <1>2, RowsMove DEF BuildInv
  <2> QED BY <2>1, <2>2 DEF WriteUnits
<1> QED BY <1>3, <1>5, NoBuildKeeps DEF WriteUnits, BuildInv, BuildTypes

LEMMA CheckPublicationKeeps ==
  ASSUME BuildInv, NEW w \in Workers, CheckPublication(w)
  PROVE  BuildInv'
<1>1. ~At(w, "idle") /\ "commit" \in Steps
      /\ {"LEASE_LOST", "COUNT_MISMATCH", "ENDPOINT_CLOSURE_FAILED"} \subseteq Errors
  BY DEF CheckPublication, At, Errors, Steps
<1>2. worker' \in [Workers -> {Idle} \cup WorkerRecords]
  BY <1>1, WorkersGoOn DEF CheckPublication, BuildInv
<1> QED BY <1>2, NoBuildKeeps DEF CheckPublication, BuildInv, BuildTypes

LEMMA CommitPublicationKeeps ==
  ASSUME BuildInv, NEW w \in Workers, CommitPublication(w)
  PROVE  BuildInv'
<1> DEFINE g == worker[w].job
           v == [jobs[g] EXCEPT !.status = "READY", !.owner = None, !.lease = FALSE,
                    !.nodes = worker[w].nodes + Cardinality(worker[w].page),
                    !.edges = worker[w].edges + Cardinality(worker[w].found)]
<1>1. ~At(w, "idle")
  BY DEF CommitPublication, At
<1>2. worker[w] \in WorkerRecords /\ g \in DOMAIN jobs /\ jobs[g] \in JobRecords
  BY <1>1, BusyWorker DEF At, BuildInv
<1>3. worker' \in [Workers -> {Idle} \cup WorkerRecords]
  BY <1>1, WorkersGoOn DEF CommitPublication, BuildInv
<1>4. Cardinality(worker[w].page) \in Nat /\ Cardinality(worker[w].found) \in Nat
  <2>1. worker[w].page \in SUBSET (DOMAIN Order) /\ worker[w].found \in SUBSET Relationships
    BY <1>2 DEF WorkerRecords
  <2> QED BY <2>1, CursorIsInOrder, AssertionsAreFinite, FS_Subset, FS_CardinalityType DEF Assertions
<1>5. v \in JobRecords /\ v.status = "READY"
  <2>1. worker[w].nodes + Cardinality(worker[w].page) \in Nat
        /\ worker[w].edges + Cardinality(worker[w].found) \in Nat
    BY <1>2, <1>4 DEF WorkerRecords
  <2> QED BY <1>2, <2>1 DEF JobRecords
<1>6. jobs' = [jobs EXCEPT ![g] = v] /\ manifests' = manifests \cup {g}
  BY DEF CommitPublication
<1> HIDE DEF v, g
<1> QED BY <1>2, <1>3, <1>5, <1>6, OneBuildKeeps DEF CommitPublication, BuildInv, BuildTypes

LEMMA FailKeeps ==
  ASSUME BuildInv, NEW w \in Workers, Fail(w)
  PROVE  BuildInv'
<1> DEFINE g == worker[w].job
           v == [jobs[g] EXCEPT !.status = "FAILED", !.owner = None, !.lease = FALSE,
                                !.error = worker[w].error]
<1>1. ~At(w, "idle")
  BY DEF Fail, At
<1>2. worker[w] \in WorkerRecords /\ g \in DOMAIN jobs /\ jobs[g] \in JobRecords
  BY <1>1, BusyWorker DEF At, BuildInv
<1>3. worker' \in [Workers -> {Idle} \cup WorkerRecords]
  BY <1>1, WorkersGoOn DEF Fail, BuildInv
<1>4. CASE ~Holds(w)
  BY <1>3, <1>4, NoBuildKeeps DEF Fail, BuildInv, BuildTypes
<1>5. CASE Holds(w)
  <2>1. v \in JobRecords /\ v.status = "FAILED"
    BY <1>2 DEF JobRecords, WorkerRecords
  <2>2. jobs' = [jobs EXCEPT ![g] = v]
    BY <1>5 DEF Fail
  <2>3. g \notin manifests
    BY <1>2, <1>5 DEF Holds, Job, BuildInv, ReadyIsPublished
  <2> HIDE DEF v, g
  <2> QED BY <1>2, <1>3, <2>1, <2>2, <2>3, OneBuildKeeps DEF Fail, BuildInv, BuildTypes
<1> QED BY <1>4, <1>5

LEMMA LeaseEndsKeeps ==
  ASSUME BuildInv, NEW g \in DOMAIN jobs, LeaseEnds(g)
  PROVE  BuildInv'
<1> DEFINE v == [jobs[g] EXCEPT !.lease = FALSE]
<1>1. jobs[g] \in JobRecords
  <2>1. jobs \in Seq(JobRecords)
    BY DEF BuildInv, BuildTypes
  <2> QED BY <2>1, LenProperties
<1>2. v \in JobRecords /\ v.status = jobs[g].status
  BY <1>1 DEF JobRecords
<1>3. jobs' = [jobs EXCEPT ![g] = v] /\ UNCHANGED <<governance, generations, manifests, worker>>
  BY DEF LeaseEnds
<1>4. faults' \in 0 .. MaxFaults
  BY ProjectionAssumption DEF LeaseEnds, BuildInv, BuildTypes
<1>5. v.status = "READY" <=> g \in manifests'
  BY <1>2, <1>3 DEF BuildInv, ReadyIsPublished
<1> HIDE DEF v
<1> QED BY <1>2, <1>3, <1>4, <1>5, OneBuildKeeps DEF BuildInv, BuildTypes

LEMMA FaultsKeep ==
  ASSUME BuildInv, NEW w \in Workers, Crash(w) \/ Break(w)
  PROVE  BuildInv'
<1>1. ~At(w, "idle") /\ "BUILD_FAILED" \in Errors
  BY DEF Crash, Break, Errors
<1>2. worker' \in [Workers -> {Idle} \cup WorkerRecords]
  BY <1>1, WorkersGoOn DEF Crash, Break, BuildInv
<1>3. faults' \in 0 .. MaxFaults
  BY ProjectionAssumption DEF Crash, Break, BuildInv, BuildTypes
<1> QED BY <1>2, <1>3, NoBuildKeeps DEF Crash, Break, BuildInv, BuildTypes

LEMMA BuildInvNext == BuildInv /\ [Next]_vars => BuildInv'
<1> SUFFICES ASSUME BuildInv, [Next]_vars
             PROVE  BuildInv'
  OBVIOUS
<1>1. CASE GovernanceNext /\ UNCHANGED projection
  BY <1>1, GovernanceKeeps
<1>2. ASSUME NEW b \in DOMAIN baselines, NEW query \in Queries, Request(b, query)
      PROVE  BuildInv'
  BY <1>2, RequestKeeps
<1>3. ASSUME NEW w \in Workers, NEW g \in DOMAIN jobs, Claim(w, g)
      PROVE  BuildInv'
  BY <1>3, ClaimKeeps
<1>4. ASSUME NEW w \in Workers, Work(w)
      PROVE  BuildInv'
  BY <1>4, RenewKeeps, LoadPageKeeps, LoadRelationshipsKeeps, WriteBatchKeeps, WriteUnitsKeeps,
     CheckPublicationKeeps, CommitPublicationKeeps, FailKeeps DEF Work
<1>5. ASSUME NEW w \in Workers, Crash(w) \/ Break(w)
      PROVE  BuildInv'
  BY <1>5, FaultsKeep
<1>6. ASSUME NEW g \in DOMAIN jobs, LeaseEnds(g)
      PROVE  BuildInv'
  BY <1>6, LeaseEndsKeeps
<1>7. CASE UNCHANGED vars
  <2>1. UNCHANGED <<governance, jobs, generations, manifests, worker, faults>>
    BY <1>7 DEF vars, projection
  <2> QED BY <2>1, NoBuildKeeps DEF BuildInv, BuildTypes
<1> QED BY <1>1, <1>2, <1>3, <1>4, <1>5, <1>6, <1>7 DEF Next

-----------------------------------------------------------------------------
(* Theorems                                                                *)

LEMMA BuildInvHolds == Spec => []BuildInv
BY BuildInvInit, BuildInvNext, PTL DEF Spec

\* Every variable keeps its type; in particular no step of a worker leaves a
\* cursor behind the order of the assertions.
THEOREM BuildTypesAreKept == Spec => []TypeOK
<1>1. BuildInv => TypeOK
  BY TypesAreTypeOK DEF BuildInv
<1> QED BY <1>1, BuildInvHolds, PTL

\* For any number of workers, builds and faults a build is READY exactly if it
\* was published: what a worker does after it lost the build, the error it
\* reports included, never undoes a publication.
THEOREM ReadyBuildsArePublished == Spec => []ReadyIsPublished
<1>1. BuildInv => ReadyIsPublished
  BY DEF BuildInv
<1> QED BY <1>1, BuildInvHolds, PTL

\* What LostBuildIsLost says of one step.
LostIsLost ==
  \A w \in Workers : \A g \in DOMAIN jobs :
    (Working(w, g) /\ ~Holds(w) /\ worker'[w] # worker[w])
      => \/ jobs'[g] = jobs[g] /\ generations'[g] = generations[g]
         \/ At(w, "commit") /\ g \in manifests'

\* A step of one worker is not one of another.
LEMMA OthersStay ==
  ASSUME BuildTypes, NEW v \in Workers, NEW w \in Workers, v # w,
         Work(v) \/ Crash(v) \/ Break(v) \/ \E g \in DOMAIN jobs : Claim(v, g)
  PROVE  worker'[w] = worker[w]
<1>1. worker \in [Workers -> {Idle} \cup WorkerRecords]
  BY DEF BuildTypes
<1>2. ASSUME NEW p, Goto(v, p) PROVE worker'[w] = worker[w]
  BY <1>1, <1>2 DEF Goto
<1>3. ASSUME NEW e, Throw(v, e) PROVE worker'[w] = worker[w]
  BY <1>1, <1>3 DEF Throw
<1>4. ASSUME NEW x, worker' = [worker EXCEPT ![v] = x] PROVE worker'[w] = worker[w]
  BY <1>1, <1>4
<1>5. CASE Renew(v) \/ WriteBatch(v) \/ WriteUnits(v) \/ CheckPublication(v)
  BY <1>2, <1>3, <1>4, <1>5 DEF Renew, WriteBatch, WriteUnits, CheckPublication
<1>6. CASE LoadPage(v)
  BY <1>1, <1>6 DEF LoadPage
<1>7. CASE LoadRelationships(v)
  <2>1. CASE Throw(v, "ENDPOINT_UNRESOLVED")
    BY <2>1, <1>3
  <2>2. CASE ~Throw(v, "ENDPOINT_UNRESOLVED")
    BY <2>2, <1>1, <1>7 DEF LoadRelationships
  <2> QED BY <2>1, <2>2
<1>8. CASE CommitPublication(v) \/ Fail(v)
  BY <1>4, <1>8 DEF CommitPublication, Fail
<1>9. CASE Crash(v) \/ Break(v)
  BY <1>3, <1>4, <1>9 DEF Crash, Break
<1>10. CASE \E g \in DOMAIN jobs : Claim(v, g)
  <2>1. PICK g \in DOMAIN jobs : Claim(v, g)
    BY <1>10
  <2>2. \E x : worker' = [worker EXCEPT ![v] = x]
    BY <2>1 DEF Claim
  <2> QED BY <2>2, <1>4
<1> QED BY <1>5, <1>6, <1>7, <1>8, <1>9, <1>10 DEF Work

LEMMA LostIsLostNext == BuildInv /\ [Next]_vars => LostIsLost
<1> SUFFICES ASSUME BuildInv, [Next]_vars,
                    NEW w \in Workers, NEW g \in DOMAIN jobs,
                    Working(w, g), ~Holds(w), worker'[w] # worker[w]
             PROVE  \/ jobs'[g] = jobs[g] /\ generations'[g] = generations[g]
                    \/ At(w, "commit") /\ g \in manifests'
  BY DEF LostIsLost
<1>1. CASE GovernanceNext /\ UNCHANGED projection
  BY <1>1 DEF projection
<1>2. ASSUME NEW b \in DOMAIN baselines, NEW query \in Queries, Request(b, query)
      PROVE  FALSE
  BY <1>2 DEF Request
<1>3. ASSUME NEW v \in Workers, NEW k \in DOMAIN jobs, Claim(v, k)
      PROVE  FALSE
  <2>1. CASE v = w
    BY <2>1, <1>3 DEF Claim, Working
  <2>2. CASE v # w
    BY <2>2, <1>3, OthersStay DEF BuildInv
  <2> QED BY <2>1, <2>2
<1>4. ASSUME NEW v \in Workers, v # w, Work(v) \/ Crash(v) \/ Break(v)
      PROVE  FALSE
  BY <1>4, OthersStay DEF BuildInv
<1>5. CASE Work(w)
  <2>1. CASE CommitPublication(w)
    BY <2>1 DEF CommitPublication, Working
  <2>2. CASE ~CommitPublication(w)
    BY <2>2, <1>5 DEF Work, Renew, LoadPage, LoadRelationships, WriteBatch, WriteUnits,
       CheckPublication, Fail, Throw
  <2> QED BY <2>1, <2>2
<1>6. CASE Crash(w) \/ Break(w)
  BY <1>6 DEF Crash, Break
<1>7. ASSUME NEW k \in DOMAIN jobs, LeaseEnds(k)
      PROVE  FALSE
  BY <1>7 DEF LeaseEnds
<1>8. CASE UNCHANGED vars
  BY <1>8 DEF vars, projection
<1> QED BY <1>1, <1>2, <1>3, <1>4, <1>5, <1>6, <1>7, <1>8 DEF Next

\* For any number of workers, builds and faults: a worker whose build was taken
\* over changes nothing of it, except by a publication it had checked before.
THEOREM LostBuildsAreLost == Spec => LostBuildIsLost
<1>1. [Next]_vars /\ BuildInv => [LostIsLost]_vars
  BY LostIsLostNext
<1>2. Spec => [][LostIsLost]_vars
  BY <1>1, BuildInvHolds, PTL DEF Spec
<1> QED BY <1>2 DEF LostBuildIsLost, LostIsLost
==============================================================================
