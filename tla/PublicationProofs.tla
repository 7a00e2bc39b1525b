-------------------------- MODULE PublicationProofs --------------------------
(***************************************************************************)
(* Proofs about ProjectionBuild for any assertions, bundles, workers,      *)
(* builds and faults: a published projection is whole, although workers    *)
(* stop between batches, lose their build to one another, and assertions   *)
(* move to other change sets while it is built.                            *)
(***************************************************************************)
EXTENDS ProjectionBuildProofs

-----------------------------------------------------------------------------
(* The invariant                                                           *)

Loaded == {"relationships", "renewWrite", "write"}
Filled == {"renewUnits", "units", "renewPublish", "publish", "commit"}

\* The rows of a generation hold the content up to a place in the order.
Covered(content, i, rows) ==
  \A k \in DOMAIN Order : k <= i /\ Order[k] \in content => Order[k] \in rows.nodes

Linked(content, rows) == content \cap Relationships \subseteq rows.edges

EndsIn(edges, nodes) == \A rel \in edges : \A end \in {1, 2} : Endpoints[rel][end] \in nodes

\* What is behind a cursor has been written; relationships are with the first.
CursorFits(i, content, rows) == Covered(content, i, rows) /\ (i > 0 => Linked(content, rows))

\* A page skips nothing, was all that was left if it is the last, and shows
\* nothing but what was reviewed.
PageFits(k, content, reviewed) ==
  /\ \A i \in k.page : Order[i] \in reviewed
  /\ \A i \in DOMAIN Order :
       Order[i] \in content /\ (k.complete \/ i <= NextCursor(k.page)) => i <= k.from \/ i \in k.page

\* What a worker knows of its build, whether or not the build is still its own.
WorkFits(k, content, reviewed, rows) ==
  /\ CursorFits(k.from, content, rows)
  /\ k.pc \in Loaded => PageFits(k, content, reviewed)
  /\ k.pc \in {"renewWrite", "write"} /\ k.from = 0 => content \cap Relationships \subseteq k.found
  /\ k.pc \in Filled => content \subseteq rows.nodes /\ Linked(content, rows)
  /\ k.pc \in {"renewPublish", "publish", "commit"} => rows.units
  /\ k.pc = "commit" => EndsIn(rows.edges, rows.nodes)

\* A worker that took a build over while a publication of it was under way
\* finds nothing that is not there.
AddsNothing(k, rows) ==
  /\ k.pc \in Loaded => \A i \in k.page : Order[i] \in rows.nodes
  /\ k.pc \in {"renewWrite", "write"} => EndsIn(k.found, rows.nodes)

Held(g) == Content(jobs[g].baseline)
Allowed(g) == Reviewed(jobs[g].baseline)

\* An assertion of a change set was accepted and promoted with it.
MembersFit ==
  \A a \in Assertions : changeSetOf[a] # 0 =>
    a \in accepted /\ a \in changeSets[changeSetOf[a]].assertions

BuildFits(g) ==
  /\ CursorFits(jobs[g].cursor, Held(g), generations[g])
  /\ generations[g].nodes \subseteq Allowed(g)

WorkerFits(w) ==
  worker[w].pc # "idle" =>
    LET g == worker[w].job IN WorkFits(worker[w], Held(g), Allowed(g), generations[g])

TakeoverFits(v, w) ==
  worker[v].pc = "commit" /\ worker[w].pc # "idle" /\ worker[w].job = worker[v].job /\ Holds(w)
    => AddsNothing(worker[w], generations[worker[w].job])

PublicationInv ==
  /\ MembersFit
  /\ \A g \in DOMAIN jobs : BuildFits(g)
  /\ \A w \in Workers : WorkerFits(w)
  /\ \A v, w \in Workers : TakeoverFits(v, w)
  /\ PublishedIsWhole

-----------------------------------------------------------------------------
(* Pages and contents                                                      *)

\* The cursor that a page leaves is its greatest place.
LEMMA CursorEndsPage ==
  ASSUME NEW page \in SUBSET (DOMAIN Order)
  PROVE  /\ \A i \in page : i <= NextCursor(page)
         /\ page # {} => NextCursor(page) \in page
<1>1. Len(Order) \in Nat /\ DOMAIN Order = 1 .. Len(Order)
  BY ProjectionAssumption, LenProperties
<1>2. page \in SUBSET Nat /\ IsFiniteSet(page)
  <2>1. IsFiniteSet(1 .. Len(Order)) /\ page \in SUBSET (1 .. Len(Order))
    BY <1>1, FS_Interval
  <2> QED BY <2>1, <1>1, FS_Subset
<1>3. ASSUME page # {}
      PROVE  /\ \A i \in page : i <= NextCursor(page)
             /\ NextCursor(page) \in page
  <2>1. \E i \in page : \A k \in page : k <= i
    BY <1>2, <1>3, HasGreatest
  <2> QED BY <2>1, <1>3 DEF NextCursor
<1> QED BY <1>3

\* The first places of what is left, up to a limit, leave none between them out.
LEMMA PagesSkipNothing ==
  ASSUME NEW rest \in SUBSET (DOMAIN Order), NEW page \in SUBSET rest,
         page = {i \in rest : Cardinality({k \in rest : k < i}) < BatchLimit},
         NEW i \in page, NEW j \in rest, j <= i
  PROVE  j \in page
<1>1. Len(Order) \in Nat /\ DOMAIN Order = 1 .. Len(Order) /\ BatchLimit \in Nat
  BY ProjectionAssumption, LenProperties
<1>2. IsFiniteSet(rest)
  <2>1. IsFiniteSet(1 .. Len(Order)) /\ rest \in SUBSET (1 .. Len(Order))
    BY <1>1, FS_Interval
  <2> QED BY <2>1, FS_Subset
<1> DEFINE Before(x) == {k \in rest : k < x}
<1>3. Before(j) \subseteq Before(i) /\ Before(i) \subseteq rest
  BY <1>1
<1>4. IsFiniteSet(Before(i)) /\ IsFiniteSet(Before(j))
  BY <1>2, <1>3, FS_Subset
<1>5. Cardinality(Before(j)) <= Cardinality(Before(i))
      /\ Cardinality(Before(j)) \in Nat /\ Cardinality(Before(i)) \in Nat
  BY <1>3, <1>4, FS_Subset, FS_CardinalityType
<1>6. Cardinality(Before(i)) < BatchLimit
  OBVIOUS
<1>7. Cardinality(Before(j)) < BatchLimit
  <2> HIDE DEF Before
  <2> QED BY <1>1, <1>5, <1>6
<1> QED BY <1>7

\* Content that shrinks and rows that grow leave a worker what it knows.
LEMMA KnowledgeStays ==
  ASSUME NEW content, NEW less \in SUBSET content, NEW reviewed,
         NEW rows, NEW more, rows.nodes \subseteq more.nodes, rows.edges \subseteq more.edges,
         rows.units => more.units
  PROVE  /\ \A i : CursorFits(i, content, rows) => CursorFits(i, less, more)
         /\ \A k : /\ WorkFits(k, content, reviewed, rows)
                   /\ k.pc = "commit" => EndsIn(more.edges, more.nodes)
                   => WorkFits(k, less, reviewed, more)
         /\ \A k : AddsNothing(k, rows) => AddsNothing(k, more)
<1>1. \A i : CursorFits(i, content, rows) => CursorFits(i, less, more)
  BY DEF CursorFits, Covered, Linked
<1>2. ASSUME NEW k, WorkFits(k, content, reviewed, rows),
             k.pc = "commit" => EndsIn(more.edges, more.nodes)
      PROVE  WorkFits(k, less, reviewed, more)
  <2>1. PageFits(k, content, reviewed) => PageFits(k, less, reviewed)
    BY DEF PageFits
  <2> QED BY <1>1, <1>2, <2>1 DEF WorkFits, Linked
<1>3. \A k : AddsNothing(k, rows) => AddsNothing(k, more)
  BY DEF AddsNothing, EndsIn
<1> QED BY <1>1, <1>2, <1>3

-----------------------------------------------------------------------------
(* The governed path                                                       *)

\* A promotion takes assertions from other change sets only.
LEMMA PromotionsTake ==
  ASSUME GovernanceTypeOK, MembersFit, NEW by, NEW batch \in SUBSET Assertions,
         Materialize(by, batch)
  PROVE  /\ MembersFit'
         /\ \A b \in DOMAIN baselines : Content(b)' \subseteq Content(b) /\ Reviewed(b)' = Reviewed(b)
<1> DEFINE new == [by |-> by, assertions |-> batch, version |-> graph']
           n == Len(changeSets)
<1>1. changeSets' = Append(changeSets, new) /\ UNCHANGED <<accepted, baselines>>
  BY DEF Materialize
<1>2. changeSets \in Seq(ChangeSetRecords) /\ changeSetOf \in [Assertions -> 0 .. n]
  BY DEF GovernanceTypeOK, ChangeSetRecords
<1>3. /\ n \in Nat /\ DOMAIN changeSets = 1 .. n /\ Len(changeSets') = n + 1
      /\ \A c \in 1 .. n : changeSets'[c] = changeSets[c]
      /\ changeSets'[n + 1] = new
  <2> DEFINE S == ChangeSetRecords \cup {new}
  <2>1. changeSets \in Seq(S) /\ new \in S
    BY <1>2, SeqMonotonic
  <2> HIDE DEF S, new
  <2> QED BY <2>1, <1>1, LenProperties, AppendProperties
<1>4. new.assertions = batch
  OBVIOUS
<1> HIDE DEF new
<1>5. changeSetOf' = [a \in Assertions |-> IF a \in batch THEN n + 1 ELSE changeSetOf[a]]
      /\ batch \subseteq accepted
  BY <1>3 DEF Materialize
<1>6. MembersFit'
  BY <1>1, <1>2, <1>3, <1>4, <1>5 DEF MembersFit
<1>7. \A b \in DOMAIN baselines : baselines[b].changeSet \in 1 .. n
  <2> DEFINE B == [changeSet : DOMAIN changeSets, status : {"PUBLISHED", "SUPERSEDED"}]
  <2>1. \A x \in B : x.changeSet \in 1 .. n
    BY <1>3
  <2>2. baselines \in Seq(B)
    BY DEF GovernanceTypeOK
  <2> HIDE DEF B
  <2> QED BY <2>1, <2>2, LenProperties
<1>8. ASSUME NEW b \in DOMAIN baselines
      PROVE  Content(b)' \subseteq Content(b) /\ Reviewed(b)' = Reviewed(b)
  <2>1. n + 1 # baselines[b].changeSet
    BY <1>3, <1>7
  <2>2. accepted \subseteq Assertions
    BY DEF GovernanceTypeOK
  <2> QED BY <1>1, <1>3, <1>5, <1>7, <2>1, <2>2 DEF Content, Reviewed
<1> QED BY <1>6, <1>8

\* What a baseline holds only shrinks, and what it was reviewed with stays.
LEMMA ContentShrinks ==
  ASSUME GovernanceTypeOK, MembersFit, GovernanceNext
  PROVE  /\ MembersFit'
         /\ \A b \in DOMAIN baselines : Content(b)' \subseteq Content(b) /\ Reviewed(b)' = Reviewed(b)
<1> DEFINE Goal == /\ MembersFit'
                   /\ \A b \in DOMAIN baselines :
                        Content(b)' \subseteq Content(b) /\ Reviewed(b)' = Reviewed(b)
<1>1. ASSUME UNCHANGED <<accepted, changeSetOf, changeSets, baselines>>
      PROVE  Goal
  BY <1>1 DEF MembersFit, Content, Reviewed
<1>2. ASSUME NEW d \in Decisions, RecordDecision(d)
      PROVE  Goal
  <2>1. accepted \subseteq accepted' /\ UNCHANGED <<changeSetOf, changeSets, baselines>>
    BY <1>2 DEF RecordDecision
  <2>2. \A b \in DOMAIN baselines : baselines[b].changeSet # 0
    <3> DEFINE B == [changeSet : DOMAIN changeSets, status : {"PUBLISHED", "SUPERSEDED"}]
    <3>1. changeSets \in Seq(ChangeSetRecords)
      BY DEF GovernanceTypeOK, ChangeSetRecords
    <3>2. DOMAIN changeSets = 1 .. Len(changeSets) /\ Len(changeSets) \in Nat
      BY <3>1, LenProperties
    <3>3. \A x \in B : x.changeSet # 0
      BY <3>2
    <3>4. baselines \in Seq(B)
      BY DEF GovernanceTypeOK
    <3> HIDE DEF B
    <3> QED BY <3>3, <3>4, LenProperties
  <2>3. accepted' \subseteq Assertions
    <3>1. GovernanceTypeOK'
      BY GovernanceTypes
    <3> QED BY <3>1 DEF GovernanceTypeOK
  <2> QED BY <2>1, <2>2, <2>3 DEF MembersFit, Content, Reviewed
<1>3. ASSUME NEW d \in Decisions, PromoteDecision(d)
      PROVE  Goal
  <2>1. decision[d] # None
    BY <1>3 DEF PromoteDecision, Approvals
  <2>2. decision[d].targets \in SUBSET Assertions
    BY <2>1 DEF GovernanceTypeOK
  <2> QED BY <2>2, <1>3, PromotionsTake DEF PromoteDecision
<1>4. ASSUME NEW st \in ReviewSets, PromoteReviewSet(st)
      PROVE  Goal
  <2>1. UNION {Members[b] : b \in Expected[st]} \in SUBSET Assertions
    BY GovernanceAssumption
  <2> QED BY <2>1, <1>4, PromotionsTake DEF PromoteReviewSet
<1>5. ASSUME NEW c \in DOMAIN changeSets, PublishBaseline(c)
      PROVE  Goal
  <2> DEFINE old == [b \in DOMAIN baselines |-> [baselines[b] EXCEPT !.status = "SUPERSEDED"]]
             new == [changeSet |-> c, status |-> "PUBLISHED"]
             B == [changeSet : DOMAIN changeSets, status : {"PUBLISHED", "SUPERSEDED"}]
             n == Len(baselines)
  <2>1. baselines' = Append(old, new) /\ UNCHANGED <<accepted, changeSetOf, changeSets>>
    BY <1>5 DEF PublishBaseline
  <2>2. n \in Nat /\ DOMAIN baselines = 1 .. n /\ \A b \in 1 .. n : baselines[b] \in B
    <3>1. baselines \in Seq(B)
      BY DEF GovernanceTypeOK
    <3> HIDE DEF B
    <3> QED BY <3>1, LenProperties
  <2>3. \A b \in 1 .. n : old[b] \in B /\ old[b].changeSet = baselines[b].changeSet
    BY <2>2
  <2>4. old \in [1 .. n -> B]
    BY <2>2, <2>3
  <2>5. new \in B
    OBVIOUS
  <2>6. \A b \in DOMAIN baselines : baselines'[b].changeSet = baselines[b].changeSet
    <3> HIDE DEF old, new, B, n
    <3>1. old \in Seq(B) /\ Len(old) = n
      BY <2>2, <2>4
    <3>2. \A b \in 1 .. n : baselines'[b] = old[b]
      BY <2>1, <2>5, <3>1, AppendProperties
    <3> QED BY <2>2, <2>3, <3>2
  <2> QED BY <2>1, <2>6 DEF MembersFit, Content, Reviewed
<1> HIDE DEF Goal
<1>6. Goal
  <2>1. CASE \E b \in Bundles, st \in {"READY", "BLOCKED"} : CreateBundle(b, st)
    BY <2>1, <1>1 DEF CreateBundle
  <2>2. CASE \E d \in Decisions, b \in Bundles, approve \in BOOLEAN, targets \in SUBSET Assertions :
               ReadForDecision(d, b, approve, targets)
    BY <2>2, <1>1 DEF ReadForDecision
  <2>3. CASE OutsideCommand
    BY <2>3, <1>1 DEF OutsideCommand
  <2>4. CASE \E c \in DOMAIN changeSets : Reconcile(c)
    BY <2>4, <1>1 DEF Reconcile
  <2> QED BY <1>2, <1>3, <1>4, <1>5, <2>1, <2>2, <2>3, <2>4 DEF GovernanceNext
<1> QED BY <1>6 DEF Goal

-----------------------------------------------------------------------------
(* Steps                                                                   *)

\* What a step may do to a build: its content shrinks, and its rows grow.
Grows(g) ==
  /\ Held(g)' \subseteq Held(g) /\ Allowed(g)' = Allowed(g)
  /\ generations[g].nodes \subseteq generations'[g].nodes
  /\ generations[g].edges \subseteq generations'[g].edges
  /\ generations[g].units => generations'[g].units

Published(g) ==
  /\ Held(g) \subseteq generations[g].nodes /\ generations[g].nodes \subseteq Allowed(g)
  /\ Linked(Held(g), generations[g]) /\ generations[g].units
  /\ EndsIn(generations[g].edges, generations[g].nodes)

LEMMA WholeIsPublished ==
  /\ PublishedIsWhole <=> \A g \in manifests : Published(g)
  /\ PublishedIsWhole' <=> \A g \in manifests' : Published(g)'
<1>1. PublishedIsWhole <=> \A g \in manifests : Published(g)
  BY Zenon DEF PublishedIsWhole, Published, Held, Allowed, Linked, EndsIn
<1>2. PublishedIsWhole' <=> \A g \in manifests' : Published(g)'
  BY Zenon DEF PublishedIsWhole, Published, Held, Allowed, Linked, EndsIn
<1> QED BY <1>1, <1>2

\* A step in which only the workers of "moved" go on, and which touches no
\* published build: what there is to show is about them.
LEMMA StepKeeps ==
  ASSUME BuildTypes, PublicationInv, MembersFit', NEW moved \in SUBSET Workers,
         \A w \in Workers \ moved : worker'[w] = worker[w],
         \A w \in moved : WorkerFits(w)',
         \A w \in moved : \A v \in Workers : TakeoverFits(v, w)' /\ TakeoverFits(w, v)',
         \A w \in Workers \ moved : worker[w].pc # "idle" /\ Holds(w)' => Holds(w),
         \A g \in DOMAIN jobs : Grows(g),
         \A g \in DOMAIN jobs' : BuildFits(g)',
         \A w \in Workers \ moved : worker[w].pc = "commit" =>
           LET g == worker[w].job IN EndsIn(generations'[g].edges, generations'[g].nodes),
         \A g \in manifests : UNCHANGED generations[g],
         \A g \in manifests' \ manifests : Published(g)'
  PROVE  PublicationInv'
<1>1. ASSUME NEW w \in Workers \ moved
      PROVE  WorkerFits(w)'
  <2> SUFFICES ASSUME worker[w].pc # "idle", NEW g, g = worker[w].job
               PROVE  WorkFits(worker[w], Held(g)', Allowed(g)', generations'[g])
    BY DEF WorkerFits
  <2>1. g \in DOMAIN jobs
    BY BusyWorker
  <2>2. WorkFits(worker[w], Held(g), Allowed(g), generations[g])
    BY DEF PublicationInv, WorkerFits
  <2>3. worker[w].pc = "commit" => EndsIn(generations'[g].edges, generations'[g].nodes)
    OBVIOUS
  <2> QED BY <2>1, <2>2, <2>3, KnowledgeStays DEF Grows
<1>2. ASSUME NEW v \in Workers \ moved, NEW w \in Workers \ moved
      PROVE  TakeoverFits(v, w)'
  <2> SUFFICES ASSUME worker[v].pc = "commit", worker[w].pc # "idle",
                      worker[w].job = worker[v].job, Holds(w)', NEW g, g = worker[w].job
               PROVE  AddsNothing(worker[w], generations'[g])
    BY DEF TakeoverFits
  <2>1. g \in DOMAIN jobs
    BY BusyWorker
  <2>2. AddsNothing(worker[w], generations[g])
    BY DEF PublicationInv, TakeoverFits
  <2> QED BY <2>1, <2>2, KnowledgeStays DEF Grows
<1>3. PublishedIsWhole'
  <2> SUFFICES ASSUME NEW g \in manifests PROVE Published(g)'
    BY WholeIsPublished
  <2>1. g \in DOMAIN jobs /\ Grows(g) /\ UNCHANGED generations[g]
    BY DEF BuildTypes
  <2>2. Published(g)
    BY WholeIsPublished DEF PublicationInv
  <2> QED BY <2>1, <2>2 DEF Published, Grows, Linked
<1> QED BY <1>1, <1>2, <1>3 DEF PublicationInv

\* A step that writes no rows and moves no cursor
LEMMA RowsStayed ==
  ASSUME BuildTypes, PublicationInv, UNCHANGED <<governance, generations, manifests>>,
         NEW w \in Workers, \A v \in Workers : v # w => worker'[v] = worker[v],
         DOMAIN jobs' = DOMAIN jobs,
         \A g \in DOMAIN jobs : jobs'[g].baseline = jobs[g].baseline /\ jobs'[g].cursor = jobs[g].cursor,
         \A v \in Workers : v # w /\ worker[v].pc # "idle" /\ Holds(v)' => Holds(v),
         WorkerFits(w)',
         \A v \in Workers : TakeoverFits(v, w)' /\ TakeoverFits(w, v)'
  PROVE  PublicationInv'
<1>1. MembersFit' /\ \A b : Content(b)' = Content(b) /\ Reviewed(b)' = Reviewed(b)
  BY DEF governance, PublicationInv, MembersFit, Content, Reviewed
<1>2. \A g \in DOMAIN jobs : Held(g)' = Held(g) /\ Allowed(g)' = Allowed(g)
  BY <1>1 DEF Held, Allowed, Content, Reviewed, governance
<1>3. \A g \in DOMAIN jobs : Grows(g)
  BY <1>2 DEF Grows
<1>4. \A g \in DOMAIN jobs' : BuildFits(g)'
  BY <1>2 DEF PublicationInv, BuildFits
<1>5. ASSUME NEW v \in Workers \ {w}, worker[v].pc = "commit"
      PROVE  LET g == worker[v].job IN EndsIn(generations'[g].edges, generations'[g].nodes)
  BY <1>5 DEF PublicationInv, WorkerFits, WorkFits
<1> DEFINE moved == {w}
<1>6. /\ moved \in SUBSET Workers
      /\ \A v \in Workers \ moved : worker'[v] = worker[v]
      /\ \A v \in moved : WorkerFits(v)'
      /\ \A v \in moved : \A u \in Workers : TakeoverFits(u, v)' /\ TakeoverFits(v, u)'
      /\ \A v \in Workers \ moved : worker[v].pc # "idle" /\ Holds(v)' => Holds(v)
      /\ \A v \in Workers \ moved : worker[v].pc = "commit" =>
           LET g == worker[v].job IN EndsIn(generations'[g].edges, generations'[g].nodes)
  BY <1>5
<1>7. /\ \A g \in manifests : UNCHANGED generations[g]
      /\ \A g \in manifests' \ manifests : Published(g)'
  OBVIOUS
<1> HIDE DEF moved
<1> QED BY <1>1, <1>3, <1>4, <1>6, <1>7, StepKeeps

-----------------------------------------------------------------------------
(* The invariant at the start, and the steps that write no rows            *)

LEMMA PublicationInvInit == Init => PublicationInv
<1> SUFFICES ASSUME Init PROVE PublicationInv
  OBVIOUS
<1>1. MembersFit
  BY DEF Init, GovernanceInit, MembersFit
<1>2. DOMAIN jobs = {} /\ manifests = {}
  BY EmptySeq DEF Init
<1>3. \A w \in Workers : worker[w].pc = "idle"
  BY DEF Init, Idle
<1> QED BY <1>1, <1>2, <1>3 DEF PublicationInv, WorkerFits, TakeoverFits, PublishedIsWhole

LEMMA GovernanceKeepsWhole ==
  ASSUME BuildInv, PublicationInv, GovernanceNext, UNCHANGED projection
  PROVE  PublicationInv'
<1>1. UNCHANGED <<jobs, generations, manifests, worker>>
  BY DEF projection
<1>2. /\ MembersFit'
      /\ \A b \in DOMAIN baselines : Content(b)' \subseteq Content(b) /\ Reviewed(b)' = Reviewed(b)
  BY ContentShrinks DEF BuildInv, BuildTypes, PublicationInv
<1>3. ASSUME NEW g \in DOMAIN jobs
      PROVE  Grows(g) /\ BuildFits(g)'
  <2>1. jobs[g].baseline \in DOMAIN baselines
    <3>1. jobs \in Seq(JobRecords)
      BY DEF BuildInv, BuildTypes
    <3>2. jobs[g] \in JobRecords
      BY <3>1, LenProperties
    <3> QED BY <3>2 DEF JobRecords
  <2>2. Held(g)' \subseteq Held(g) /\ Allowed(g)' = Allowed(g)
    <3>1. PICK b \in DOMAIN baselines : b = jobs[g].baseline
      BY <2>1
    <3>2. Content(b)' \subseteq Content(b) /\ Reviewed(b)' = Reviewed(b)
      BY <1>2
    <3>3. Held(g)' = Content(b)' /\ Allowed(g)' = Reviewed(b)'
      BY <1>1, <3>1 DEF Held, Allowed, Content, Reviewed
    <3>4. Held(g) = Content(b) /\ Allowed(g) = Reviewed(b)
      BY <3>1 DEF Held, Allowed
    <3> QED BY <3>2, <3>3, <3>4
  <2>3. Grows(g)
    BY <1>1, <2>2 DEF Grows
  <2>4. CursorFits(jobs[g].cursor, Held(g)', generations[g])
    BY <2>2, KnowledgeStays DEF PublicationInv, BuildFits
  <2> QED BY <1>1, <2>2, <2>3, <2>4 DEF PublicationInv, BuildFits
<1>4. \A w \in Workers : worker[w].pc = "commit" =>
        LET g == worker[w].job IN EndsIn(generations[g].edges, generations[g].nodes)
  BY DEF PublicationInv, WorkerFits, WorkFits
<1> DEFINE moved == {}
<1>5. moved \in SUBSET Workers /\ \A w \in Workers : Holds(w)' = Holds(w)
  BY <1>1 DEF Holds, Job
<1>6. DOMAIN jobs' = DOMAIN jobs /\ \A g \in manifests' \ manifests : Published(g)'
  BY <1>1
<1>7. BuildTypes
  BY DEF BuildInv
<1> QED BY <1>1, <1>2, <1>3, <1>4, <1>5, <1>6, <1>7, StepKeeps

LEMMA RequestKeepsWhole ==
  ASSUME BuildInv, PublicationInv, NEW b \in DOMAIN baselines, NEW query \in Queries,
         Request(b, query)
  PROVE  PublicationInv'
<1> DEFINE new == [baseline |-> b, query |-> query, status |-> "QUEUED", owner |-> None,
                   lease |-> FALSE, cursor |-> 0, nodes |-> 0, edges |-> 0, error |-> None]
           rows == [nodes |-> {}, edges |-> {}, units |-> FALSE]
           n == Len(jobs)
<1>1. /\ jobs' = Append(jobs, new) /\ generations' = Append(generations, rows)
      /\ UNCHANGED <<governance, manifests, worker>>
  BY DEF Request
<1>2. jobs \in Seq(JobRecords) /\ generations \in Seq(Rows) /\ Len(generations) = n
      /\ manifests \subseteq DOMAIN jobs /\ UNCHANGED baselines
  BY <1>1 DEF BuildInv, BuildTypes, governance
<1>3. new \in JobRecords /\ new.cursor = 0 /\ rows \in Rows /\ rows.nodes = {}
  BY ProjectionAssumption, LenProperties DEF JobRecords, Active, Rows
<1> HIDE DEF new, rows
<1>4. /\ n \in Nat /\ DOMAIN jobs = 1 .. n /\ DOMAIN jobs' = 1 .. (n + 1)
      /\ \A g \in 1 .. n : jobs'[g] = jobs[g] /\ generations'[g] = generations[g]
      /\ jobs'[n + 1] = new /\ generations'[n + 1] = rows
  BY <1>1, <1>2, <1>3, AppendProperties, LenProperties
<1>5. MembersFit' /\ \A g \in DOMAIN jobs : Held(g)' = Held(g) /\ Allowed(g)' = Allowed(g)
  BY <1>1, <1>4 DEF governance, PublicationInv, MembersFit, Held, Allowed, Content, Reviewed
<1>6. \A g \in DOMAIN jobs : Grows(g)
  BY <1>4, <1>5 DEF Grows
<1>7. ASSUME NEW g \in DOMAIN jobs'
      PROVE  BuildFits(g)'
  <2>1. CASE g \in DOMAIN jobs
    BY <2>1, <1>4, <1>5 DEF PublicationInv, BuildFits
  <2>2. CASE g = n + 1
    <3>1. \A k \in DOMAIN Order : ~(k <= 0)
      BY ProjectionAssumption, LenProperties
    <3> QED BY <2>2, <3>1, <1>3, <1>4 DEF BuildFits, CursorFits, Covered
  <2> QED BY <2>1, <2>2, <1>4
<1>8. \A w \in Workers : worker[w].pc # "idle" =>
        worker[w].job \in DOMAIN jobs /\ Holds(w)' = Holds(w)
  <2> SUFFICES ASSUME NEW w \in Workers, worker[w].pc # "idle"
               PROVE  worker[w].job \in DOMAIN jobs /\ Holds(w)' = Holds(w)
    OBVIOUS
  <2>1. worker[w].job \in DOMAIN jobs
    BY BusyWorker DEF BuildInv
  <2> QED BY <2>1, <1>1, <1>4 DEF Holds, Job
<1>9. \A w \in Workers : worker[w].pc = "commit" =>
        LET g == worker[w].job IN EndsIn(generations'[g].edges, generations'[g].nodes)
  BY <1>4, <1>8 DEF PublicationInv, WorkerFits, WorkFits
<1> DEFINE moved == {}
<1>10. /\ moved \in SUBSET Workers /\ \A g \in manifests' \ manifests : Published(g)'
       /\ \A g \in manifests : UNCHANGED generations[g]
  BY <1>1, <1>2, <1>4
<1> QED BY <1>1, <1>5, <1>6, <1>7, <1>8, <1>9, <1>10, StepKeeps DEF BuildInv

\* What a step changes of one build leaves the rest, and takes it from others at most.
LEMMA JobStays ==
  ASSUME BuildInv, NEW w \in Workers, NEW g \in DOMAIN jobs, NEW v,
         jobs' = [jobs EXCEPT ![g] = v], v.baseline = jobs[g].baseline,
         \/ v.status = jobs[g].status /\ v.owner = jobs[g].owner
         \/ v.status # "BUILDING" \/ v.owner = w,
         \A u \in Workers : u # w => worker'[u] = worker[u]
  PROVE  /\ DOMAIN jobs' = DOMAIN jobs
         /\ \A k \in DOMAIN jobs : jobs'[k].baseline = jobs[k].baseline
         /\ v.cursor = jobs[g].cursor => \A k \in DOMAIN jobs : jobs'[k].cursor = jobs[k].cursor
         /\ \A u \in Workers : u # w /\ worker[u].pc # "idle" /\ Holds(u)' => Holds(u)
<1>1. /\ DOMAIN jobs' = DOMAIN jobs
      /\ \A k \in DOMAIN jobs : jobs'[k] = IF k = g THEN v ELSE jobs[k]
  OBVIOUS
<1>2. ASSUME NEW u \in Workers, u # w, worker[u].pc # "idle", Holds(u)'
      PROVE  Holds(u)
  <2>1. worker[u].job \in DOMAIN jobs
    BY <1>2, BusyWorker DEF BuildInv
  <2>2. worker'[u].job = worker[u].job
    BY <1>2
  <2> QED BY <1>1, <1>2, <2>1, <2>2 DEF Holds, Job
<1> QED BY <1>1, <1>2

LEMMA ClaimKeepsWhole ==
  ASSUME BuildInv, PublicationInv, NEW w \in Workers, NEW g \in DOMAIN jobs, Claim(w, g)
  PROVE  PublicationInv'
<1> DEFINE v == [jobs[g] EXCEPT !.status = "BUILDING", !.owner = w, !.lease = TRUE]
           u == [Idle EXCEPT !.pc = "renewLoad", !.job = g, !.from = jobs[g].cursor,
                             !.nodes = jobs[g].nodes, !.edges = jobs[g].edges]
<1>1. jobs[g] \in JobRecords
  <2>1. jobs \in Seq(JobRecords)
    BY DEF BuildInv, BuildTypes
  <2> QED BY <2>1, LenProperties
<1>2. v.owner = w /\ v.baseline = jobs[g].baseline /\ v.cursor = jobs[g].cursor
  BY <1>1 DEF JobRecords
<1>3. u.pc = "renewLoad" /\ u.job = g /\ u.from = jobs[g].cursor
  BY DEF Idle
<1>4. /\ jobs' = [jobs EXCEPT ![g] = v] /\ worker' = [worker EXCEPT ![w] = u]
      /\ UNCHANGED <<governance, generations, manifests>>
  BY DEF Claim
<1> HIDE DEF u, v
<1>5. worker'[w] = u /\ \A z \in Workers : z # w => worker'[z] = worker[z]
  BY <1>4 DEF BuildInv, BuildTypes
<1>6. /\ DOMAIN jobs' = DOMAIN jobs
      /\ \A k \in DOMAIN jobs : jobs'[k].baseline = jobs[k].baseline /\ jobs'[k].cursor = jobs[k].cursor
      /\ \A z \in Workers : z # w /\ worker[z].pc # "idle" /\ Holds(z)' => Holds(z)
  BY <1>2, <1>4, <1>5, JobStays
<1>7. WorkerFits(w)'
  <2>1. CursorFits(jobs[g].cursor, Held(g), generations[g])
    BY DEF PublicationInv, BuildFits
  <2>2. Held(g)' = Held(g)
    BY <1>4, <1>6 DEF Held, Content, governance
  <2>3. WorkFits(u, Held(g), Allowed(g)', generations[g])
    BY <1>3, <2>1 DEF WorkFits, Loaded, Filled
  <2> QED BY <1>3, <1>4, <1>5, <2>2, <2>3 DEF WorkerFits
<1>8. \A z \in Workers : TakeoverFits(z, w)' /\ TakeoverFits(w, z)'
  BY <1>3, <1>5 DEF TakeoverFits, AddsNothing, Loaded
<1> QED BY <1>4, <1>5, <1>6, <1>7, <1>8, RowsStayed DEF BuildInv

\* A worker that gives up keeps what it knows and does nothing with it.
LEMMA GivingUpKeepsWhole ==
  ASSUME BuildInv, PublicationInv, UNCHANGED <<governance, generations, manifests>>,
         NEW w \in Workers, worker[w].pc # "idle",
         (\E e : Throw(w, e)) \/ worker' = [worker EXCEPT ![w] = Idle],
         DOMAIN jobs' = DOMAIN jobs,
         \A g \in DOMAIN jobs : jobs'[g].baseline = jobs[g].baseline /\ jobs'[g].cursor = jobs[g].cursor,
         \A v \in Workers : v # w /\ worker[v].pc # "idle" /\ Holds(v)' => Holds(v)
  PROVE  PublicationInv'
<1>1. /\ worker[w] \in WorkerRecords /\ worker[w].job \in DOMAIN jobs
      /\ worker \in [Workers -> {Idle} \cup WorkerRecords]
  BY BusyWorker DEF BuildInv, BuildTypes
<1>2. \A v \in Workers : v # w => worker'[v] = worker[v]
  BY <1>1 DEF Throw
<1>3. \/ worker'[w].pc = "idle"
      \/ /\ worker'[w].pc = "fail" /\ worker'[w].job = worker[w].job
         /\ worker'[w].from = worker[w].from
  <2>1. CASE worker' = [worker EXCEPT ![w] = Idle]
    BY <2>1, <1>1 DEF Idle
  <2>2. ASSUME NEW e, Throw(w, e)
        PROVE  /\ worker'[w].pc = "fail" /\ worker'[w].job = worker[w].job
               /\ worker'[w].from = worker[w].from
    <3>1. worker'[w] = [worker[w] EXCEPT !.pc = "fail", !.error = e]
      BY <2>2, <1>1 DEF Throw
    <3> QED BY <3>1, <1>1 DEF WorkerRecords
  <2> QED BY <2>1, <2>2
<1>4. WorkerFits(w)'
  <2> SUFFICES ASSUME worker'[w].pc = "fail", worker'[w].job = worker[w].job,
                      worker'[w].from = worker[w].from, NEW g, g = worker[w].job
               PROVE  WorkFits(worker'[w], Held(g)', Allowed(g)', generations'[g])
    BY <1>3 DEF WorkerFits
  <2>1. CursorFits(worker[w].from, Held(g), generations[g])
    BY DEF PublicationInv, WorkerFits, WorkFits
  <2>2. Held(g)' = Held(g)
    BY <1>1 DEF Held, Content, governance
  <2> QED BY <2>1, <2>2 DEF WorkFits, Loaded, Filled
<1>5. \A v \in Workers : TakeoverFits(v, w)' /\ TakeoverFits(w, v)'
  BY <1>3 DEF TakeoverFits, AddsNothing, Loaded
<1> QED BY <1>2, <1>4, <1>5, RowsStayed DEF BuildInv

-----------------------------------------------------------------------------
(* The steps of a worker                                                   *)

\* The build and the rows that a worker works on
LEMMA OwnBuild ==
  ASSUME BuildInv, NEW w \in Workers, worker[w].pc # "idle", NEW g, g = worker[w].job
  PROVE  /\ worker[w] \in WorkerRecords /\ g \in DOMAIN jobs /\ jobs[g] \in JobRecords
         /\ generations[g] \in Rows
<1>1. worker[w] \in WorkerRecords /\ g \in DOMAIN jobs /\ jobs[g] \in JobRecords
  BY BusyWorker DEF BuildInv
<1>2. jobs \in Seq(JobRecords) /\ generations \in Seq(Rows) /\ Len(generations) = Len(jobs)
  BY DEF BuildInv, BuildTypes
<1>3. DOMAIN generations = DOMAIN jobs
  BY <1>2, LenProperties
<1> QED BY <1>1, <1>2, <1>3, LenProperties

\* A worker goes on with its build, as k, without writing rows.
GoesOn(w, g, k) ==
  /\ UNCHANGED <<governance, generations, manifests>>
  /\ worker[w].pc # "idle" /\ g = worker[w].job
  /\ worker' = [worker EXCEPT ![w] = k] /\ k \in WorkerRecords /\ k.job = g
  /\ DOMAIN jobs' = DOMAIN jobs
  /\ \A h \in DOMAIN jobs : /\ jobs'[h].baseline = jobs[h].baseline
                            /\ jobs'[h].cursor = jobs[h].cursor
                            /\ jobs'[h].status = jobs[h].status
                            /\ jobs'[h].owner = jobs[h].owner
  /\ WorkFits(worker[w], Held(g), Allowed(g), generations[g])
       => WorkFits(k, Held(g), Allowed(g), generations[g])
  /\ \A v \in Workers : /\ worker[v].pc = "commit" /\ worker[v].job = g /\ Holds(w)
                        /\ AddsNothing(worker[w], generations[g])
                        /\ WorkFits(worker[v], Held(g), Allowed(g), generations[g])
                        => AddsNothing(k, generations[g])
  /\ k.pc # "commit" \/ Holds(w)

LEMMA GoingOnKeepsWhole ==
  ASSUME BuildInv, PublicationInv, NEW w \in Workers, NEW g, NEW k, GoesOn(w, g, k)
  PROVE  PublicationInv'
<1> USE DEF GoesOn
<1>1. g \in DOMAIN jobs /\ worker \in [Workers -> {Idle} \cup WorkerRecords]
  BY OwnBuild DEF BuildInv, BuildTypes
<1>2. worker'[w] = k /\ \A v \in Workers : v # w => worker'[v] = worker[v]
  BY <1>1
<1>3. Held(g)' = Held(g) /\ Allowed(g)' = Allowed(g)
  BY <1>1 DEF Held, Allowed, Content, Reviewed, governance
<1>4. WorkerFits(w)'
  <2>1. WorkFits(worker[w], Held(g), Allowed(g), generations[g])
    BY DEF PublicationInv, WorkerFits
  <2> QED BY <1>2, <1>3, <2>1 DEF WorkerFits
<1>5. \A v \in Workers : worker[v].pc # "idle" /\ worker'[v].job = worker[v].job => Holds(v)' = Holds(v)
  <2> SUFFICES ASSUME NEW v \in Workers, worker[v].pc # "idle", worker'[v].job = worker[v].job
               PROVE  Holds(v)' = Holds(v)
    OBVIOUS
  <2>1. worker[v].job \in DOMAIN jobs
    BY BusyWorker DEF BuildInv
  <2> QED BY <2>1 DEF Holds, Job
<1>6. Holds(w)' = Holds(w)
  BY <1>2, <1>5
<1>7. ASSUME NEW v \in Workers
      PROVE  TakeoverFits(v, w)'
  <2> SUFFICES ASSUME worker'[v].pc = "commit", worker'[v].job = g, Holds(w)'
               PROVE  AddsNothing(k, generations[g])
    BY <1>2 DEF TakeoverFits
  <2>1. CASE v = w
    BY <2>1, <1>2 DEF AddsNothing, Loaded
  <2>2. CASE v # w
    <3>1. worker[v].pc = "commit" /\ worker[v].job = g /\ Holds(w)
      BY <1>2, <1>6, <2>2
    <3>2. AddsNothing(worker[w], generations[g])
      BY <3>1 DEF PublicationInv, TakeoverFits
    <3>3. WorkFits(worker[v], Held(g), Allowed(g), generations[g])
      BY <3>1 DEF PublicationInv, WorkerFits
    <3> QED BY <3>1, <3>2, <3>3
  <2> QED BY <2>1, <2>2
<1>8. ASSUME NEW v \in Workers
      PROVE  TakeoverFits(w, v)'
  <2>1. CASE v = w
    BY <2>1, <1>7
  <2>2. CASE v # w
    <3> SUFFICES ASSUME k.pc = "commit", worker[v].pc # "idle", worker[v].job = g, Holds(v)'
                 PROVE  FALSE
      BY <1>2, <2>2 DEF TakeoverFits
    <3>1. Holds(v)
      BY <1>2, <1>5, <2>2
    <3> QED BY <2>2, <3>1 DEF Holds, Job
  <2> QED BY <2>1, <2>2
<1>9. \A v \in Workers : v # w /\ worker[v].pc # "idle" /\ Holds(v)' => Holds(v)
  BY <1>2, <1>5
<1> QED BY <1>2, <1>4, <1>7, <1>8, <1>9, RowsStayed DEF BuildInv

LEMMA RenewKeepsWhole ==
  ASSUME BuildInv, PublicationInv, NEW w \in Workers, Renew(w)
  PROVE  PublicationInv'
<1>0. PICK g : g = worker[w].job
  OBVIOUS
<1> DEFINE v == [jobs[g] EXCEPT !.lease = TRUE]
           p == Renewals[worker[w].pc]
           k == [worker[w] EXCEPT !.pc = p]
<1>1. /\ worker[w].pc \in {"renewLoad", "renewWrite", "renewUnits", "renewPublish"}
      /\ worker[w].pc # "idle" /\ UNCHANGED <<governance, generations, manifests>>
  BY DEF Renew, Renewals
<1>2. /\ worker[w] \in WorkerRecords /\ g \in DOMAIN jobs /\ jobs[g] \in JobRecords
  BY <1>0, <1>1, OwnBuild
<1>3. CASE Throw(w, "LEASE_LOST") /\ UNCHANGED jobs
  <2>1. \A u \in Workers : u # w => worker'[u] = worker[u]
    BY <1>3 DEF Throw, BuildInv, BuildTypes
  <2>2. \A u \in Workers : u # w /\ Holds(u)' => Holds(u)
    BY <1>3, <2>1 DEF Holds, Job
  <2> QED BY <1>1, <1>3, <2>2, GivingUpKeepsWhole
<1>4. CASE Holds(w) /\ jobs' = [jobs EXCEPT ![worker[w].job].lease = TRUE] /\ Goto(w, p)
  <2>1. jobs' = [jobs EXCEPT ![g] = v] /\ worker' = [worker EXCEPT ![w] = k]
    BY <1>0, <1>4 DEF Goto
  <2>2. /\ v.baseline = jobs[g].baseline /\ v.cursor = jobs[g].cursor
        /\ v.status = jobs[g].status /\ v.owner = jobs[g].owner
    BY <1>2 DEF JobRecords
  <2>3. /\ p \in Steps /\ k \in WorkerRecords /\ k.pc = p /\ k.job = worker[w].job
        /\ k.from = worker[w].from /\ k.page = worker[w].page /\ k.found = worker[w].found
        /\ k.complete = worker[w].complete
    <3>1. p \in Steps
      BY <1>1 DEF Renewals, Steps
    <3> HIDE DEF p
    <3> QED BY <1>2, <3>1 DEF WorkerRecords
  <2>4. \/ p = "load" /\ worker[w].pc = "renewLoad"
        \/ p = "write" /\ worker[w].pc = "renewWrite"
        \/ p = "units" /\ worker[w].pc = "renewUnits"
        \/ p = "publish" /\ worker[w].pc = "renewPublish"
    BY <1>1 DEF Renewals
  <2> HIDE DEF k, p, v
  <2>5. DOMAIN jobs' = DOMAIN jobs /\ \A h \in DOMAIN jobs : jobs'[h] = IF h = g THEN v ELSE jobs[h]
    BY <2>1
  <2>6. WorkFits(worker[w], Held(g), Allowed(g), generations[g])
          => WorkFits(k, Held(g), Allowed(g), generations[g])
    BY <2>3, <2>4 DEF WorkFits, PageFits, Loaded, Filled
  <2>7. AddsNothing(worker[w], generations[g]) => AddsNothing(k, generations[g])
    BY <2>3, <2>4 DEF AddsNothing, Loaded
  <2>8. k.pc # "commit"
    BY <2>3, <2>4
  <2>9. \A h \in DOMAIN jobs : /\ jobs'[h].baseline = jobs[h].baseline
                                /\ jobs'[h].cursor = jobs[h].cursor
                                /\ jobs'[h].status = jobs[h].status
                                /\ jobs'[h].owner = jobs[h].owner
    BY <2>2, <2>5
  <2>10. \A u \in Workers : /\ worker[u].pc = "commit" /\ worker[u].job = g /\ Holds(w)
                             /\ AddsNothing(worker[w], generations[g])
                             /\ WorkFits(worker[u], Held(g), Allowed(g), generations[g])
                             => AddsNothing(k, generations[g])
    BY <2>7
  <2>11. DOMAIN jobs' = DOMAIN jobs /\ worker' = [worker EXCEPT ![w] = k] /\ k \in WorkerRecords
         /\ k.job = worker[w].job /\ k.from = worker[w].from /\ worker[w].pc # "idle"
    BY <1>1, <2>1, <2>3, <2>5
  <2>12. GoesOn(w, g, k)
    BY <1>0, <1>1, <2>6, <2>8, <2>9, <2>10, <2>11 DEF GoesOn
  <2> QED BY <2>12, GoingOnKeepsWhole
<1> QED BY <1>3, <1>4 DEF Renew

\* What a baseline holds was reviewed with it.
LEMMA ContentIsReviewed ==
  ASSUME BuildInv, PublicationInv, NEW g \in DOMAIN jobs
  PROVE  Held(g) \subseteq Allowed(g) /\ Held(g) \subseteq Assertions
<1>1. jobs[g].baseline \in DOMAIN baselines
  <2>1. jobs \in Seq(JobRecords)
    BY DEF BuildInv, BuildTypes
  <2>2. jobs[g] \in JobRecords
    BY <2>1, LenProperties
  <2> QED BY <2>2 DEF JobRecords
<1>2. baselines[jobs[g].baseline].changeSet # 0
  <2> DEFINE B == [changeSet : DOMAIN changeSets, status : {"PUBLISHED", "SUPERSEDED"}]
  <2>1. changeSets \in Seq(ChangeSetRecords)
    BY DEF BuildInv, BuildTypes, GovernanceTypeOK, ChangeSetRecords
  <2>2. DOMAIN changeSets = 1 .. Len(changeSets) /\ Len(changeSets) \in Nat
    BY <2>1, LenProperties
  <2>3. \A x \in B : x.changeSet # 0
    BY <2>2
  <2>4. baselines \in Seq(B)
    BY DEF BuildInv, BuildTypes, GovernanceTypeOK
  <2> HIDE DEF B
  <2> QED BY <1>1, <2>3, <2>4, LenProperties
<1>3. accepted \subseteq Assertions
  BY DEF BuildInv, BuildTypes, GovernanceTypeOK
<1> QED BY <1>2, <1>3 DEF PublicationInv, MembersFit, Held, Allowed, Content, Reviewed

LEMMA LoadPageKeepsWhole ==
  ASSUME BuildInv, PublicationInv, NEW w \in Workers, LoadPage(w)
  PROVE  PublicationInv'
<1>0. PICK g : g = worker[w].job
  OBVIOUS
<1> DEFINE from == worker[w].from
           rest == Remaining(jobs[g].baseline, from)
           page == {i \in rest : Cardinality({k \in rest : k < i}) < BatchLimit}
           k == [worker[w] EXCEPT !.pc = "relationships", !.page = page, !.complete = (page = rest)]
<1>1. worker[w].pc = "load" /\ UNCHANGED <<governance, jobs, generations, manifests>>
      /\ worker' = [worker EXCEPT ![w] = k]
  BY <1>0 DEF LoadPage, At, Job
<1>2. worker[w] \in WorkerRecords /\ g \in DOMAIN jobs
  BY <1>0, <1>1, OwnBuild
<1>3. rest \in SUBSET (DOMAIN Order) /\ page \in SUBSET rest /\ page \in SUBSET (DOMAIN Order)
  BY DEF Remaining
<1>4. \A i \in DOMAIN Order : i \in rest <=> i > from /\ Order[i] \in Held(g)
  BY DEF Remaining, Held
<1>5. k \in WorkerRecords
  <2>1. (page = rest) \in BOOLEAN
    OBVIOUS
  <2> HIDE DEF page, rest
  <2> QED BY <1>2, <1>3, <2>1 DEF WorkerRecords, Steps
<1>6. /\ k.pc = "relationships" /\ k.job = g /\ k.from = from /\ k.page = page
      /\ k.complete = (page = rest)
  <2> HIDE DEF page, rest
  <2> QED BY <1>0, <1>2 DEF WorkerRecords
<1>7. PageFits(k, Held(g), Allowed(g))
  <2>1. \A i \in page : Order[i] \in Allowed(g)
    BY <1>2, <1>3, <1>4, ContentIsReviewed
  <2>2. ASSUME NEW i \in DOMAIN Order, Order[i] \in Held(g), k.complete \/ i <= NextCursor(page)
        PROVE  i <= from \/ i \in page
    <3>1. i \in Nat /\ from \in Nat /\ ~(i <= 0)
      BY <1>2, ProjectionAssumption, LenProperties DEF WorkerRecords
    <3>2. i <= from \/ i \in rest
      BY <1>4, <2>2, <3>1
    <3>3. CASE k.complete
      BY <3>2, <3>3, <1>6
    <3>4. CASE i <= NextCursor(page) /\ page # {}
      <4>1. NextCursor(page) \in page
        BY <1>3, <3>4, CursorEndsPage
      <4> QED BY <1>3, <3>2, <3>4, <4>1, PagesSkipNothing
    <3>5. CASE i <= NextCursor(page) /\ page = {}
      BY <3>1, <3>5 DEF NextCursor
    <3> QED BY <2>2, <3>3, <3>4, <3>5
  <2> HIDE DEF k, page, rest
  <2> QED BY <2>1, <2>2, <1>6 DEF PageFits
<1>8. \A i \in page : Order[i] \in Held(g)
  BY <1>3, <1>4
<1> HIDE DEF k, page, rest
<1>9. WorkFits(worker[w], Held(g), Allowed(g), generations[g])
        => WorkFits(k, Held(g), Allowed(g), generations[g])
  BY <1>6, <1>7 DEF WorkFits, Filled
<1>10. \A v \in Workers : /\ worker[v].pc = "commit"
                          /\ WorkFits(worker[v], Held(g), Allowed(g), generations[g])
                          => AddsNothing(k, generations[g])
  BY <1>6, <1>8 DEF WorkFits, Filled, AddsNothing
<1>11. GoesOn(w, g, k)
  BY <1>0, <1>1, <1>5, <1>6, <1>9, <1>10 DEF GoesOn
<1> QED BY <1>11, GoingOnKeepsWhole

LEMMA LoadRelationshipsKeepsWhole ==
  ASSUME BuildInv, PublicationInv, NEW w \in Workers, LoadRelationships(w)
  PROVE  PublicationInv'
<1>0. PICK g : g = worker[w].job
  OBVIOUS
<1> DEFINE found == IF worker[w].from = 0 THEN Held(g) \cap Relationships ELSE {}
           known == Held(g) \cup {Order[i] : i \in worker[w].page}
           k == [worker[w] EXCEPT !.pc = "renewWrite", !.found = found]
<1>1. worker[w].pc = "relationships" /\ UNCHANGED <<governance, jobs, generations, manifests>>
  BY DEF LoadRelationships, At
<1>2. worker[w] \in WorkerRecords /\ g \in DOMAIN jobs
  BY <1>0, <1>1, OwnBuild
<1>3. CASE Throw(w, "ENDPOINT_UNRESOLVED")
  <2>1. \A u \in Workers : u # w => worker'[u] = worker[u]
    BY <1>3 DEF Throw, BuildInv, BuildTypes
  <2>2. \A u \in Workers : u # w /\ Holds(u)' => Holds(u)
    BY <1>1, <2>1 DEF Holds, Job
  <2> QED BY <1>1, <1>3, <2>2, GivingUpKeepsWhole
<1>4. CASE ~Throw(w, "ENDPOINT_UNRESOLVED")
  <2>1. /\ \A r \in found : {Endpoints[r][1], Endpoints[r][2]} \subseteq known
        /\ worker' = [worker EXCEPT ![w] = k]
    BY <1>0, <1>4 DEF LoadRelationships, Job, Held
  <2>2. found \in SUBSET Relationships
    OBVIOUS
  <2>3. k \in WorkerRecords
    <3> HIDE DEF found
    <3> QED BY <1>2, <2>2 DEF WorkerRecords, Steps
  <2>4. /\ k.pc = "renewWrite" /\ k.job = g /\ k.from = worker[w].from /\ k.found = found
        /\ k.page = worker[w].page /\ k.complete = worker[w].complete
    <3> HIDE DEF found
    <3> QED BY <1>0, <1>2 DEF WorkerRecords
  <2>5. k.from = 0 => Held(g) \cap Relationships \subseteq k.found
    BY <2>4
  <2> HIDE DEF k, found
  <2>6. WorkFits(worker[w], Held(g), Allowed(g), generations[g])
          => WorkFits(k, Held(g), Allowed(g), generations[g])
    BY <1>1, <2>4, <2>5 DEF WorkFits, PageFits, Filled, Loaded
  <2>7. ASSUME NEW v \in Workers, worker[v].pc = "commit", AddsNothing(worker[w], generations[g]),
               WorkFits(worker[v], Held(g), Allowed(g), generations[g])
        PROVE  AddsNothing(k, generations[g])
    <3>1. known \subseteq generations[g].nodes
      BY <1>1, <2>7 DEF WorkFits, Filled, AddsNothing, Loaded
    <3>2. EndsIn(found, generations[g].nodes)
      <4> HIDE DEF known
      <4> QED BY <2>1, <3>1 DEF EndsIn
    <3> QED BY <1>1, <2>4, <2>7, <3>2 DEF AddsNothing, Loaded
  <2>8. GoesOn(w, g, k)
    BY <1>0, <1>1, <2>1, <2>3, <2>4, <2>6, <2>7 DEF GoesOn
  <2> QED BY <2>8, GoingOnKeepsWhole
<1> QED BY <1>3, <1>4

LEMMA CheckPublicationKeepsWhole ==
  ASSUME BuildInv, PublicationInv, NEW w \in Workers, CheckPublication(w)
  PROVE  PublicationInv'
<1>0. PICK g : g = worker[w].job
  OBVIOUS
<1> DEFINE k == [worker[w] EXCEPT !.pc = "commit"]
<1>1. worker[w].pc = "publish" /\ UNCHANGED <<governance, jobs, generations, manifests>>
  BY DEF CheckPublication, At
<1>2. worker[w] \in WorkerRecords /\ g \in DOMAIN jobs
  BY <1>0, <1>1, OwnBuild
<1>3. ASSUME NEW e, Throw(w, e)
      PROVE  PublicationInv'
  <2>1. \A u \in Workers : u # w => worker'[u] = worker[u]
    BY <1>3 DEF Throw, BuildInv, BuildTypes
  <2>2. \A u \in Workers : u # w /\ Holds(u)' => Holds(u)
    BY <1>1, <2>1 DEF Holds, Job
  <2> QED BY <1>1, <1>3, <2>2, GivingUpKeepsWhole
<1>4. CASE Holds(w) /\ Closed(g) /\ Goto(w, "commit")
  <2>1. k \in WorkerRecords /\ k.pc = "commit" /\ k.job = g /\ k.from = worker[w].from
    BY <1>0, <1>2 DEF WorkerRecords, Steps
  <2>2. worker' = [worker EXCEPT ![w] = k]
    BY <1>4 DEF Goto
  <2>3. EndsIn(generations[g].edges, generations[g].nodes)
    BY <1>4 DEF Closed, EndsIn
  <2> HIDE DEF k
  <2>4. WorkFits(worker[w], Held(g), Allowed(g), generations[g])
          => WorkFits(k, Held(g), Allowed(g), generations[g])
    BY <1>1, <2>1, <2>3 DEF WorkFits, Filled, Loaded
  <2>5. AddsNothing(k, generations[g])
    BY <2>1 DEF AddsNothing, Loaded
  <2>6. GoesOn(w, g, k)
    BY <1>0, <1>1, <1>4, <2>1, <2>2, <2>4, <2>5 DEF GoesOn
  <2> QED BY <2>6, GoingOnKeepsWhole
<1> QED BY <1>0, <1>3, <1>4 DEF CheckPublication

\* The worker that holds a build adds to its rows and goes on, as k, to a step
\* that asks for nothing.
Writes(w, g, k, rows) ==
  /\ UNCHANGED <<governance, manifests>>
  /\ worker[w].pc # "idle" /\ Holds(w) /\ g = worker[w].job
  /\ worker' = [worker EXCEPT ![w] = k]
  /\ k.pc \notin Loaded \cup {"commit"}
  /\ k.pc # "idle" => k.job = g /\ WorkFits(k, Held(g), Allowed(g), generations'[g])
  /\ rows \in Rows /\ generations' = [generations EXCEPT ![g] = rows]
  /\ generations[g].nodes \subseteq rows.nodes /\ generations[g].edges \subseteq rows.edges
  /\ generations[g].units => rows.units
  /\ DOMAIN jobs' = DOMAIN jobs
  /\ \A h \in DOMAIN jobs : jobs'[h].baseline = jobs[h].baseline
  /\ \A h \in DOMAIN jobs \ {g} : jobs'[h].cursor = jobs[h].cursor
  /\ CursorFits(jobs'[g].cursor, Held(g), rows) /\ rows.nodes \subseteq Allowed(g)
  /\ \A v \in Workers : v # w /\ worker[v].pc # "idle" /\ Holds(v)' => Holds(v)
  /\ AddsNothing(worker[w], generations[g]) /\ EndsIn(generations[g].edges, generations[g].nodes)
       => EndsIn(rows.edges, rows.nodes)

LEMMA WritingKeepsWhole ==
  ASSUME BuildInv, PublicationInv, NEW w \in Workers, NEW g, NEW k, NEW rows,
         Writes(w, g, k, rows)
  PROVE  PublicationInv'
<1> USE DEF Writes
<1>1. g \in DOMAIN jobs
  BY OwnBuild
<1>2. \A h \in DOMAIN jobs : generations'[h] = IF h = g THEN rows ELSE generations[h]
  BY <1>1, RowsMove DEF BuildInv
<1>3. worker'[w] = k /\ \A v \in Workers : v # w => worker'[v] = worker[v]
  BY DEF BuildInv, BuildTypes
<1>4. /\ MembersFit'
      /\ \A h \in DOMAIN jobs : Held(h)' = Held(h) /\ Allowed(h)' = Allowed(h)
  BY DEF governance, PublicationInv, MembersFit, Held, Allowed, Content, Reviewed
<1>5. \A h \in DOMAIN jobs : Grows(h)
  BY <1>2, <1>4 DEF Grows
<1>6. \A h \in DOMAIN jobs' : BuildFits(h)'
  BY <1>2, <1>4 DEF PublicationInv, BuildFits
<1>7. WorkerFits(w)'
  BY <1>1, <1>3, <1>4 DEF WorkerFits
<1>8. \A v \in Workers : TakeoverFits(v, w)' /\ TakeoverFits(w, v)'
  BY <1>3, Zenon DEF TakeoverFits, AddsNothing, Loaded
<1>9. ASSUME NEW v \in Workers, v # w, worker[v].pc = "commit", NEW h, h = worker[v].job
      PROVE  EndsIn(generations'[h].edges, generations'[h].nodes)
  <2>1. h \in DOMAIN jobs /\ EndsIn(generations[h].edges, generations[h].nodes)
    BY <1>9, OwnBuild DEF PublicationInv, WorkerFits, WorkFits
  <2>2. h = g => AddsNothing(worker[w], generations[g])
    BY <1>9 DEF PublicationInv, TakeoverFits
  <2> QED BY <1>2, <2>1, <2>2
<1>10. g \notin manifests
  BY <1>1 DEF BuildInv, ReadyIsPublished, Holds, Job
<1>11. \A h \in manifests : UNCHANGED generations[h]
  BY <1>2, <1>10 DEF BuildInv, BuildTypes
<1> DEFINE moved == {w}
<1>12. /\ moved \in SUBSET Workers
       /\ \A v \in Workers \ moved : worker'[v] = worker[v]
       /\ \A v \in moved : WorkerFits(v)'
       /\ \A v \in moved : \A u \in Workers : TakeoverFits(u, v)' /\ TakeoverFits(v, u)'
       /\ \A v \in Workers \ moved : worker[v].pc # "idle" /\ Holds(v)' => Holds(v)
       /\ \A v \in Workers \ moved : worker[v].pc = "commit" =>
            LET h == worker[v].job IN EndsIn(generations'[h].edges, generations'[h].nodes)
       /\ \A h \in manifests' \ manifests : Published(h)'
  BY <1>3, <1>7, <1>8, <1>9
<1> HIDE DEF moved
<1> QED BY <1>4, <1>5, <1>6, <1>11, <1>12, StepKeeps DEF BuildInv

LEMMA WriteBatchKeepsWhole ==
  ASSUME BuildInv, PublicationInv, NEW w \in Workers, WriteBatch(w)
  PROVE  PublicationInv'
<1>0. PICK g : g = worker[w].job
  OBVIOUS
<1> DEFINE page == worker[w].page
           found == worker[w].found
           added == {Order[i] : i \in page}
           v == [jobs[g] EXCEPT !.cursor = NextCursor(page),
                                !.nodes = @ + Cardinality(page),
                                !.edges = @ + Cardinality(found)]
           rows == [generations[g] EXCEPT !.nodes = @ \cup added, !.edges = @ \cup found]
           k == IF worker[w].complete THEN [worker[w] EXCEPT !.pc = "renewUnits"] ELSE Idle
<1>1. worker[w].pc = "write" /\ UNCHANGED <<governance, manifests>>
  BY DEF WriteBatch, At
<1>2. /\ worker[w] \in WorkerRecords /\ g \in DOMAIN jobs /\ jobs[g] \in JobRecords
      /\ generations[g] \in Rows
  BY <1>0, <1>1, OwnBuild
<1>3. CASE ~Holds(w)
  <2>1. Throw(w, "LEASE_LOST") /\ UNCHANGED <<jobs, generations>>
    BY <1>3 DEF WriteBatch
  <2>2. \A u \in Workers : u # w => worker'[u] = worker[u]
    BY <2>1 DEF Throw, BuildInv, BuildTypes
  <2>3. \A u \in Workers : u # w /\ Holds(u)' => Holds(u)
    BY <2>1, <2>2 DEF Holds, Job
  <2> QED BY <1>1, <2>1, <2>3, GivingUpKeepsWhole
<1>4. CASE Holds(w)
  <2>1. /\ jobs' = [jobs EXCEPT ![g] = v] /\ generations' = [generations EXCEPT ![g] = rows]
        /\ worker' = [worker EXCEPT ![w] = k]
    BY <1>0, <1>4 DEF WriteBatch, Goto
  <2>2. /\ page \in SUBSET (DOMAIN Order) /\ found \in SUBSET Relationships
        /\ added \in SUBSET Assertions
    <3>1. page \in SUBSET (DOMAIN Order) /\ found \in SUBSET Relationships
      BY <1>2 DEF WorkerRecords
    <3>2. \A i \in DOMAIN Order : Order[i] \in Assertions
      BY ProjectionAssumption, LenProperties
    <3> QED BY <3>1, <3>2
  <2>3. /\ v.baseline = jobs[g].baseline /\ v.cursor = NextCursor(page)
        /\ v.status = jobs[g].status /\ v.owner = jobs[g].owner
    <3> HIDE DEF page, found
    <3> QED BY <1>2 DEF JobRecords
  <2>4. /\ rows \in Rows /\ rows.nodes = generations[g].nodes \cup added
        /\ rows.edges = generations[g].edges \cup found /\ rows.units = generations[g].units
    <3> HIDE DEF added, found
    <3> QED BY <1>2, <2>2 DEF Rows
  <2>5. /\ k.pc \in {"idle", "renewUnits"}
        /\ k.pc # "idle" => k.job = g /\ k.from = worker[w].from /\ worker[w].complete
    BY <1>0, <1>2 DEF WorkerRecords, Idle
  <2>6. /\ generations'[g] = rows /\ worker'[w] = k
        /\ \A u \in Workers : u # w => worker'[u] = worker[u]
    <3> HIDE DEF rows, k
    <3> QED BY <1>2, <2>1, <2>4, RowsMove DEF BuildInv, BuildTypes
  <2> HIDE DEF v, rows, k
  <2>7. /\ DOMAIN jobs' = DOMAIN jobs /\ jobs'[g].cursor = NextCursor(page)
        /\ \A h \in DOMAIN jobs : jobs'[h].baseline = jobs[h].baseline
        /\ \A h \in DOMAIN jobs \ {g} : jobs'[h].cursor = jobs[h].cursor
        /\ \A u \in Workers : u # w /\ worker[u].pc # "idle" /\ Holds(u)' => Holds(u)
    BY <1>2, <2>1, <2>3, <2>6, JobStays
  <2>8. WorkFits(worker[w], Held(g), Allowed(g), generations[g])
    BY <1>0, <1>1 DEF PublicationInv, WorkerFits
  <2>9. PageFits(worker[w], Held(g), Allowed(g)) /\ CursorFits(worker[w].from, Held(g), generations[g])
        /\ (worker[w].from = 0 => Held(g) \cap Relationships \subseteq found)
    BY <1>1, <2>8 DEF WorkFits, Loaded
  <2>10. Linked(Held(g), rows)
    <3>1. worker[w].from \in Nat
      BY <1>2, ProjectionAssumption, LenProperties DEF WorkerRecords
    <3> QED BY <2>4, <2>9, <3>1 DEF CursorFits, Linked
  <2>11. CursorFits(NextCursor(page), Held(g), rows) /\ CursorFits(worker[w].from, Held(g), rows)
    BY <2>4, <2>9, <2>10 DEF PageFits, CursorFits, Covered
  <2>12. worker[w].complete => Held(g) \subseteq rows.nodes
    <3> SUFFICES ASSUME worker[w].complete, NEW a \in Held(g)
                 PROVE  a \in rows.nodes
      OBVIOUS
    <3>1. PICK i \in DOMAIN Order : Order[i] = a
      BY <1>2, ContentIsReviewed, ProjectionAssumption
    <3> QED BY <2>4, <2>9, <3>1 DEF PageFits, CursorFits, Covered
  <2>13. rows.nodes \subseteq Allowed(g)
    BY <1>2, <2>4, <2>9 DEF PublicationInv, BuildFits, PageFits
  <2>14. k.pc # "idle" => k.job = g /\ WorkFits(k, Held(g), Allowed(g), generations'[g])
    BY <2>5, <2>6, <2>10, <2>11, <2>12 DEF WorkFits, Loaded, Filled
  <2>15. AddsNothing(worker[w], generations[g]) /\ EndsIn(generations[g].edges, generations[g].nodes)
           => EndsIn(rows.edges, rows.nodes)
    BY <1>1, <2>4 DEF AddsNothing, EndsIn
  <2>16. k.pc \notin Loaded \cup {"commit"} /\ worker[w].pc # "idle"
    BY <1>1, <2>5 DEF Loaded
  <2>17. /\ generations[g].nodes \subseteq rows.nodes /\ generations[g].edges \subseteq rows.edges
         /\ generations[g].units => rows.units
    BY <2>4
  <2>18. Writes(w, g, k, rows)
    <3> HIDE DEF page, found, added
    <3> QED BY <1>0, <1>1, <1>4, <2>1, <2>4, <2>7, <2>11, <2>13, <2>14, <2>15, <2>16, <2>17
            DEF Writes
  <2> QED BY <2>18, WritingKeepsWhole
<1> QED BY <1>3, <1>4

LEMMA WriteUnitsKeepsWhole ==
  ASSUME BuildInv, PublicationInv, NEW w \in Workers, WriteUnits(w)
  PROVE  PublicationInv'
<1>0. PICK g : g = worker[w].job
  OBVIOUS
<1> DEFINE rows == [generations[g] EXCEPT !.units = TRUE]
           k == [worker[w] EXCEPT !.pc = "renewPublish"]
<1>1. worker[w].pc = "units" /\ UNCHANGED <<governance, jobs, manifests>>
  BY DEF WriteUnits, At
<1>2. worker[w] \in WorkerRecords /\ g \in DOMAIN jobs /\ generations[g] \in Rows
  BY <1>0, <1>1, OwnBuild
<1>3. CASE Throw(w, "LEASE_LOST") /\ UNCHANGED generations
  <2>1. \A u \in Workers : u # w => worker'[u] = worker[u]
    BY <1>3 DEF Throw, BuildInv, BuildTypes
  <2>2. \A u \in Workers : u # w /\ Holds(u)' => Holds(u)
    BY <1>1, <2>1 DEF Holds, Job
  <2> QED BY <1>1, <1>3, <2>2, GivingUpKeepsWhole
<1>4. CASE /\ Holds(w) /\ generations' = [generations EXCEPT ![worker[w].job].units = TRUE]
           /\ Goto(w, "renewPublish")
  <2>1. generations' = [generations EXCEPT ![g] = rows] /\ worker' = [worker EXCEPT ![w] = k]
    BY <1>0, <1>4 DEF Goto
  <2>2. /\ rows \in Rows /\ rows.nodes = generations[g].nodes /\ rows.edges = generations[g].edges
        /\ rows.units
    BY <1>2 DEF Rows
  <2>3. k.pc = "renewPublish" /\ k.job = g /\ k.from = worker[w].from
    BY <1>0, <1>2 DEF WorkerRecords
  <2> HIDE DEF rows, k
  <2>4. generations'[g] = rows /\ \A u \in Workers : u # w => worker'[u] = worker[u]
    BY <1>2, <2>1, <2>2, RowsMove DEF BuildInv, BuildTypes
  <2>5. \A c, rv : WorkFits(worker[w], c, rv, generations[g]) => WorkFits(k, c, rv, rows)
    BY <1>1, <2>2, <2>3 DEF WorkFits, Loaded, Filled, CursorFits, Covered, Linked
  <2>6. WorkFits(k, Held(g), Allowed(g), generations'[g])
    <3>1. WorkFits(worker[w], Held(g), Allowed(g), generations[g])
      BY <1>0, <1>1 DEF PublicationInv, WorkerFits
    <3> QED BY <2>4, <2>5, <3>1
  <2>7. CursorFits(jobs'[g].cursor, Held(g), rows) /\ rows.nodes \subseteq Allowed(g)
    BY <1>1, <1>2, <2>2 DEF PublicationInv, BuildFits, CursorFits, Covered, Linked
  <2>8. \A u \in Workers : u # w /\ Holds(u)' => Holds(u)
    BY <1>1, <2>4 DEF Holds, Job
  <2>9. Writes(w, g, k, rows)
    BY <1>0, <1>1, <1>4, <2>1, <2>2, <2>3, <2>6, <2>7, <2>8 DEF Writes, Loaded
  <2> QED BY <2>9, WritingKeepsWhole
<1> QED BY <1>3, <1>4 DEF WriteUnits

LEMMA CommitPublicationKeepsWhole ==
  ASSUME BuildInv, PublicationInv, NEW w \in Workers, CommitPublication(w)
  PROVE  PublicationInv'
<1>0. PICK g : g = worker[w].job
  OBVIOUS
<1> DEFINE v == [jobs[g] EXCEPT !.status = "READY", !.owner = None, !.lease = FALSE,
                    !.nodes = worker[w].nodes + Cardinality(worker[w].page),
                    !.edges = worker[w].edges + Cardinality(worker[w].found)]
<1>1. /\ worker[w].pc = "commit" /\ UNCHANGED <<governance, generations>>
      /\ manifests' = manifests \cup {g} /\ worker' = [worker EXCEPT ![w] = Idle]
  BY <1>0 DEF CommitPublication, At
<1>2. g \in DOMAIN jobs /\ jobs[g] \in JobRecords
  BY <1>0, <1>1, OwnBuild
<1>3. jobs' = [jobs EXCEPT ![g] = v]
  BY <1>0 DEF CommitPublication
<1>4. v.baseline = jobs[g].baseline /\ v.cursor = jobs[g].cursor /\ v.status # "BUILDING"
  BY <1>2 DEF JobRecords
<1> HIDE DEF v
<1>5. worker'[w].pc = "idle" /\ \A u \in Workers : u # w => worker'[u] = worker[u]
  BY <1>1 DEF Idle, BuildInv, BuildTypes
<1>6. /\ DOMAIN jobs' = DOMAIN jobs
      /\ \A h \in DOMAIN jobs : jobs'[h].baseline = jobs[h].baseline /\ jobs'[h].cursor = jobs[h].cursor
      /\ \A u \in Workers : u # w /\ worker[u].pc # "idle" /\ Holds(u)' => Holds(u)
  BY <1>2, <1>3, <1>4, <1>5, JobStays
<1>7. /\ MembersFit'
      /\ \A h \in DOMAIN jobs : Held(h)' = Held(h) /\ Allowed(h)' = Allowed(h)
  BY <1>1, <1>6 DEF governance, PublicationInv, MembersFit, Held, Allowed, Content, Reviewed
<1>8. \A h \in DOMAIN jobs : Grows(h)
  BY <1>1, <1>7 DEF Grows
<1>9. \A h \in DOMAIN jobs' : BuildFits(h)'
  BY <1>1, <1>6, <1>7 DEF PublicationInv, BuildFits
<1>10. Published(g)
  <2>1. WorkFits(worker[w], Held(g), Allowed(g), generations[g])
    BY <1>0, <1>1 DEF PublicationInv, WorkerFits
  <2> QED BY <1>1, <1>2, <2>1 DEF WorkFits, Filled, Published, PublicationInv, BuildFits
<1>11. \A h \in manifests' \ manifests : Published(h)'
  BY <1>1, <1>2, <1>7, <1>10 DEF Published
<1>12. \A u \in Workers : worker[u].pc = "commit" =>
         LET h == worker[u].job IN EndsIn(generations[h].edges, generations[h].nodes)
  BY DEF PublicationInv, WorkerFits, WorkFits
<1> DEFINE moved == {w}
<1>13. /\ moved \in SUBSET Workers
       /\ \A u \in Workers \ moved : worker'[u] = worker[u]
       /\ \A u \in moved : WorkerFits(u)'
       /\ \A u \in moved : \A z \in Workers : TakeoverFits(z, u)' /\ TakeoverFits(u, z)'
       /\ \A u \in Workers \ moved : worker[u].pc # "idle" /\ Holds(u)' => Holds(u)
       /\ \A u \in Workers \ moved : worker[u].pc = "commit" =>
            LET h == worker[u].job IN EndsIn(generations'[h].edges, generations'[h].nodes)
       /\ \A h \in manifests : UNCHANGED generations[h]
  BY <1>1, <1>5, <1>6, <1>12 DEF WorkerFits, TakeoverFits
<1> HIDE DEF moved
<1> QED BY <1>7, <1>8, <1>9, <1>11, <1>13, StepKeeps DEF BuildInv

LEMMA FailKeepsWhole ==
  ASSUME BuildInv, PublicationInv, NEW w \in Workers, Fail(w)
  PROVE  PublicationInv'
<1>0. PICK g : g = worker[w].job
  OBVIOUS
<1> DEFINE v == [jobs[g] EXCEPT !.status = "FAILED", !.owner = None, !.lease = FALSE,
                                !.error = worker[w].error]
<1>1. /\ worker[w].pc = "fail" /\ UNCHANGED <<governance, generations, manifests>>
      /\ worker' = [worker EXCEPT ![w] = Idle]
  BY DEF Fail, At
<1>2. g \in DOMAIN jobs /\ jobs[g] \in JobRecords
  BY <1>0, <1>1, OwnBuild
<1>3. \A u \in Workers : u # w => worker'[u] = worker[u]
  BY <1>1 DEF BuildInv, BuildTypes
<1>4. CASE UNCHANGED jobs
  <2>1. \A u \in Workers : u # w /\ Holds(u)' => Holds(u)
    BY <1>3, <1>4 DEF Holds, Job
  <2> QED BY <1>1, <1>4, <2>1, GivingUpKeepsWhole
<1>5. CASE jobs' = [jobs EXCEPT ![g] = v]
  <2>1. v.baseline = jobs[g].baseline /\ v.cursor = jobs[g].cursor /\ v.status # "BUILDING"
    BY <1>2 DEF JobRecords
  <2> HIDE DEF v
  <2>2. /\ DOMAIN jobs' = DOMAIN jobs
        /\ \A h \in DOMAIN jobs : jobs'[h].baseline = jobs[h].baseline
                                  /\ jobs'[h].cursor = jobs[h].cursor
        /\ \A u \in Workers : u # w /\ worker[u].pc # "idle" /\ Holds(u)' => Holds(u)
    BY <1>2, <1>3, <1>5, <2>1, JobStays
  <2> QED BY <1>1, <2>2, GivingUpKeepsWhole
<1> QED BY <1>0, <1>4, <1>5 DEF Fail

LEMMA FaultsKeepWhole ==
  ASSUME BuildInv, PublicationInv, NEW w \in Workers, Crash(w) \/ Break(w)
  PROVE  PublicationInv'
<1>1. /\ worker[w].pc # "idle" /\ UNCHANGED <<governance, jobs, generations, manifests>>
      /\ (\E e : Throw(w, e)) \/ worker' = [worker EXCEPT ![w] = Idle]
  BY DEF Crash, Break, At
<1>2. \A u \in Workers : u # w => worker'[u] = worker[u]
  BY <1>1 DEF Throw, BuildInv, BuildTypes
<1>3. \A u \in Workers : u # w /\ Holds(u)' => Holds(u)
  BY <1>1, <1>2 DEF Holds, Job
<1> QED BY <1>1, <1>3, GivingUpKeepsWhole

\* Leases end, and nothing else.
LEMMA TimeKeepsWhole ==
  ASSUME BuildInv, PublicationInv, UNCHANGED <<governance, generations, manifests, worker>>,
         UNCHANGED jobs \/ \E g \in DOMAIN jobs : LeaseEnds(g)
  PROVE  PublicationInv'
<1>1. /\ DOMAIN jobs' = DOMAIN jobs
      /\ \A h \in DOMAIN jobs : /\ jobs'[h].baseline = jobs[h].baseline
                                /\ jobs'[h].cursor = jobs[h].cursor
                                /\ jobs'[h].status = jobs[h].status
                                /\ jobs'[h].owner = jobs[h].owner
  <2>1. CASE UNCHANGED jobs
    BY <2>1
  <2>2. ASSUME NEW g \in DOMAIN jobs, LeaseEnds(g)
        PROVE  /\ DOMAIN jobs' = DOMAIN jobs
               /\ \A h \in DOMAIN jobs : /\ jobs'[h].baseline = jobs[h].baseline
                                         /\ jobs'[h].cursor = jobs[h].cursor
                                         /\ jobs'[h].status = jobs[h].status
                                         /\ jobs'[h].owner = jobs[h].owner
    <3>1. jobs \in Seq(JobRecords)
      BY DEF BuildInv, BuildTypes
    <3>2. jobs[g] \in JobRecords
      BY <3>1, LenProperties
    <3>3. jobs' = [jobs EXCEPT ![g] = [jobs[g] EXCEPT !.lease = FALSE]]
      BY <2>2 DEF LeaseEnds
    <3> QED BY <3>2, <3>3 DEF JobRecords
  <2> QED BY <2>1, <2>2
<1>2. /\ MembersFit'
      /\ \A h \in DOMAIN jobs : Held(h)' = Held(h) /\ Allowed(h)' = Allowed(h)
  BY <1>1 DEF governance, PublicationInv, MembersFit, Held, Allowed, Content, Reviewed
<1>3. \A h \in DOMAIN jobs : Grows(h)
  BY <1>2 DEF Grows
<1>4. \A h \in DOMAIN jobs' : BuildFits(h)'
  BY <1>1, <1>2 DEF PublicationInv, BuildFits
<1>5. \A u \in Workers : worker[u].pc = "commit" =>
        LET h == worker[u].job IN EndsIn(generations[h].edges, generations[h].nodes)
  BY DEF PublicationInv, WorkerFits, WorkFits
<1>6. ASSUME NEW u \in Workers, worker[u].pc # "idle"
      PROVE  Holds(u)' = Holds(u)
  <2>1. worker[u].job \in DOMAIN jobs
    BY <1>6, BusyWorker DEF BuildInv
  <2> QED BY <1>1, <2>1 DEF Holds, Job
<1> DEFINE moved == {}
<1>7. /\ moved \in SUBSET Workers
      /\ \A g \in manifests' \ manifests : Published(g)'
  OBVIOUS
<1> QED BY <1>2, <1>3, <1>4, <1>5, <1>6, <1>7, StepKeeps DEF BuildInv

LEMMA PublicationInvNext == BuildInv /\ PublicationInv /\ [Next]_vars => PublicationInv'
<1> SUFFICES ASSUME BuildInv, PublicationInv, [Next]_vars
             PROVE  PublicationInv'
  OBVIOUS
<1>1. CASE GovernanceNext /\ UNCHANGED projection
  BY <1>1, GovernanceKeepsWhole
<1>2. ASSUME NEW b \in DOMAIN baselines, NEW query \in Queries, Request(b, query)
      PROVE  PublicationInv'
  BY <1>2, RequestKeepsWhole
<1>3. ASSUME NEW w \in Workers, NEW g \in DOMAIN jobs, Claim(w, g)
      PROVE  PublicationInv'
  BY <1>3, ClaimKeepsWhole
<1>4. ASSUME NEW w \in Workers, Work(w)
      PROVE  PublicationInv'
  BY <1>4, RenewKeepsWhole, LoadPageKeepsWhole, LoadRelationshipsKeepsWhole,
     WriteBatchKeepsWhole, WriteUnitsKeepsWhole, CheckPublicationKeepsWhole,
     CommitPublicationKeepsWhole, FailKeepsWhole DEF Work
<1>5. ASSUME NEW w \in Workers, Crash(w) \/ Break(w)
      PROVE  PublicationInv'
  BY <1>5, FaultsKeepWhole
<1>6. ASSUME NEW g \in DOMAIN jobs, LeaseEnds(g)
      PROVE  PublicationInv'
  <2>1. UNCHANGED <<governance, generations, manifests, worker>>
    BY <1>6 DEF LeaseEnds
  <2> QED BY <1>6, <2>1, TimeKeepsWhole
<1>7. CASE UNCHANGED vars
  BY <1>7, TimeKeepsWhole DEF vars, projection
<1> QED BY <1>1, <1>2, <1>3, <1>4, <1>5, <1>6, <1>7 DEF Next

-----------------------------------------------------------------------------
(* Theorems                                                                *)

\* For any assertions, change sets, batches, workers, builds and faults: a
\* published projection shows all that its baseline holds and nothing it was not
\* reviewed with, has its units, and no edge without both of its ends.
THEOREM PublishedProjectionsAreWhole == Spec => []PublishedIsWhole
<1>1. Spec => [](BuildInv /\ PublicationInv)
  BY BuildInvInit, BuildInvNext, PublicationInvInit, PublicationInvNext, PTL DEF Spec
<1>2. PublicationInv => PublishedIsWhole
  BY DEF PublicationInv
<1> QED BY <1>1, <1>2, PTL

-----------------------------------------------------------------------------
(* What readers see: no edge that was not reviewed                         *)

\* Neither the rows of a build nor what a worker found for them hold an edge
\* that its baseline was not reviewed with.
EdgesFit ==
  /\ \A g \in DOMAIN jobs : generations[g].edges \subseteq Allowed(g)
  /\ \A w \in Workers : worker[w].pc # "idle" => worker[w].found \subseteq Allowed(worker[w].job)

\* What worker w may carry on with: nothing found, or what it had found and
\* what the baseline of its build holds.
CarriesOn(w, k) ==
  \/ k.found = {}
  \/ /\ worker[w].pc # "idle" /\ k.job = worker[w].job
     /\ k.found \subseteq worker[w].found \cup Held(k.job)

\* What a step of worker w does to the builds: it writes to the one it holds only.
Leaves(w) ==
  /\ UNCHANGED governance
  /\ DOMAIN jobs' = DOMAIN jobs
  /\ \A g \in DOMAIN jobs : jobs'[g].baseline = jobs[g].baseline
  /\ \A g \in DOMAIN jobs :
       \/ generations'[g] = generations[g]
       \/ /\ worker[w].pc # "idle" /\ Holds(w) /\ g = worker[w].job
          /\ generations'[g].edges \subseteq generations[g].edges \cup worker[w].found
  /\ manifests' = manifests \/ CommitPublication(w)
  /\ \E k : worker' = [worker EXCEPT ![w] = k] /\ CarriesOn(w, k)

LEMMA GoingCarriesOn ==
  ASSUME BuildInv, NEW w \in Workers, worker[w].pc # "idle",
         (\E p : Goto(w, p)) \/ (\E e : Throw(w, e)) \/ worker' = [worker EXCEPT ![w] = Idle]
  PROVE  \E k : worker' = [worker EXCEPT ![w] = k] /\ CarriesOn(w, k)
<1>0. worker[w] \in WorkerRecords
  BY BusyWorker DEF BuildInv
<1>1. ASSUME NEW p, Goto(w, p)
      PROVE  \E k : worker' = [worker EXCEPT ![w] = k] /\ CarriesOn(w, k)
  <2> DEFINE k == [worker[w] EXCEPT !.pc = p]
  <2>1. worker' = [worker EXCEPT ![w] = k]
    BY <1>1 DEF Goto
  <2>2. k.job = worker[w].job /\ k.found = worker[w].found
    BY <1>0 DEF WorkerRecords
  <2> QED BY <2>1, <2>2 DEF CarriesOn
<1>2. ASSUME NEW e, Throw(w, e)
      PROVE  \E k : worker' = [worker EXCEPT ![w] = k] /\ CarriesOn(w, k)
  <2> DEFINE k == [worker[w] EXCEPT !.pc = "fail", !.error = e]
  <2>1. worker' = [worker EXCEPT ![w] = k]
    BY <1>2 DEF Throw
  <2>2. k.job = worker[w].job /\ k.found = worker[w].found
    BY <1>0 DEF WorkerRecords
  <2> QED BY <2>1, <2>2 DEF CarriesOn
<1>3. CASE worker' = [worker EXCEPT ![w] = Idle]
  <2>1. PICK k : k = Idle
    OBVIOUS
  <2>2. k.found = {}
    BY <2>1 DEF Idle
  <2> QED BY <1>3, <2>1, <2>2 DEF CarriesOn
<1> QED BY <1>1, <1>2, <1>3

\* A step that replaces one build by one of the same baseline
LEMMA OneJobStays ==
  ASSUME BuildInv, NEW g \in DOMAIN jobs, NEW v,
         jobs' = [jobs EXCEPT ![g] = v], v.baseline = jobs[g].baseline
  PROVE  DOMAIN jobs' = DOMAIN jobs /\ \A h \in DOMAIN jobs : jobs'[h].baseline = jobs[h].baseline
OBVIOUS

LEMMA WorkLeaves ==
  ASSUME BuildInv, NEW w \in Workers, Work(w)
  PROVE  Leaves(w)
<1>0. PICK g : g = worker[w].job
  OBVIOUS
<1>1. worker[w].pc # "idle"
  <2>1. CASE Renew(w)
    BY <2>1 DEF Renew, Renewals
  <2>2. CASE ~Renew(w)
    BY <2>2, Zenon DEF Work, LoadPage, LoadRelationships, WriteBatch, WriteUnits,
                       CheckPublication, CommitPublication, Fail, At
  <2> QED BY <2>1, <2>2
<1>2. /\ worker[w] \in WorkerRecords /\ g \in DOMAIN jobs /\ jobs[g] \in JobRecords
      /\ generations[g] \in Rows
  BY <1>0, <1>1, OwnBuild
<1>3. CASE Renew(w)
  <2> DEFINE v == [jobs[g] EXCEPT !.lease = TRUE]
  <2>1. UNCHANGED <<governance, generations, manifests>>
        /\ ((\E p : Goto(w, p)) \/ (\E e : Throw(w, e)))
    BY <1>3 DEF Renew
  <2>2. jobs' = jobs \/ jobs' = [jobs EXCEPT ![g] = v]
    BY <1>0, <1>3 DEF Renew
  <2>3. v.baseline = jobs[g].baseline
    BY <1>2 DEF JobRecords
  <2> HIDE DEF v
  <2>4. DOMAIN jobs' = DOMAIN jobs /\ \A h \in DOMAIN jobs : jobs'[h].baseline = jobs[h].baseline
    BY <1>2, <2>2, <2>3, OneJobStays
  <2> QED BY <1>1, <2>1, <2>4, GoingCarriesOn DEF Leaves
<1>4. CASE LoadPage(w)
  <2> DEFINE rest == Remaining(Job(w).baseline, worker[w].from)
             page == {i \in rest : Cardinality({k \in rest : k < i}) < BatchLimit}
             k == [worker[w] EXCEPT !.pc = "relationships", !.page = page, !.complete = (page = rest)]
  <2>1. worker' = [worker EXCEPT ![w] = k] /\ UNCHANGED <<governance, jobs, generations, manifests>>
    BY <1>4, Zenon DEF LoadPage
  <2>2. k.job = worker[w].job /\ k.found = worker[w].found
    <3> HIDE DEF page, rest
    <3> QED BY <1>2 DEF WorkerRecords
  <2> HIDE DEF k
  <2> QED BY <1>1, <2>1, <2>2 DEF Leaves, CarriesOn
<1>5. CASE LoadRelationships(w)
  <2> DEFINE found == IF worker[w].from = 0 THEN Held(g) \cap Relationships ELSE {}
             k == [worker[w] EXCEPT !.pc = "renewWrite", !.found = found]
  <2>1. UNCHANGED <<governance, jobs, generations, manifests>>
        /\ (Throw(w, "ENDPOINT_UNRESOLVED") \/ worker' = [worker EXCEPT ![w] = k])
    BY <1>0, <1>5 DEF LoadRelationships, Job, Held
  <2>2. k.job = g /\ k.found = found
    <3> HIDE DEF found
    <3> QED BY <1>0, <1>2 DEF WorkerRecords
  <2>3. CASE worker' = [worker EXCEPT ![w] = k]
    <3>1. CarriesOn(w, k)
      <4> HIDE DEF k
      <4> QED BY <1>0, <1>1, <2>2 DEF CarriesOn
    <3> HIDE DEF k
    <3> QED BY <2>1, <2>3, <3>1 DEF Leaves
  <2>4. CASE Throw(w, "ENDPOINT_UNRESOLVED")
    BY <1>1, <2>1, <2>4, GoingCarriesOn DEF Leaves
  <2> QED BY <2>1, <2>3, <2>4
<1>6. CASE WriteBatch(w)
  <2>1. UNCHANGED <<governance, manifests>>
        /\ ((\E p : Goto(w, p)) \/ (\E e : Throw(w, e)) \/ worker' = [worker EXCEPT ![w] = Idle])
    BY <1>6 DEF WriteBatch
  <2>2. CASE UNCHANGED <<jobs, generations>>
    BY <1>1, <2>1, <2>2, GoingCarriesOn DEF Leaves
  <2>3. CASE ~UNCHANGED <<jobs, generations>>
    <3> DEFINE v == [jobs[g] EXCEPT !.cursor = NextCursor(worker[w].page),
                        !.nodes = @ + Cardinality(worker[w].page),
                        !.edges = @ + Cardinality(worker[w].found)]
               rows == [generations[g] EXCEPT !.nodes = @ \cup {Order[i] : i \in worker[w].page},
                                              !.edges = @ \cup worker[w].found]
    <3>1. /\ Holds(w) /\ jobs' = [jobs EXCEPT ![g] = v]
          /\ generations' = [generations EXCEPT ![g] = rows]
      BY <1>0, <2>3, <1>6 DEF WriteBatch
    <3>2. v.baseline = jobs[g].baseline /\ rows.edges = generations[g].edges \cup worker[w].found
      BY <1>2 DEF JobRecords, Rows
    <3> HIDE DEF v, rows
    <3>3. DOMAIN jobs' = DOMAIN jobs /\ \A h \in DOMAIN jobs : jobs'[h].baseline = jobs[h].baseline
      BY <1>2, <3>1, <3>2, OneJobStays
    <3>4. \A h \in DOMAIN jobs : generations'[h] = generations[h] \/ (h = g /\ generations'[h] = rows)
      BY <1>2, <3>1, LenProperties DEF BuildInv, BuildTypes
    <3> QED BY <1>0, <1>1, <2>1, <3>1, <3>2, <3>3, <3>4, GoingCarriesOn DEF Leaves
  <2> QED BY <2>2, <2>3
<1>7. CASE WriteUnits(w)
  <2>1. UNCHANGED <<governance, jobs, manifests>>
        /\ ((\E p : Goto(w, p)) \/ (\E e : Throw(w, e)))
    BY <1>7 DEF WriteUnits
  <2>2. CASE UNCHANGED generations
    BY <1>1, <2>1, <2>2, GoingCarriesOn DEF Leaves
  <2>3. CASE ~UNCHANGED generations
    <3> DEFINE rows == [generations[g] EXCEPT !.units = TRUE]
    <3>1. Holds(w) /\ generations' = [generations EXCEPT ![g] = rows]
      BY <1>0, <2>3, <1>7 DEF WriteUnits
    <3>2. rows.edges = generations[g].edges
      BY <1>2 DEF Rows
    <3> HIDE DEF rows
    <3>3. \A h \in DOMAIN jobs : generations'[h] = generations[h] \/ (h = g /\ generations'[h] = rows)
      BY <1>2, <3>1, LenProperties DEF BuildInv, BuildTypes
    <3> QED BY <1>0, <1>1, <2>1, <3>1, <3>2, <3>3, GoingCarriesOn DEF Leaves
  <2> QED BY <2>2, <2>3
<1>8. CASE CheckPublication(w)
  <2>1. UNCHANGED <<governance, jobs, generations, manifests>>
        /\ ((\E p : Goto(w, p)) \/ (\E e : Throw(w, e)))
    BY <1>8 DEF CheckPublication
  <2> QED BY <1>1, <2>1, GoingCarriesOn DEF Leaves
<1>9. CASE CommitPublication(w)
  <2> DEFINE v == [jobs[g] EXCEPT !.status = "READY", !.owner = None, !.lease = FALSE,
                      !.nodes = worker[w].nodes + Cardinality(worker[w].page),
                      !.edges = worker[w].edges + Cardinality(worker[w].found)]
  <2>1. /\ UNCHANGED <<governance, generations>> /\ worker' = [worker EXCEPT ![w] = Idle]
        /\ jobs' = [jobs EXCEPT ![g] = v]
    BY <1>0, <1>9 DEF CommitPublication
  <2>2. v.baseline = jobs[g].baseline
    BY <1>2 DEF JobRecords
  <2> HIDE DEF v
  <2>3. DOMAIN jobs' = DOMAIN jobs /\ \A h \in DOMAIN jobs : jobs'[h].baseline = jobs[h].baseline
    BY <1>2, <2>1, <2>2, OneJobStays
  <2> QED BY <1>1, <1>9, <2>1, <2>3, GoingCarriesOn DEF Leaves
<1>10. CASE Fail(w)
  <2> DEFINE v == [jobs[g] EXCEPT !.status = "FAILED", !.owner = None, !.lease = FALSE,
                                  !.error = worker[w].error]
  <2>1. UNCHANGED <<governance, generations, manifests>> /\ worker' = [worker EXCEPT ![w] = Idle]
        /\ (jobs' = jobs \/ jobs' = [jobs EXCEPT ![g] = v])
    BY <1>0, <1>10 DEF Fail
  <2>2. v.baseline = jobs[g].baseline
    BY <1>2 DEF JobRecords
  <2> HIDE DEF v
  <2>3. DOMAIN jobs' = DOMAIN jobs /\ \A h \in DOMAIN jobs : jobs'[h].baseline = jobs[h].baseline
    BY <1>2, <2>1, <2>2, OneJobStays
  <2> QED BY <1>1, <2>1, <2>3, GoingCarriesOn DEF Leaves
<1> QED BY <1>3, <1>4, <1>5, <1>6, <1>7, <1>8, <1>9, <1>10 DEF Work

LEMMA ClaimLeaves ==
  ASSUME BuildInv, NEW w \in Workers, NEW g \in DOMAIN jobs, Claim(w, g)
  PROVE  Leaves(w)
<1> DEFINE v == [jobs[g] EXCEPT !.status = "BUILDING", !.owner = w, !.lease = TRUE]
           k == [Idle EXCEPT !.pc = "renewLoad", !.job = g, !.from = jobs[g].cursor,
                             !.nodes = jobs[g].nodes, !.edges = jobs[g].edges]
<1>1. /\ UNCHANGED <<governance, generations, manifests>>
      /\ jobs' = [jobs EXCEPT ![g] = v] /\ worker' = [worker EXCEPT ![w] = k]
  BY DEF Claim
<1>2. v.baseline = jobs[g].baseline
  <2>1. jobs \in Seq(JobRecords)
    BY DEF BuildInv, BuildTypes
  <2>2. jobs[g] \in JobRecords
    BY <2>1, LenProperties
  <2> QED BY <2>2 DEF JobRecords
<1>3. k.found = {}
  BY DEF Idle
<1> HIDE DEF v, k
<1>4. DOMAIN jobs' = DOMAIN jobs /\ \A h \in DOMAIN jobs : jobs'[h].baseline = jobs[h].baseline
  BY <1>1, <1>2, OneJobStays
<1> QED BY <1>1, <1>3, <1>4 DEF Leaves, CarriesOn

LEMMA FaultLeaves ==
  ASSUME BuildInv, NEW w \in Workers, Crash(w) \/ Break(w)
  PROVE  Leaves(w)
<1>1. worker[w].pc # "idle"
  BY DEF Crash, Break, At
<1>2. UNCHANGED <<governance, jobs, generations, manifests>>
      /\ ((\E e : Throw(w, e)) \/ worker' = [worker EXCEPT ![w] = Idle])
  BY DEF Crash, Break
<1> QED BY <1>1, <1>2, GoingCarriesOn DEF Leaves

\* No worker finds an edge that was not reviewed, and rows get what workers find.
LEMMA EdgesFitNext ==
  BuildInv /\ PublicationInv /\ EdgesFit /\ [Next]_vars => EdgesFit'
<1> SUFFICES ASSUME BuildInv, PublicationInv, EdgesFit, [Next]_vars
             PROVE  EdgesFit'
  OBVIOUS
<1>0. /\ \A w \in Workers : worker[w].pc # "idle" => worker[w].job \in DOMAIN jobs
      /\ \A g \in DOMAIN jobs : jobs[g].baseline \in DOMAIN baselines
  <2>1. \A w \in Workers : worker[w].pc # "idle" => worker[w].job \in DOMAIN jobs
    BY BusyWorker DEF BuildInv
  <2>2. jobs \in Seq(JobRecords)
    BY DEF BuildInv, BuildTypes
  <2>3. \A g \in DOMAIN jobs : jobs[g] \in JobRecords
    BY <2>2, LenProperties
  <2>4. \A k \in JobRecords : k.baseline \in DOMAIN baselines
    BY DEF JobRecords
  <2> HIDE DEF JobRecords
  <2> QED BY <2>1, <2>3, <2>4
\* What was reviewed stays, and neither builds nor workers move.
<1>1. ASSUME UNCHANGED <<generations, worker>>, DOMAIN jobs' = DOMAIN jobs,
             \A g \in DOMAIN jobs : jobs'[g].baseline = jobs[g].baseline,
             \A b \in DOMAIN baselines : Reviewed(b)' = Reviewed(b)
      PROVE  EdgesFit'
  <2>1. ASSUME NEW g \in DOMAIN jobs
        PROVE  Allowed(g)' = Allowed(g)
    <3>1. PICK b \in DOMAIN baselines : b = jobs[g].baseline
      BY <1>0
    <3>2. Allowed(g) = Reviewed(b) /\ Allowed(g)' = Reviewed(b)'
      BY <1>1, <3>1 DEF Allowed, Reviewed
    <3> QED BY <1>1, <3>2
  <2> QED BY <1>0, <1>1, <2>1 DEF EdgesFit
<1>2. CASE GovernanceNext /\ UNCHANGED projection
  <2>1. \A b \in DOMAIN baselines : Reviewed(b)' = Reviewed(b)
    BY <1>2, ContentShrinks DEF BuildInv, BuildTypes, PublicationInv
  <2> QED BY <1>1, <1>2, <2>1 DEF projection
<1>3. ASSUME NEW b \in DOMAIN baselines, NEW query \in Queries, Request(b, query)
      PROVE  EdgesFit'
  <2> DEFINE new == [baseline |-> b, query |-> query, status |-> "QUEUED", owner |-> None,
                     lease |-> FALSE, cursor |-> 0, nodes |-> 0, edges |-> 0, error |-> None]
             rows == [nodes |-> {}, edges |-> {}, units |-> FALSE]
             n == Len(jobs)
  <2>1. /\ jobs' = Append(jobs, new) /\ generations' = Append(generations, rows)
        /\ UNCHANGED <<governance, worker>> /\ rows.edges = {}
    BY <1>3 DEF Request
  <2>2. jobs \in Seq(JobRecords) /\ generations \in Seq(Rows) /\ Len(generations) = n
    BY DEF BuildInv, BuildTypes
  <2>3. new \in JobRecords /\ rows \in Rows
    BY ProjectionAssumption, LenProperties DEF JobRecords, Active, Rows
  <2> HIDE DEF new, rows
  <2>4. /\ n \in Nat /\ DOMAIN jobs = 1 .. n /\ DOMAIN jobs' = 1 .. (n + 1)
        /\ \A g \in 1 .. n : jobs'[g] = jobs[g] /\ generations'[g] = generations[g]
        /\ generations'[n + 1] = rows
    BY <2>1, <2>2, <2>3, AppendProperties, LenProperties
  <2>5. \A g \in DOMAIN jobs : Allowed(g)' = Allowed(g)
    BY <2>1, <2>4 DEF governance, Allowed, Reviewed
  <2>6. \A g \in DOMAIN jobs' : generations'[g].edges \subseteq Allowed(g)'
    <3> SUFFICES ASSUME NEW g \in DOMAIN jobs' PROVE generations'[g].edges \subseteq Allowed(g)'
      OBVIOUS
    <3>1. CASE g \in 1 .. n
      <4>1. generations[g].edges \subseteq Allowed(g)
        BY <2>4, <3>1 DEF EdgesFit
      <4> QED BY <2>4, <2>5, <3>1, <4>1
    <3>2. CASE g = n + 1
      BY <2>1, <2>4, <3>2
    <3> QED BY <2>4, <3>1, <3>2
  <2>7. ASSUME NEW w \in Workers, worker'[w].pc # "idle", NEW g, g = worker'[w].job
        PROVE  worker'[w].found \subseteq Allowed(g)'
    <3>1. worker[w].pc # "idle" /\ g = worker[w].job /\ worker'[w] = worker[w]
      BY <2>1, <2>7
    <3>2. g \in DOMAIN jobs /\ worker[w].found \subseteq Allowed(g)
      BY <1>0, <3>1 DEF EdgesFit
    <3> QED BY <2>5, <3>1, <3>2
  <2> QED BY <2>6, <2>7 DEF EdgesFit, Allowed, Reviewed
<1>4. ASSUME NEW w \in Workers, Leaves(w)
      PROVE  EdgesFit'
  <2>1. /\ UNCHANGED governance /\ DOMAIN jobs' = DOMAIN jobs
        /\ \A g \in DOMAIN jobs : jobs'[g].baseline = jobs[g].baseline
    BY <1>4 DEF Leaves
  <2>2. \A g \in DOMAIN jobs : Allowed(g)' = Allowed(g)
    BY <2>1 DEF governance, Allowed, Reviewed
  <2>3. ASSUME NEW g \in DOMAIN jobs
        PROVE  generations'[g].edges \subseteq Allowed(g)'
    <3>1. generations[g].edges \subseteq Allowed(g)
      BY DEF EdgesFit
    <3>2. \/ generations'[g] = generations[g]
          \/ /\ worker[w].pc # "idle" /\ g = worker[w].job
             /\ generations'[g].edges \subseteq generations[g].edges \cup worker[w].found
      BY <1>4 DEF Leaves
    <3> QED BY <2>2, <3>1, <3>2 DEF EdgesFit
  <2>4. PICK k : worker' = [worker EXCEPT ![w] = k] /\ CarriesOn(w, k)
    BY <1>4 DEF Leaves
  <2>5. worker'[w] = k /\ \A v \in Workers : v # w => worker'[v] = worker[v]
    BY <2>4 DEF BuildInv, BuildTypes
  <2>6. k.found # {} => k.job \in DOMAIN jobs /\ k.found \subseteq Allowed(k.job)
    <3> SUFFICES ASSUME k.found # {} PROVE k.job \in DOMAIN jobs /\ k.found \subseteq Allowed(k.job)
      OBVIOUS
    <3>1. /\ worker[w].pc # "idle" /\ k.job = worker[w].job
          /\ k.found \subseteq worker[w].found \cup Held(k.job)
      BY <2>4 DEF CarriesOn
    <3>2. k.job \in DOMAIN jobs
      BY <1>0, <3>1
    <3>3. worker[w].found \subseteq Allowed(k.job)
      BY <3>1 DEF EdgesFit
    <3>4. Held(k.job) \subseteq Allowed(k.job)
      BY <3>2, ContentIsReviewed
    <3> QED BY <3>1, <3>2, <3>3, <3>4
  <2>7. ASSUME NEW v \in Workers, worker'[v].pc # "idle", NEW g, g = worker'[v].job
        PROVE  worker'[v].found \subseteq Allowed(g)'
    <3>1. CASE v = w
      BY <2>2, <2>5, <2>6, <2>7, <3>1
    <3>2. CASE v # w
      <4>1. worker[v].pc # "idle" /\ g = worker[v].job /\ worker'[v] = worker[v]
        BY <2>5, <2>7, <3>2
      <4>2. g \in DOMAIN jobs /\ worker[v].found \subseteq Allowed(g)
        BY <1>0, <4>1 DEF EdgesFit
      <4> QED BY <2>2, <4>1, <4>2
    <3> QED BY <3>1, <3>2
  <2> QED BY <2>1, <2>3, <2>7 DEF EdgesFit, Allowed, Reviewed
<1>5. ASSUME NEW g \in DOMAIN jobs, LeaseEnds(g)
      PROVE  EdgesFit'
  <2>1. jobs' = [jobs EXCEPT ![g] = [jobs[g] EXCEPT !.lease = FALSE]]
        /\ UNCHANGED <<governance, generations, worker>>
    BY <1>5 DEF LeaseEnds
  <2>2. DOMAIN jobs' = DOMAIN jobs /\ \A h \in DOMAIN jobs : jobs'[h].baseline = jobs[h].baseline
    <3>1. jobs \in Seq(JobRecords)
      BY DEF BuildInv, BuildTypes
    <3>2. jobs[g] \in JobRecords
      BY <3>1, LenProperties
    <3> QED BY <2>1, <3>2 DEF JobRecords
  <2> QED BY <1>1, <2>1, <2>2 DEF governance, Reviewed
<1>6. CASE UNCHANGED vars
  BY <1>1, <1>6 DEF vars, governance, projection, Reviewed
<1> QED BY <1>2, <1>3, <1>4, <1>5, <1>6, WorkLeaves, ClaimLeaves, FaultLeaves DEF Next

LEMMA EdgesFitInit == Init => EdgesFit
<1> SUFFICES ASSUME Init PROVE EdgesFit
  OBVIOUS
<1>1. DOMAIN jobs = {}
  BY EmptySeq DEF Init
<1>2. \A w \in Workers : worker[w].pc = "idle"
  BY DEF Init, Idle
<1> QED BY <1>1, <1>2 DEF EdgesFit

-----------------------------------------------------------------------------
(* What readers see: the steps                                             *)

holds == [b \in DOMAIN baselines |-> Content(b)]
reviewed == [b \in DOMAIN baselines |-> Reviewed(b)]
builds == [g \in DOMAIN jobs |-> jobs[g].baseline]
shown == [g \in DOMAIN jobs |-> IF g \in manifests THEN {generations[g]} ELSE {}]

\* A function that goes on as a sequence, and has one value more, is appended to.
LEMMA OneMore ==
  ASSUME NEW S, NEW n \in Nat, NEW s \in [1 .. n -> S], NEW v \in S, NEW t,
         t = [i \in 1 .. (n + 1) |-> t[i]],
         \A i \in 1 .. n : t[i] = s[i], t[n + 1] = v
  PROVE  t = Append(s, v)
<1>1. s \in Seq(S) /\ Len(s) = n
  OBVIOUS
<1>2. \A i \in 1 .. (n + 1) : t[i] \in S
  <2>1. \A i \in 1 .. (n + 1) : i \in 1 .. n \/ i = n + 1
    OBVIOUS
  <2> QED BY <2>1
<1>3. t \in Seq(S) /\ Len(t) = n + 1
  <2>1. t \in [1 .. (n + 1) -> S]
    BY <1>2
  <2> QED BY <2>1
<1> DEFINE u == Append(s, v)
<1>4. u \in Seq(S) /\ Len(u) = n + 1 /\ \A i \in 1 .. n : u[i] = s[i]
  BY <1>1, AppendProperties
<1>5. u[n + 1] = v
  BY <1>1, AppendProperties
<1> HIDE DEF u
<1>6. \A i \in 1 .. (n + 1) : t[i] = u[i]
  <2>1. \A i \in 1 .. (n + 1) : i \in 1 .. n \/ i = n + 1
    OBVIOUS
  <2> QED BY <2>1, <1>4, <1>5
<1>7. t = u
  BY <1>3, <1>4, <1>6, SeqEqual
<1> QED BY <1>7 DEF u

LEMMA ReadersStutter ==
  ASSUME UNCHANGED <<holds, reviewed, builds, shown>>
  PROVE  UNCHANGED Readers!vars
BY DEF Readers!vars, holds, reviewed, builds, shown

\* The governed path publishes baselines, and takes from those that there are.
LEMMA GovernanceShows ==
  ASSUME BuildInv, PublicationInv, GovernanceNext, UNCHANGED projection
  PROVE  Readers!Next
<1>1. UNCHANGED <<builds, shown>>
  BY DEF projection, builds, shown
<1>2. \A b \in DOMAIN baselines : Content(b)' \subseteq Content(b) /\ Reviewed(b)' = Reviewed(b)
  BY ContentShrinks DEF BuildInv, BuildTypes, PublicationInv
<1>3. CASE UNCHANGED baselines
  <2>1. DOMAIN holds' = DOMAIN holds /\ \A b \in DOMAIN holds : holds'[b] \subseteq holds[b]
    BY <1>2, <1>3 DEF holds
  <2>2. UNCHANGED reviewed
    BY <1>2, <1>3 DEF reviewed
  <2>3. Readers!Withdraw
    BY <1>1, <2>1, <2>2 DEF Readers!Withdraw, holds, reviewed, builds, shown
  <2> QED BY <2>3 DEF Readers!Next
<1>4. ASSUME NEW c \in DOMAIN changeSets, PublishBaseline(c)
      PROVE  Readers!Next
  <2> DEFINE old == [b \in DOMAIN baselines |-> [baselines[b] EXCEPT !.status = "SUPERSEDED"]]
             new == [changeSet |-> c, status |-> "PUBLISHED"]
             B == [changeSet : DOMAIN changeSets, status : {"PUBLISHED", "SUPERSEDED"}]
             n == Len(baselines)
             held == {a \in accepted : changeSetOf[a] = c}
             review == changeSets[c].assertions
  <2>1. baselines' = Append(old, new) /\ UNCHANGED <<accepted, changeSetOf, changeSets>>
        /\ new.changeSet = c
    BY <1>4 DEF PublishBaseline
  <2>2. n \in Nat /\ DOMAIN baselines = 1 .. n /\ old \in Seq(B) /\ Len(old) = n /\ new \in B
    <3>1. baselines \in Seq(B)
      BY DEF BuildInv, BuildTypes, GovernanceTypeOK
    <3>2. n \in Nat /\ DOMAIN baselines = 1 .. n /\ \A b \in 1 .. n : baselines[b] \in B
      <4> HIDE DEF B
      <4> QED BY <3>1, LenProperties
    <3>3. \A b \in 1 .. n : old[b] \in B
      BY <3>2
    <3>4. old \in [1 .. n -> B]
      BY <3>2, <3>3
    <3>5. new \in B
      OBVIOUS
    <3> HIDE DEF B, old, new
    <3> QED BY <3>2, <3>4, <3>5
  <2> HIDE DEF old, new, B
  <2>3. DOMAIN baselines' = 1 .. (n + 1) /\ baselines'[n + 1] = new
    BY <2>1, <2>2, AppendProperties, LenProperties
  <2>4. review \in SUBSET Assertions /\ c # 0
    <3>1. changeSets \in Seq(ChangeSetRecords)
      BY DEF BuildInv, BuildTypes, GovernanceTypeOK, ChangeSetRecords
    <3>2. changeSets[c] \in ChangeSetRecords /\ c \in 1 .. Len(changeSets)
      BY <3>1, LenProperties
    <3> QED BY <3>2, LenProperties DEF ChangeSetRecords
  <2>5. held \subseteq review
    <3>1. accepted \subseteq Assertions
      BY DEF BuildInv, BuildTypes, GovernanceTypeOK
    <3> QED BY <2>4, <3>1 DEF PublicationInv, MembersFit
  <2>6. ASSUME NEW b, b = n + 1
        PROVE  Content(b)' = held /\ Reviewed(b)' = review
    <3>1. baselines'[b].changeSet = c
      BY <2>1, <2>3, <2>6
    <3> QED BY <2>1, <3>1 DEF Content, Reviewed
  <2>7. \A b \in 1 .. n : Content(b)' = Content(b) /\ Reviewed(b)' = Reviewed(b)
    <3>1. \A b \in 1 .. n : baselines'[b] = old[b]
      BY <2>1, <2>2, AppendProperties
    <3>2. \A b \in 1 .. n : old[b].changeSet = baselines[b].changeSet
      <4>1. baselines \in Seq(B)
        BY DEF BuildInv, BuildTypes, GovernanceTypeOK, B
      <4>2. \A b \in 1 .. n : baselines[b] \in B
        BY <4>1, LenProperties
      <4> QED BY <2>2, <4>2 DEF old, B
    <3> QED BY <2>1, <3>1, <3>2 DEF Content, Reviewed
  <2> HIDE DEF held, review, n
  <2>8. holds' = Append(holds, held)
    <3> DEFINE S == SUBSET Assertions
    <3>1. held \in S
      BY <2>4, <2>5
    <3>2. \A b \in 1 .. n : holds[b] = Content(b) /\ holds[b] \in S
      <4>1. accepted \subseteq Assertions
        BY DEF BuildInv, BuildTypes, GovernanceTypeOK
      <4> QED BY <2>2, <4>1 DEF holds, Content
    <3>3. holds \in [1 .. n -> S]
      BY <2>2, <3>2 DEF holds
    <3>4. holds' = [b \in 1 .. (n + 1) |-> holds'[b]]
      BY <2>3 DEF holds
    <3>5. \A b \in 1 .. n : holds'[b] = holds[b]
      BY <2>2, <2>3, <2>7, <3>2 DEF holds
    <3>6. holds'[n + 1] = held
      <4>1. PICK b : b = n + 1
        OBVIOUS
      <4>2. b \in DOMAIN baselines'
        BY <2>2, <2>3, <4>1
      <4> QED BY <2>6, <4>1, <4>2 DEF holds
    <3> HIDE DEF S
    <3> QED BY <2>2, <3>1, <3>3, <3>4, <3>5, <3>6, OneMore
  <2>9. reviewed' = Append(reviewed, review)
    <3> DEFINE S == {Reviewed(b) : b \in DOMAIN baselines} \cup {review}
    <3>1. \A b \in 1 .. n : reviewed[b] = Reviewed(b) /\ reviewed[b] \in S
      BY <2>2 DEF reviewed
    <3>2. reviewed \in [1 .. n -> S]
      BY <2>2, <3>1 DEF reviewed
    <3>3. reviewed' = [b \in 1 .. (n + 1) |-> reviewed'[b]]
      BY <2>3 DEF reviewed
    <3>4. \A b \in 1 .. n : reviewed'[b] = reviewed[b]
      BY <2>2, <2>3, <2>7, <3>1 DEF reviewed
    <3>5. reviewed'[n + 1] = review /\ review \in S
      <4>1. PICK b : b = n + 1
        OBVIOUS
      <4>2. b \in DOMAIN baselines'
        BY <2>2, <2>3, <4>1
      <4> QED BY <2>6, <4>1, <4>2 DEF reviewed
    <3> HIDE DEF S
    <3> QED BY <2>2, <3>2, <3>3, <3>4, <3>5, OneMore
  <2>10. Readers!PublishBaseline(held, review)
    BY <1>1, <2>5, <2>8, <2>9 DEF Readers!PublishBaseline, holds, reviewed, builds, shown
  <2>11. review \in SUBSET Assertions /\ held \in SUBSET review
    BY <2>4, <2>5 
  <2> QED BY <2>10, <2>11 DEF Readers!Next
<1>5. CASE ~\E c \in DOMAIN changeSets : PublishBaseline(c)
  <2>1. UNCHANGED baselines
    BY <1>5, Zenon DEF GovernanceNext, CreateBundle, ReadForDecision, RecordDecision, PromoteDecision,
       PromoteReviewSet, Materialize, OutsideCommand, Reconcile
  <2> QED BY <1>3, <2>1
<1> QED BY <1>4, <1>5

\* A request adds a build that nobody sees.
LEMMA RequestShows ==
  ASSUME BuildInv, NEW b \in DOMAIN baselines, NEW query \in Queries, Request(b, query)
  PROVE  Readers!Next
<1> DEFINE new == [baseline |-> b, query |-> query, status |-> "QUEUED", owner |-> None,
                   lease |-> FALSE, cursor |-> 0, nodes |-> 0, edges |-> 0, error |-> None]
           rows == [nodes |-> {}, edges |-> {}, units |-> FALSE]
           n == Len(jobs)
<1>1. /\ jobs' = Append(jobs, new) /\ generations' = Append(generations, rows)
      /\ UNCHANGED <<governance, manifests>> /\ new.baseline = b
  BY DEF Request
<1>2. jobs \in Seq(JobRecords) /\ generations \in Seq(Rows) /\ Len(generations) = n
      /\ manifests \subseteq DOMAIN jobs
  BY DEF BuildInv, BuildTypes
<1>3. new \in JobRecords /\ rows \in Rows
  BY ProjectionAssumption, LenProperties DEF JobRecords, Active, Rows
<1> HIDE DEF new, rows
<1>4. /\ n \in Nat /\ DOMAIN jobs = 1 .. n /\ DOMAIN jobs' = 1 .. (n + 1)
      /\ \A g \in 1 .. n : jobs'[g] = jobs[g] /\ generations'[g] = generations[g]
      /\ jobs'[n + 1] = new
  BY <1>1, <1>2, <1>3, AppendProperties, LenProperties
<1>5. UNCHANGED <<holds, reviewed>>
  BY <1>1 DEF governance, holds, reviewed, Content, Reviewed
<1> HIDE DEF n
<1>6. builds' = Append(builds, b)
  <2> DEFINE S == DOMAIN baselines
  <2>1. \A g \in 1 .. n : builds[g] = jobs[g].baseline /\ builds[g] \in S
    <3>1. \A g \in 1 .. n : jobs[g] \in JobRecords
      BY <1>2, <1>4, LenProperties
    <3>2. \A k \in JobRecords : k.baseline \in DOMAIN baselines
      BY DEF JobRecords
    <3> HIDE DEF JobRecords
    <3> QED BY <1>4, <3>1, <3>2 DEF builds
  <2>2. builds \in [1 .. n -> S] /\ b \in S
    BY <1>4, <2>1 DEF builds
  <2>3. builds' = [g \in 1 .. (n + 1) |-> builds'[g]]
    BY <1>4 DEF builds
  <2>4. (\A g \in 1 .. n : builds'[g] = builds[g]) /\ builds'[n + 1] = b
    BY <1>1, <1>4, <2>1 DEF builds
  <2> HIDE DEF S
  <2> QED BY <1>4, <2>2, <2>3, <2>4, OneMore
<1>7. shown' = Append(shown, {})
  <2> DEFINE S == SUBSET {generations[g] : g \in DOMAIN jobs}
  <2>1. shown \in [1 .. n -> S] /\ {} \in S
    BY <1>4 DEF shown
  <2>2. shown' = [g \in 1 .. (n + 1) |-> shown'[g]]
    BY <1>4 DEF shown
  <2>3. ASSUME NEW g \in 1 .. n
        PROVE  shown'[g] = shown[g]
    <3>1. g \in DOMAIN jobs /\ g \in DOMAIN jobs' /\ generations'[g] = generations[g]
      BY <1>4
    <3>2. shown[g] = IF g \in manifests THEN {generations[g]} ELSE {}
      BY <3>1 DEF shown
    <3>3. shown'[g] = IF g \in manifests' THEN {generations'[g]} ELSE {}
      BY <3>1 DEF shown
    <3> QED BY <1>1, <3>1, <3>2, <3>3
  <2>4. n + 1 \notin manifests' /\ n + 1 \in DOMAIN jobs'
    BY <1>1, <1>2, <1>4
  <2>5. shown'[n + 1] = {}
    BY <2>4 DEF shown
  <2> HIDE DEF S
  <2> QED BY <1>4, <2>1, <2>2, <2>3, <2>5, OneMore
<1>8. Readers!Request(b)
  BY <1>5, <1>6, <1>7 DEF Readers!Request, holds, reviewed, builds, shown
<1>9. b \in DOMAIN holds
  BY DEF holds
<1> QED BY <1>8, <1>9 DEF Readers!Next, holds

\* A build keeps its baseline, and a published build its rows.
LEMMA PublishedStays ==
  ASSUME UNCHANGED <<governance, manifests>>, DOMAIN jobs' = DOMAIN jobs,
         \A g \in DOMAIN jobs : jobs'[g].baseline = jobs[g].baseline,
         \A g \in manifests : generations'[g] = generations[g]
  PROVE  UNCHANGED Readers!vars
<1>1. UNCHANGED <<holds, reviewed>>
  BY DEF governance, holds, reviewed, Content, Reviewed
<1>2. UNCHANGED builds
  BY DEF builds
<1>3. UNCHANGED shown
  BY DEF shown
<1> QED BY <1>1, <1>2, <1>3, ReadersStutter

\* What a worker writes it writes to a build that is not published.
LEMMA WorkersShowNothing ==
  ASSUME BuildInv, NEW w \in Workers, Leaves(w), ~CommitPublication(w)
  PROVE  UNCHANGED Readers!vars
<1>1. /\ UNCHANGED <<governance, manifests>> /\ DOMAIN jobs' = DOMAIN jobs
      /\ \A g \in DOMAIN jobs : jobs'[g].baseline = jobs[g].baseline
  BY DEF Leaves
<1>2. ASSUME NEW g \in manifests
      PROVE  generations'[g] = generations[g]
  <2>1. g \in DOMAIN jobs /\ jobs[g].status = "READY"
    BY DEF BuildInv, BuildTypes, ReadyIsPublished
  <2>2. generations'[g] = generations[g] \/ (Holds(w) /\ g = worker[w].job)
    BY <2>1 DEF Leaves
  <2> QED BY <2>1, <2>2 DEF Holds, Job
<1> QED BY <1>1, <1>2, PublishedStays

LEMMA ShowingIsAStep ==
  ASSUME NEW g \in DOMAIN builds, NEW view \in Readers!Views, Readers!Show(g, view)
  PROVE  Readers!Next
BY Zenon DEF Readers!Next, builds

\* A publication shows the whole build, unless it was published before.
LEMMA PublicationShows ==
  ASSUME BuildInv, PublicationInv, EdgesFit, NEW w \in Workers, Leaves(w), CommitPublication(w)
  PROVE  [Readers!Next]_(Readers!vars)
<1>0. PICK g : g = worker[w].job
  OBVIOUS
<1>1. /\ worker[w].pc = "commit" /\ UNCHANGED <<governance, generations>>
      /\ manifests' = manifests \cup {g} /\ DOMAIN jobs' = DOMAIN jobs
      /\ \A h \in DOMAIN jobs : jobs'[h].baseline = jobs[h].baseline
  BY <1>0 DEF CommitPublication, At, Leaves
<1>2. g \in DOMAIN jobs /\ generations[g] \in Rows
  BY <1>0, <1>1, OwnBuild
<1>3. CASE g \in manifests
  <2>1. manifests' = manifests
    BY <1>1, <1>3
  <2>2. UNCHANGED Readers!vars
    BY <1>1, <2>1, PublishedStays
  <2> QED BY <2>2
<1>4. CASE g \notin manifests
  <2>1. UNCHANGED <<holds, reviewed>>
    BY <1>1 DEF governance, holds, reviewed, Content, Reviewed
  <2>2. UNCHANGED builds /\ builds[g] = jobs[g].baseline
    BY <1>1, <1>2 DEF builds
  <2>3. shown[g] = {} /\ shown' = [shown EXCEPT ![g] = {generations[g]}]
    <3>1. \A h \in DOMAIN jobs : shown'[h] = IF h = g THEN {generations[g]} ELSE shown[h]
      BY <1>1 DEF shown
    <3>2. DOMAIN shown' = DOMAIN jobs /\ DOMAIN shown = DOMAIN jobs
      BY <1>1 DEF shown
    <3>3. shown' = [h \in DOMAIN jobs |-> shown'[h]] /\ shown = [h \in DOMAIN jobs |-> shown[h]]
      BY <1>1 DEF shown
    <3> QED BY <1>2, <1>4, <3>1, <3>2, <3>3 DEF shown
  <2>4. Published(g)
    <3>1. WorkFits(worker[w], Held(g), Allowed(g), generations[g])
      BY <1>0, <1>1 DEF PublicationInv, WorkerFits
    <3> QED BY <1>1, <1>2, <3>1 DEF WorkFits, Filled, Published, PublicationInv, BuildFits
  <2>5. jobs[g].baseline \in DOMAIN baselines
    <3>1. jobs[g] \in JobRecords
      BY <1>0, <1>1, OwnBuild
    <3> QED BY <3>1 DEF JobRecords
  <2>6. holds[jobs[g].baseline] = Held(g) /\ reviewed[jobs[g].baseline] = Allowed(g)
    BY <2>5 DEF holds, reviewed, Held, Allowed
  <2>7. generations[g].edges \subseteq Allowed(g)
    BY <1>2 DEF EdgesFit
  <2>8. PICK view, base : view = generations[g] /\ base = builds[g]
    OBVIOUS
  <2>9. /\ holds[base] \subseteq view.nodes /\ view.nodes \subseteq reviewed[base]
        /\ holds[base] \cap Relationships \subseteq view.edges /\ view.edges \subseteq reviewed[base]
        /\ \A r \in view.edges : {Endpoints[r][1], Endpoints[r][2]} \subseteq view.nodes
        /\ view.units
    BY <2>2, <2>4, <2>6, <2>7, <2>8 DEF Published, Linked, EndsIn
  <2>10. Readers!Whole(view, base)
    BY <2>9, Zenon DEF Readers!Whole, holds, reviewed
  <2>11. Readers!Show(g, view)
    BY <2>1, <2>2, <2>3, <2>8, <2>10 DEF Readers!Show, holds, reviewed, builds, shown
  <2>12. view \in Readers!Views /\ g \in DOMAIN builds
    BY <1>2, <2>8 DEF Rows, Readers!Views, builds
  <2> QED BY <2>11, <2>12, ShowingIsAStep
<1> QED BY <1>3, <1>4

\* Each step publishes or withdraws, requests, shows one build whole, or is seen by nobody.
LEMMA StepsShow ==
  BuildInv /\ PublicationInv /\ EdgesFit /\ [Next]_vars => [Readers!Next]_(Readers!vars)
<1> SUFFICES ASSUME BuildInv, PublicationInv, EdgesFit, [Next]_vars
             PROVE  [Readers!Next]_(Readers!vars)
  OBVIOUS
<1>1. CASE GovernanceNext /\ UNCHANGED projection
  BY <1>1, GovernanceShows
<1>2. ASSUME NEW b \in DOMAIN baselines, NEW query \in Queries, Request(b, query)
      PROVE  Readers!Next
  BY <1>2, RequestShows
<1>3. ASSUME NEW w \in Workers, Leaves(w)
      PROVE  [Readers!Next]_(Readers!vars)
  BY <1>3, WorkersShowNothing, PublicationShows
<1>4. ASSUME NEW g \in DOMAIN jobs, LeaseEnds(g)
      PROVE  UNCHANGED Readers!vars
  <2>1. jobs' = [jobs EXCEPT ![g] = [jobs[g] EXCEPT !.lease = FALSE]]
        /\ UNCHANGED <<governance, generations, manifests>>
    BY <1>4 DEF LeaseEnds
  <2>2. DOMAIN jobs' = DOMAIN jobs /\ \A h \in DOMAIN jobs : jobs'[h].baseline = jobs[h].baseline
    <3>1. jobs \in Seq(JobRecords)
      BY DEF BuildInv, BuildTypes
    <3>2. jobs[g] \in JobRecords
      BY <3>1, LenProperties
    <3> QED BY <2>1, <3>2 DEF JobRecords
  <2> QED BY <2>1, <2>2, PublishedStays
<1>5. CASE UNCHANGED vars
  BY <1>5, PublishedStays DEF vars, projection
<1>6. CASE Next
  <2>1. CASE \E w \in Workers, g \in DOMAIN jobs : Claim(w, g)
    BY <2>1, <1>3, ClaimLeaves
  <2>2. CASE \E w \in Workers : Work(w) \/ Crash(w) \/ Break(w)
    BY <2>2, <1>3, WorkLeaves, FaultLeaves
  <2> QED BY <1>1, <1>2, <1>4, <1>6, <2>1, <2>2 DEF Next
<1> QED BY <1>5, <1>6

\* At the start there is nothing to see.
LEMMA NothingIsShown == Init => Readers!Init
<1> SUFFICES ASSUME Init PROVE Readers!Init
  OBVIOUS
<1>1. DOMAIN baselines = {} /\ DOMAIN jobs = {}
  BY EmptySeq DEF Init, GovernanceInit
<1>2. holds = <<>> /\ reviewed = <<>> /\ builds = <<>> /\ shown = <<>>
  BY <1>1 DEF holds, reviewed, builds, shown
<1> QED BY <1>2 DEF Readers!Init, holds, reviewed, builds, shown

-----------------------------------------------------------------------------
\* For any assertions, change sets, batches, workers, builds and faults: what
\* readers see of the projections is what PublishedProjections promises them. A
\* build appears at once, whole, with nothing that was not reviewed, and never
\* changes, although it was written batch by batch by workers that stop, lose
\* their lease and commit late.
THEOREM ReadersSeeWholeProjections == Spec => ShowsPublishedProjections
<1>1. Spec => [](BuildInv /\ PublicationInv /\ EdgesFit)
  BY BuildInvInit, BuildInvNext, PublicationInvInit, PublicationInvNext,
     EdgesFitInit, EdgesFitNext, PTL DEF Spec
<1>2. Init => Readers!Init
  BY NothingIsShown
<1>3. BuildInv /\ PublicationInv /\ EdgesFit /\ [Next]_vars => [Readers!Next]_(Readers!vars)
  BY StepsShow
<1> QED BY <1>1, <1>2, <1>3, PTL DEF Spec, ShowsPublishedProjections, Readers!Spec
=============================================================================
