------------------------ MODULE ConnectorStreamProofs ------------------------
(***************************************************************************)
(* Proofs about ConnectorStream for any runs, workers, pages, clients and  *)
(* failures: what a run resumes from, and what its snapshots hold.         *)
(***************************************************************************)
EXTENDS ConnectorStream, FiniteSetTheorems, SequenceTheorems, TLAPS

-----------------------------------------------------------------------------
(* The invariant                                                           *)

\* TypeOK by its parts, where a lease and a job are there or not.
RowTypes ==
  /\ status \in [Runs -> Statuses]
  /\ token \in [Runs -> Nat]
  /\ accepted \in [Runs -> 0 .. Len(log)]
  /\ position \in [Runs -> Nat] /\ \A r \in Runs : position[r] < Pages[r]

StreamTypes ==
  /\ lease = {} \/ \E l \in Leases : lease = {l}
  /\ late \in BOOLEAN
  /\ log \in Seq(Batches)
  /\ observed \subseteq Observations
  /\ finals \in Seq([run : Runs, at : 1 .. Len(log)])

WorkerTypes ==
  /\ pc \in [Workers -> Places]
  /\ todo \in [Workers -> SUBSET Runs]
  /\ job \in [Workers -> SUBSET Jobs]
  /\ \A w \in Workers : IF Working(w) THEN \E j \in Jobs : job[w] = {j} ELSE job[w] = {}

OtherTypes ==
  /\ asked \subseteq [run : Runs, to : {"PAUSED", "QUEUED"}]
  /\ outside \in 0 .. MaxOutside

\* The mark of the last page is true to the source.
BatchesSayLast == \A n \in DOMAIN log : log[n].last = IsLast(log[n].run, log[n].page)

\* The page that comes next follows the last batch of the run.
PositionsFollow ==
  \A r \in Runs :
    position[r] = IF accepted[r] = 0 THEN 0
                  ELSE IF log[accepted[r]].last THEN 0 ELSE log[accepted[r]].page + 1

\* What was accepted before a page are the pages before it.
PagesBefore ==
  \A n \in DOMAIN log : \A p \in 0 .. log[n].page :
    \E k \in 1 .. n : log[k].run = log[n].run /\ log[k].page = p

LogInv == RunKnowsItsBatches /\ BatchesSayLast /\ PositionsFollow /\ PagesInOrder /\ PagesBefore

\* The first n batches of the stream hold every page of the run.
HoldsPages(r, n) ==
  \A p \in 0 .. Pages[r] - 1 : \E k \in 1 .. n : log[k].run = r /\ log[k].page = p

\* Where a finalization has found its snapshot complete
Scanned == {"checked", "comparing", "subtracting", "committing"}

\* What a worker is about to submit is the page that comes next, unless the
\* run has moved on since it was read; what it finalizes has all of its pages.
JobsFollow ==
  \A w \in Workers : \A j \in job[w] :
    /\ pc[w] = "submitting" =>
         /\ j.accepted <= accepted[j.run]
         /\ j.accepted = accepted[j.run] => j.position = position[j.run]
    /\ pc[w] \in Scanned => HoldsPages(j.run, Len(log))

\* SnapshotsAreComplete, page by page
SnapshotsHoldPages ==
  \A k \in DOMAIN finals : \A p \in 0 .. Pages[finals[k].run] - 1 :
    \E n \in 1 .. finals[k].at : log[n].run = finals[k].run /\ log[n].page = p

StreamInv ==
  /\ RowTypes /\ StreamTypes /\ WorkerTypes /\ OtherTypes
  /\ LogInv /\ JobsFollow /\ SnapshotsHoldPages

-----------------------------------------------------------------------------
(* The log                                                                 *)

LEMMA LogIsSequence ==
  ASSUME StreamTypes
  PROVE  /\ Len(log) \in Nat /\ DOMAIN log = 1 .. Len(log)
         /\ \A n \in DOMAIN log : log[n] \in Batches
BY LenProperties DEF StreamTypes

\* A batch more
LEMMA LogGrows ==
  ASSUME StreamTypes, NEW b \in Batches, log' = Append(log, b)
  PROVE  /\ log' \in Seq(Batches) /\ Len(log') = Len(log) + 1
         /\ DOMAIN log' = 1 .. Len(log) + 1
         /\ \A n \in 1 .. Len(log) : log'[n] = log[n]
         /\ log'[Len(log) + 1] = b
<1>1. log \in Seq(Batches)
  BY DEF StreamTypes
<1>2. /\ log' \in Seq(Batches) /\ Len(log') = Len(log) + 1
      /\ \A n \in 1 .. Len(log) : log'[n] = log[n]
      /\ log'[Len(log) + 1] = b
  BY <1>1, AppendProperties
<1> QED BY <1>2, LenProperties

\* The next page of a run is accepted: the run knows it, and it is in order.
LEMMA CheckpointKeepsLog ==
  ASSUME RowTypes, StreamTypes, LogInv, NEW b \in Batches,
         b.last = IsLast(b.run, b.page), b.page = position[b.run],
         log' = Append(log, b), Checkpoint(b)
  PROVE  /\ LogInv'
         /\ accepted' \in [Runs -> 0 .. Len(log')]
         /\ position' \in [Runs -> Nat] /\ \A r \in Runs : position'[r] < Pages[r]
<1> USE ConnectorAssumption
<1> DEFINE n == Len(log)
           a == accepted[b.run]
<1>1. /\ n \in Nat /\ DOMAIN log = 1 .. n /\ DOMAIN log' = 1 .. n + 1
      /\ \A k \in 1 .. n : log'[k] = log[k] /\ log[k] \in Batches
      /\ log'[n + 1] = b /\ Len(log') = n + 1
  BY LogIsSequence, LogGrows
<1>0. n \in Nat
  BY <1>1
<1>2. /\ b.run \in Runs /\ b.page \in Nat /\ a \in 0 .. n
      /\ \A r \in Runs : accepted[r] \in 0 .. n
  BY DEF Batches, RowTypes
<1>3. \A k \in 1 .. n : log[k].run \in Runs /\ log[k].page \in Nat
  BY <1>1 DEF Batches
<1>4. \A r \in Runs : accepted'[r] = IF r = b.run THEN n + 1 ELSE accepted[r]
  BY <1>2 DEF Checkpoint, RowTypes
<1>5. /\ position' = [position EXCEPT ![b.run] = IF b.last THEN 0 ELSE b.page + 1]
      /\ position \in [Runs -> Nat]
  BY DEF Checkpoint, RowTypes
<1>6. \A r \in Runs :
        position'[r] = IF r = b.run THEN IF b.last THEN 0 ELSE b.page + 1 ELSE position[r]
  BY <1>5, <1>2
<1> HIDE DEF n
<1>7. RunKnowsItsBatches'
  <2> SUFFICES ASSUME NEW r \in Runs
               PROVE  IF accepted'[r] = 0 THEN \A k \in DOMAIN log' : log'[k].run # r
                      ELSE IsLastOf(accepted[r], r)'
    BY DEF RunKnowsItsBatches
  <2>1. CASE r = b.run
    BY <2>1, <1>1, <1>2, <1>4 DEF IsLastOf
  <2>2. CASE r # b.run
    BY <2>2, <1>1, <1>2, <1>3, <1>4 DEF IsLastOf, RunKnowsItsBatches, LogInv, n
  <2> QED BY <2>1, <2>2
<1>8. BatchesSayLast'
  BY <1>1 DEF BatchesSayLast, LogInv, IsLast
<1>9. PositionsFollow'
  <2> SUFFICES ASSUME NEW r \in Runs
               PROVE  position'[r] = IF accepted'[r] = 0 THEN 0
                        ELSE IF log'[accepted'[r]].last THEN 0 ELSE log'[accepted'[r]].page + 1
    BY DEF PositionsFollow
  <2>1. CASE r = b.run
    BY <2>1, <1>1, <1>4, <1>6
  <2>2. CASE r # b.run
    BY <2>2, <1>1, <1>2, <1>4, <1>6 DEF PositionsFollow, LogInv
  <2> QED BY <2>1, <2>2
<1>10. a # 0 => a \in 1 .. n /\ b.page = IF log[a].last THEN 0 ELSE log[a].page + 1
  BY <1>2 DEF PositionsFollow, LogInv
<1>11. PagesInOrder'
  <2> SUFFICES ASSUME NEW m \in 1 .. n + 1, NEW k \in 1 .. n + 1, m < k,
                      log'[m].run = log'[k].run,
                      \A i \in m + 1 .. k - 1 : log'[i].run # log'[k].run
               PROVE  log'[k].page = IF log'[m].last THEN 0 ELSE log'[m].page + 1
    BY <1>1 DEF PagesInOrder
  <2>1. CASE k \in 1 .. n
    <3>1. m \in 1 .. n /\ \A i \in m + 1 .. k - 1 : i \in 1 .. n
      BY <2>1, <1>1
    <3>2. \A i \in m + 1 .. k - 1 : log[i].run # log[k].run
      BY <3>1, <2>1, <1>1
    <3>3. log'[k] = log[k] /\ log'[m] = log[m] /\ m \in DOMAIN log /\ k \in DOMAIN log
      BY <2>1, <3>1, <1>1
    <3>4. PagesInOrder
      BY DEF LogInv
    <3>5. log[k].page = IF log[m].last THEN 0 ELSE log[m].page + 1
      BY <3>2, <3>3, <3>4 DEF PagesInOrder
    <3> QED BY <3>3, <3>5
  <2>2. CASE k = n + 1
    <3>1. m \in 1 .. n /\ log[m].run = b.run
      BY <2>2, <1>1
    <3>2. \A i \in m + 1 .. n : log[i].run # b.run
      BY <2>2, <1>1, <3>1
    <3>3. a # 0 /\ a \in 1 .. n /\ log[a].run = b.run /\ \A i \in a + 1 .. n : log[i].run # b.run
      BY <3>1, <1>1, <1>2 DEF RunKnowsItsBatches, IsLastOf, LogInv, n
    <3>4. a = m
      <4>1. a < m \/ m < a \/ a = m
        BY <1>0, <3>1, <3>3
      <4>2. a < m => m \in a + 1 .. n
        BY <1>0, <3>1, <3>3
      <4>3. m < a => a \in m + 1 .. n
        BY <1>0, <3>1, <3>3
      <4> QED BY <3>1, <3>2, <3>3, <4>1, <4>2, <4>3, Zenon
    <3>5. log'[k] = b /\ log'[m] = log[m]
      BY <3>1, <2>2, <1>1
    <3>6. b.page = IF log[m].last THEN 0 ELSE log[m].page + 1
      BY <3>3, <3>4, <1>10
    <3> QED BY <3>5, <3>6
  <2>3. k \in 1 .. n \/ k = n + 1
    BY <1>0
  <2> QED BY <2>1, <2>2, <2>3, Zenon
<1>12. PagesBefore'
  <2> SUFFICES ASSUME NEW k \in 1 .. n + 1, NEW p \in 0 .. log'[k].page
               PROVE  \E i \in 1 .. k : log'[i].run = log'[k].run /\ log'[i].page = p
    BY <1>1 DEF PagesBefore
  <2>1. CASE k \in 1 .. n
    <3>1. PICK i \in 1 .. k : log[i].run = log[k].run /\ log[i].page = p
      BY <2>1, <1>1 DEF PagesBefore, LogInv
    <3> QED BY <3>1, <2>1, <1>1
  <2>2. CASE k = n + 1 /\ p = b.page
    BY <2>2, <1>1
  <2>3. CASE k = n + 1 /\ p # b.page
    <3>1. p \in Nat /\ p < b.page
      BY <2>3, <1>1, <1>2
    <3>2. a # 0
      BY <3>1 DEF PositionsFollow, LogInv, Batches
    <3>3. a \in 1 .. n /\ p \in 0 .. log[a].page
      BY <3>1, <3>2, <1>1, <1>3, <1>10
    <3>4. PICK i \in 1 .. a : log[i].run = log[a].run /\ log[i].page = p
      BY <3>3, <1>1 DEF PagesBefore, LogInv
    <3>5. log[a].run = b.run
      BY <3>2, <1>2 DEF RunKnowsItsBatches, IsLastOf, LogInv
    <3>6. i \in 1 .. n + 1 /\ i \in 1 .. n
      BY <3>3, <1>1
    <3> QED BY <3>4, <3>5, <3>6, <2>3, <1>1
  <2> QED BY <2>1, <2>2, <2>3, <1>1
<1>13. position' \in [Runs -> Nat]
  BY <1>2, <1>5
<1>14. \A r \in Runs : position'[r] < Pages[r]
  <2> SUFFICES ASSUME NEW r \in Runs PROVE position'[r] < Pages[r]
    OBVIOUS
  <2>1. Pages[r] \in Nat /\ Pages[r] > 0 /\ position[r] < Pages[r]
    BY DEF RowTypes
  <2>2. CASE r = b.run
    <3>1. b.page < Pages[r] /\ b.page \in Nat
      BY <2>1, <2>2, <1>2
    <3>2. position'[r] = IF b.page + 1 = Pages[r] THEN 0 ELSE b.page + 1
      BY <2>2, <1>6 DEF IsLast
    <3>3. CASE b.page + 1 = Pages[r]
      BY <2>1, <3>2, <3>3
    <3>4. CASE b.page + 1 # Pages[r]
      <4>1. b.page + 1 < Pages[r]
        <5>1. \A p, q \in Nat : p < q /\ p + 1 # q => p + 1 < q
          OBVIOUS
        <5> QED BY <5>1, <2>1, <3>1, <3>4, Zenon
      <4>2. position'[r] = b.page + 1
        BY <3>2, <3>4
      <4> QED BY <4>1, <4>2, Zenon
    <3> QED BY <3>3, <3>4
  <2>3. CASE r # b.run
    BY <2>1, <2>3, <1>6
  <2> QED BY <2>2, <2>3
<1>15. accepted' \in [Runs -> 0 .. Len(log')]
  <2>1. n + 1 \in 0 .. n + 1 /\ \A r \in Runs : accepted[r] \in 0 .. n + 1
    BY <1>1, <1>2
  <2>2. accepted' = [accepted EXCEPT ![b.run] = n + 1] /\ accepted \in [Runs -> 0 .. n]
    BY DEF Checkpoint, RowTypes, n
  <2> QED BY <2>1, <2>2, <1>1
<1> QED BY <1>7, <1>8, <1>9, <1>11, <1>12, <1>13, <1>14, <1>15 DEF LogInv

-----------------------------------------------------------------------------
(* Steps                                                                   *)

LEMMA StreamInvInit == Init => StreamInv
<1> SUFFICES ASSUME Init PROVE StreamInv
  OBVIOUS
<1> USE ConnectorAssumption DEF Init
<1>1. Len(log) = 0 /\ DOMAIN log = {} /\ log \in Seq(Batches) /\ DOMAIN finals = {}
  BY EmptySeq
<1>2. RowTypes
  BY <1>1 DEF RowTypes, Statuses
<1>3. finals \in Seq([run : Runs, at : 1 .. Len(log)])
  BY EmptySeq
<1>4. lease = {} /\ observed \subseteq Observations
  OBVIOUS
<1>5. late \in BOOLEAN
  BY Zenon
<1>6. StreamTypes
  BY <1>1, <1>3, <1>4, <1>5 DEF StreamTypes
<1>7. WorkerTypes /\ JobsFollow
  BY DEF WorkerTypes, Working, Places, JobsFollow
<1>8. OtherTypes
  BY DEF OtherTypes
<1>9. LogInv /\ SnapshotsHoldPages
  BY <1>1 DEF LogInv, RunKnowsItsBatches, BatchesSayLast, PositionsFollow, PagesInOrder,
     PagesBefore, SnapshotsHoldPages
<1> QED BY <1>2, <1>6, <1>7, <1>8, <1>9 DEF StreamInv

\* What a step does to one worker keeps all of them typed.
LEMMA WorkerSteps ==
  ASSUME StreamInv, UNCHANGED <<accepted, position, log>>, NEW w \in Workers,
         NEW p \in Places, NEW J,
         IF p \in {"idle", "listed"} THEN J = {} ELSE \E j \in Jobs : J = {j},
         p = "submitting" =>
           \A j \in J : j.accepted = accepted[j.run] /\ j.position = position[j.run],
         p \in Scanned => \A j \in J : HoldsPages(j.run, Len(log)),
         pc' = [pc EXCEPT ![w] = p],
         job' = [job EXCEPT ![w] = J] \/ (job' = job /\ J = job[w]),
         todo' \in [Workers -> SUBSET Runs]
  PROVE  WorkerTypes' /\ JobsFollow'
<1>1. /\ pc \in [Workers -> Places] /\ job \in [Workers -> SUBSET Jobs]
      /\ \A v \in Workers : IF Working(v) THEN \E j \in Jobs : job[v] = {j} ELSE job[v] = {}
  BY DEF StreamInv, WorkerTypes
<1>2. /\ J \in SUBSET Jobs /\ pc' \in [Workers -> Places] /\ job' \in [Workers -> SUBSET Jobs]
      /\ pc'[w] = p /\ job'[w] = J
      /\ \A v \in Workers : v # w => pc'[v] = pc[v] /\ job'[v] = job[v]
  BY <1>1
<1>3. ASSUME NEW v \in Workers
      PROVE  IF Working(v)' THEN \E j \in Jobs : job'[v] = {j} ELSE job'[v] = {}
  <2>1. CASE v = w
    BY <2>1, <1>2 DEF Working
  <2>2. CASE v # w
    BY <2>2, <1>1, <1>2 DEF Working
  <2> QED BY <2>1, <2>2
<1>4. WorkerTypes'
  BY <1>2, <1>3 DEF WorkerTypes
<1>5. JobsFollow'
  <2> SUFFICES ASSUME NEW v \in Workers, NEW j \in job'[v]
               PROVE  /\ pc'[v] = "submitting" =>
                           /\ j.accepted <= accepted[j.run]
                           /\ j.accepted = accepted[j.run] => j.position = position[j.run]
                      /\ pc'[v] \in Scanned => HoldsPages(j.run, Len(log))
    BY DEF JobsFollow, HoldsPages
  <2>1. CASE v = w
    <3>1. p = "submitting" => j.accepted = accepted[j.run] /\ j.position = position[j.run]
      BY <2>1, <1>2
    <3>2. j.accepted \in Nat
      BY <1>2 DEF Jobs
    <3>3. pc'[v] \in Scanned => HoldsPages(j.run, Len(log))
      BY <2>1, <1>2
    <3> QED BY <3>1, <3>2, <3>3, <2>1, <1>2
  <2>2. CASE v # w
    BY <2>2, <1>2 DEF StreamInv, JobsFollow
  <2> QED BY <2>1, <2>2
<1> QED BY <1>4, <1>5

\* A step that accepts no batch and finalizes no snapshot
LEMMA QuietKeeps ==
  ASSUME StreamInv, UNCHANGED <<accepted, position, log, finals>>,
         status' \in [Runs -> Statuses], token' \in [Runs -> Nat],
         lease' = {} \/ \E l \in Leases : lease' = {l}, late' \in BOOLEAN,
         observed' \subseteq Observations, WorkerTypes', OtherTypes', JobsFollow'
  PROVE  StreamInv'
<1>1. RowTypes' /\ StreamTypes'
  BY DEF StreamInv, RowTypes, StreamTypes
<1>2. RunKnowsItsBatches' /\ BatchesSayLast' /\ PositionsFollow' /\ PagesInOrder' /\ PagesBefore'
  BY DEF StreamInv, LogInv, RunKnowsItsBatches, BatchesSayLast, PositionsFollow, PagesInOrder,
     PagesBefore, IsLastOf
<1>3. SnapshotsHoldPages'
  BY DEF StreamInv, SnapshotsHoldPages
<1> QED BY <1>1, <1>2, <1>3 DEF StreamInv, LogInv

\* A step of one worker that leaves runs and stream alone
LEMMA LocalKeeps ==
  ASSUME StreamInv, UNCHANGED <<runVars, streamVars, asked>>, WorkerTypes', JobsFollow',
         outside' \in 0 .. MaxOutside
  PROVE  StreamInv'
<1>1. UNCHANGED <<status, token, accepted, position, lease, late, log, observed, finals, asked>>
  BY DEF runVars, streamVars
<1>2. OtherTypes' /\ RowTypes /\ StreamTypes
  BY <1>1 DEF StreamInv, OtherTypes
<1> QED BY <1>1, <1>2, QuietKeeps DEF RowTypes, StreamTypes

LEMMA ObserveTypes ==
  ASSUME observed \subseteq Observations, NEW found \in SUBSET Entries, NEW r \in Runs,
         NEW op \in {"UPSERT", "TOMBSTONE"}
  PROVE  Observe(found, r, op) \subseteq Observations
BY DEF Observe, Observations, Entries

\* A batch that follows is accepted.
LEMMA AcceptKeeps ==
  ASSUME StreamInv, NEW b \in Batches, b.last = IsLast(b.run, b.page), b.page = position[b.run],
         Accept(b), UNCHANGED asked, outside' \in 0 .. MaxOutside, WorkerTypes',
         \A v \in Workers :
           pc'[v] = "submitting" \/ pc'[v] \in Scanned => pc'[v] = pc[v] /\ job'[v] = job[v]
  PROVE  StreamInv'
<1>1. RowTypes /\ StreamTypes /\ LogInv /\ WorkerTypes
  BY DEF StreamInv
<1>2. log' = Append(log, b) /\ Checkpoint(b) /\ UNCHANGED <<token, late, finals>>
  BY DEF Accept
<1>3. /\ LogInv' /\ accepted' \in [Runs -> 0 .. Len(log')]
      /\ position' \in [Runs -> Nat] /\ \A r \in Runs : position'[r] < Pages[r]
  BY <1>1, <1>2, CheckpointKeepsLog
<1>4. b.run \in Runs /\ b.found \in SUBSET Entries
  BY DEF Batches
<1>5. status' \in [Runs -> Statuses]
  <2> DEFINE st == IF Mode[b.run] = "DELTA" /\ b.last THEN "SUCCEEDED"
                   ELSE IF b.last THEN "FINALIZING" ELSE "RUNNING"
  <2>1. st \in Statuses
    BY DEF Statuses
  <2>2. status' = [status EXCEPT ![b.run] = st]
    BY DEF Accept
  <2> HIDE DEF st
  <2> QED BY <2>1, <2>2, <1>1 DEF RowTypes
<1>6. RowTypes'
  BY <1>1, <1>2, <1>3, <1>5 DEF RowTypes
<1>7. observed' \subseteq Observations
  BY <1>1, <1>4, ObserveTypes DEF Accept, StreamTypes
<1>8. lease' = {} \/ \E l \in Leases : lease' = {l}
  BY <1>1 DEF Accept, StreamTypes
<1>9. /\ log' \in Seq(Batches) /\ Len(log') = Len(log) + 1 /\ Len(log) \in Nat
      /\ \A n \in 1 .. Len(log) : log'[n] = log[n]
  BY <1>1, <1>2, LogGrows, LogIsSequence
<1>10. finals' \in Seq([run : Runs, at : 1 .. Len(log')])
  <2> DEFINE F == [run : Runs, at : 1 .. Len(log)]
             G == [run : Runs, at : 1 .. Len(log')]
  <2>1. F \subseteq G
    BY <1>9
  <2>2. finals \in Seq(F)
    BY <1>1 DEF StreamTypes
  <2> HIDE DEF F, G
  <2>3. finals \in Seq(G)
    BY <2>1, <2>2, SeqMonotonic
  <2> QED BY <2>3, <1>2 DEF G
<1>11. StreamTypes'
  BY <1>1, <1>2, <1>7, <1>8, <1>9, <1>10 DEF StreamTypes
<1>12. OtherTypes'
  BY DEF StreamInv, OtherTypes
<1>13. JobsFollow'
  <2> SUFFICES ASSUME NEW v \in Workers, NEW j \in job[v],
                      pc'[v] = pc[v] /\ job'[v] = job[v],
                      pc[v] = "submitting" \/ pc[v] \in Scanned
               PROVE  /\ pc[v] = "submitting" =>
                           /\ j.accepted <= accepted'[j.run]
                           /\ j.accepted = accepted'[j.run] => j.position = position'[j.run]
                      /\ pc[v] \in Scanned => HoldsPages(j.run, Len(log))'
    BY DEF JobsFollow
  <2>0. ASSUME pc[v] \in Scanned
        PROVE  HoldsPages(j.run, Len(log))'
    <3>1. HoldsPages(j.run, Len(log))
      BY <2>0 DEF StreamInv, JobsFollow
    <3> QED BY <3>1, <1>9 DEF HoldsPages
  <2>1. pc[v] = "submitting" =>
          /\ j.accepted <= accepted[j.run]
          /\ j.accepted = accepted[j.run] => j.position = position[j.run]
    BY DEF StreamInv, JobsFollow
  <2>2. j.run \in Runs /\ j.accepted \in Nat /\ accepted[j.run] \in 0 .. Len(log)
    BY <1>1 DEF WorkerTypes, Jobs, RowTypes
  <2>3. CASE j.run = b.run
    <3>1. accepted'[j.run] = Len(log) + 1
      BY <2>2, <2>3, <1>1, <1>2 DEF Checkpoint, RowTypes
    <3> QED BY <3>1, <2>0, <2>1, <2>2, <1>9
  <2>4. CASE j.run # b.run
    <3>1. accepted'[j.run] = accepted[j.run] /\ position'[j.run] = position[j.run]
      BY <2>2, <2>4, <1>1, <1>2 DEF Checkpoint, RowTypes
    <3> QED BY <3>1, <2>0, <2>1
  <2> QED BY <2>3, <2>4
<1>14. SnapshotsHoldPages'
  <2> SUFFICES ASSUME NEW k \in DOMAIN finals, NEW p \in 0 .. Pages[finals[k].run] - 1
               PROVE  \E n \in 1 .. finals[k].at : log'[n].run = finals[k].run /\ log'[n].page = p
    BY <1>2 DEF SnapshotsHoldPages
  <2> DEFINE F == [run : Runs, at : 1 .. Len(log)]
  <2>1. \E n \in 1 .. finals[k].at : log[n].run = finals[k].run /\ log[n].page = p
    BY DEF StreamInv, SnapshotsHoldPages
  <2>2. finals[k].at \in 1 .. Len(log)
    <3>1. finals \in Seq(F)
      BY <1>1 DEF StreamTypes
    <3>2. finals[k] \in F
      <4> HIDE DEF F
      <4> QED BY <3>1, LenProperties
    <3> QED BY <3>2
  <2> QED BY <2>1, <2>2, <1>9
<1> QED BY <1>3, <1>6, <1>11, <1>12, <1>13, <1>14 DEF StreamInv

\* Workers that rest
LEMMA WorkersRest ==
  ASSUME StreamInv, UNCHANGED <<workerVars, accepted, position, log>>
  PROVE  WorkerTypes' /\ JobsFollow'
BY DEF StreamInv, WorkerTypes, Working, JobsFollow, HoldsPages, workerVars

LEMMA CreateKeeps == ASSUME StreamInv, NEW r \in Runs, Create(r) PROVE StreamInv'
<1>1. status' = [status EXCEPT ![r] = "QUEUED"] /\ status \in [Runs -> Statuses]
  BY DEF Create, StreamInv, RowTypes
<1>2. "QUEUED" \in Statuses
  BY DEF Statuses
<1>3. status' \in [Runs -> Statuses]
  BY <1>1, <1>2
<1>4. WorkerTypes' /\ JobsFollow'
  BY WorkersRest DEF Create, streamVars
<1> QED BY <1>3, <1>4, QuietKeeps
     DEF Create, streamVars, StreamInv, RowTypes, StreamTypes, OtherTypes

LEMMA AskKeeps ==
  ASSUME StreamInv, NEW r \in Runs, NEW to \in {"PAUSED", "QUEUED"}, Ask(r, to) PROVE StreamInv'
<1>1. asked' \subseteq [run : Runs, to : {"PAUSED", "QUEUED"}] /\ outside' \in 0 .. MaxOutside
  BY ConnectorAssumption DEF Ask, FromOutside, StreamInv, OtherTypes
<1>2. OtherTypes'
  BY <1>1 DEF OtherTypes
<1>3. WorkerTypes' /\ JobsFollow'
  BY WorkersRest DEF Ask, runVars, streamVars
<1>4. UNCHANGED <<status, token, accepted, position, lease, late, log, observed, finals>>
  BY DEF Ask, runVars, streamVars
<1> QED BY <1>2, <1>3, <1>4, QuietKeeps DEF StreamInv, RowTypes, StreamTypes

LEMMA SetStatusKeeps == ASSUME StreamInv, NEW a \in asked, SetStatus(a) PROVE StreamInv'
<1>1. a.run \in Runs /\ a.to \in Statuses
  BY DEF StreamInv, OtherTypes, Statuses
<1>2. status' = [status EXCEPT ![a.run] = a.to] /\ status \in [Runs -> Statuses]
  BY DEF SetStatus, StreamInv, RowTypes
<1>3. status' \in [Runs -> Statuses]
  BY <1>1, <1>2
<1>4. OtherTypes'
  BY DEF SetStatus, StreamInv, OtherTypes
<1>5. WorkerTypes' /\ JobsFollow'
  BY WorkersRest DEF SetStatus, streamVars
<1> QED BY <1>3, <1>4, <1>5, QuietKeeps DEF SetStatus, streamVars, StreamInv, RowTypes, StreamTypes

\* A page of the run is a batch that follows.
LEMMA BatchFollows ==
  ASSUME NEW r \in Runs, NEW t \in Nat, NEW p \in Nat, NEW found \in SUBSET Entries
  PROVE  /\ Batch(r, t, p, found) \in Batches
         /\ Batch(r, t, p, found).run = r /\ Batch(r, t, p, found).page = p
         /\ Batch(r, t, p, found).last = IsLast(r, p)
<1>1. IsLast(r, p) \in BOOLEAN
  BY Zenon DEF IsLast
<1> QED BY <1>1 DEF Batch, Batches

LEMMA ContentsAreEntries ==
  /\ \A found \in Contents : found \in SUBSET Entries
  /\ \A items \in SUBSET Items, v \in Versions : [item : items, version : {v}] \in SUBSET Entries
<1>1. ASSUME NEW items \in SUBSET Items, NEW v \in Versions
      PROVE  [item : items, version : {v}] \in SUBSET Entries
  BY DEF Entries
<1>2. \A found \in Contents : \E items \in SUBSET Items, v \in Versions :
        found = [item : items, version : {v}]
  BY DEF Contents
<1> QED BY <1>1, <1>2, Zenon

LEMMA PushKeeps == ASSUME StreamInv, NEW r \in Runs, Push(r) PROVE StreamInv'
<1>1. PICK found \in Contents : Accept(Batch(r, token[r], position[r], found))
  BY DEF Push
<1> DEFINE b == Batch(r, token[r], position[r], found)
<1>2. token[r] \in Nat /\ position[r] \in Nat
  BY DEF StreamInv, RowTypes
<1>3. b \in Batches /\ b.last = IsLast(b.run, b.page) /\ b.page = position[b.run]
  BY <1>2, BatchFollows, ContentsAreEntries
<1>4. outside' \in 0 .. MaxOutside
  BY ConnectorAssumption DEF Push, FromOutside, StreamInv, OtherTypes
<1>5. UNCHANGED <<asked, pc, todo, job>>
  BY DEF Push, workerVars
<1>6. WorkerTypes'
  BY <1>5 DEF StreamInv, WorkerTypes, Working
<1> HIDE DEF b
<1>7. Accept(b)
  BY <1>1 DEF b
<1> QED BY <1>3, <1>4, <1>5, <1>6, <1>7, AcceptKeeps

-----------------------------------------------------------------------------
(* Steps of the workers                                                    *)

\* The worker and what it holds
LEMMA JobIsHeld ==
  ASSUME StreamInv, NEW w \in Workers
  PROVE  /\ pc[w] \in Places /\ todo[w] \subseteq Runs /\ todo \in [Workers -> SUBSET Runs]
         /\ pc[w] \in {"idle", "listed"} => job[w] = {}
         /\ pc[w] \notin {"idle", "listed"} => \E j \in Jobs : job[w] = {j}
         /\ \A j \in job[w] : j \in Jobs /\ job[w] = {j}
         /\ outside \in 0 .. MaxOutside
BY DEF StreamInv, WorkerTypes, Working, OtherTypes

LEMMA ListKeeps == ASSUME StreamInv, NEW w \in Workers, List(w) PROVE StreamInv'
<1>1. PICK due \in SUBSET Queued :
        /\ todo' = [todo EXCEPT ![w] = due]
        /\ Goto(w, IF due = {} THEN "idle" ELSE "listed")
  BY DEF List
<1>2. todo' \in [Workers -> SUBSET Runs]
  BY <1>1, JobIsHeld DEF Queued
<1>3. job[w] = {} /\ {"idle", "listed"} \subseteq Places \ Scanned
  BY JobIsHeld DEF List, Places, Scanned
<1>4. PICK p \in {"idle", "listed"} : pc' = [pc EXCEPT ![w] = p]
  BY <1>1 DEF Goto
<1>5. UNCHANGED <<accepted, position, log>> /\ job' = job
  BY DEF List, runVars, streamVars
<1>6. WorkerTypes' /\ JobsFollow'
  BY <1>2, <1>3, <1>4, <1>5, WorkerSteps
<1> QED BY <1>6, JobIsHeld, LocalKeeps DEF List

\* A worker goes on with a job.
LEMMA GoesOn ==
  ASSUME StreamInv, NEW w \in Workers, NEW p \in Places, NEW j \in Jobs,
         p \notin {"idle", "listed", "submitting"},
         p \in Scanned => HoldsPages(j.run, Len(log)),
         Goto(w, p), Learn(w, j) \/ (UNCHANGED job /\ job[w] = {j}),
         UNCHANGED <<accepted, position, log>>, todo' \in [Workers -> SUBSET Runs]
  PROVE  WorkerTypes' /\ JobsFollow'
<1> DEFINE J == {j}
<1>1. /\ \E i \in Jobs : J = {i}
      /\ p \in Scanned => \A i \in J : HoldsPages(i.run, Len(log))
  OBVIOUS
<1>2. /\ pc' = [pc EXCEPT ![w] = p]
      /\ job' = [job EXCEPT ![w] = J] \/ (job' = job /\ J = job[w])
  BY DEF Goto, Learn
<1> HIDE DEF J
<1> QED BY <1>1, <1>2, WorkerSteps

\* A worker fails with the run it has.
LEMMA Fails ==
  ASSUME StreamInv, NEW w \in Workers, NEW r \in Runs, Fail(w, r),
         UNCHANGED <<accepted, position, log>>, todo' \in [Workers -> SUBSET Runs]
  PROVE  WorkerTypes' /\ JobsFollow'
<1>1. OnlyRun(r) \in Jobs
  BY DEF OnlyRun, Jobs
<1>2. "failed" \in Places /\ "failed" \notin Scanned
  BY DEF Places, Scanned
<1> QED BY <1>1, <1>2, GoesOn DEF Fail

LEMMA ReadRunKeeps ==
  ASSUME StreamInv, NEW w \in Workers, NEW r \in todo[w], ReadRun(w, r) PROVE StreamInv'
<1> DEFINE j == [OnlyRun(r) EXCEPT !.token = token[r]]
<1>1. r \in Runs /\ token[r] \in Nat
  BY JobIsHeld DEF StreamInv, RowTypes
<1>2. j \in Jobs
  BY <1>1 DEF Jobs, OnlyRun
<1>3. "claiming" \in Places /\ "claiming" \notin Scanned
  BY DEF Places, Scanned
<1>4. UNCHANGED <<accepted, position, log>>
  BY DEF ReadRun, runVars, streamVars
<1>5. todo' \in [Workers -> SUBSET Runs]
  <2>1. todo' = [todo EXCEPT ![w] = @ \ {r}] /\ todo \in [Workers -> SUBSET Runs]
    BY JobIsHeld DEF ReadRun
  <2> QED BY <2>1
<1>6. (Goto(w, "claiming") /\ Learn(w, j)) \/ Fail(w, r)
  BY DEF ReadRun
<1> HIDE DEF j
<1>7. WorkerTypes' /\ JobsFollow'
  <2>1. CASE Goto(w, "claiming") /\ Learn(w, j)
    BY <2>1, <1>2, <1>3, <1>4, <1>5, GoesOn
  <2>2. CASE Fail(w, r)
    BY <2>2, <1>1, <1>4, <1>5, Fails
  <2> QED BY <1>6, <2>1, <2>2
<1> QED BY <1>7, JobIsHeld, LocalKeeps DEF ReadRun

LEMMA DescribeKeeps ==
  ASSUME StreamInv, NEW w \in Workers, NEW j \in job[w], Describe(w, j) PROVE StreamInv'
<1> DEFINE k == [j EXCEPT !.accepted = accepted[j.run], !.position = position[j.run],
                          !.last = IsLast(j.run, position[j.run])]
<1>1. j \in Jobs
  BY JobIsHeld
<1>2. j.run \in Runs /\ IsLast(j.run, position[j.run]) \in BOOLEAN
  <2>1. j.run \in Runs
    BY <1>1 DEF Jobs
  <2> QED BY <2>1, Zenon DEF IsLast
<1>3. accepted[j.run] \in Nat /\ position[j.run] \in Nat
  BY <1>2, LogIsSequence DEF StreamInv, RowTypes
<1>4. k \in Jobs /\ k.accepted = accepted[k.run] /\ k.position = position[k.run]
  BY <1>1, <1>2, <1>3 DEF Jobs
<1>5. "submitting" \in Places \ Scanned /\ todo' \in [Workers -> SUBSET Runs]
  BY JobIsHeld DEF Describe, Places, Scanned
<1>6. /\ UNCHANGED <<accepted, position, log>> /\ pc' = [pc EXCEPT ![w] = "submitting"]
      /\ job' = [job EXCEPT ![w] = {k}]
  BY DEF Describe, Goto, Learn, runVars, streamVars
<1> HIDE DEF k
<1>7. \E i \in Jobs : {k} = {i}
  BY <1>4
<1>8. WorkerTypes' /\ JobsFollow'
  BY <1>4, <1>5, <1>6, <1>7, WorkerSteps
<1> QED BY <1>8, JobIsHeld, LocalKeeps DEF Describe

LEMMA Leaves ==
  ASSUME StreamInv, NEW w \in Workers, Leave(w), UNCHANGED <<accepted, position, log, todo>>
  PROVE  WorkerTypes' /\ JobsFollow'
<1>1. {"idle", "listed"} \subseteq Places \ Scanned /\ todo' \in [Workers -> SUBSET Runs]
  BY JobIsHeld DEF Places, Scanned
<1>2. PICK p \in {"idle", "listed"} : pc' = [pc EXCEPT ![w] = p]
  BY DEF Leave, Onwards, Goto
<1>3. job' = [job EXCEPT ![w] = {}]
  BY DEF Leave
<1> QED BY <1>1, <1>2, <1>3, WorkerSteps

LEMMA ClaimKeeps ==
  ASSUME StreamInv, NEW w \in Workers, NEW j \in job[w], Claim(w, j) PROVE StreamInv'
<1>1. j \in Jobs /\ RowTypes /\ StreamTypes /\ OtherTypes
  BY JobIsHeld DEF StreamInv
<1>2. Working(w)
  BY DEF Claim, Working
<1>3. CASE HeldByOther(w)
  <2>1. /\ UNCHANGED <<runVars, streamVars, asked, outside, todo>> /\ Fail(w, j.run)
        /\ UNCHANGED <<accepted, position, log>>
    BY <1>3 DEF Claim, streamVars, runVars
  <2>2. j.run \in Runs
    BY <1>1 DEF Jobs
  <2>3. WorkerTypes' /\ JobsFollow'
    BY <2>1, <2>2, JobIsHeld, Fails
  <2> QED BY <2>1, <2>3, JobIsHeld, LocalKeeps
<1>4. CASE ~HeldByOther(w)
  <2> DEFINE t == NextToken(j)
             k == [j EXCEPT !.token = t]
             l == [run |-> j.run, owner |-> w, token |-> t]
  <2>1. t \in Nat /\ j.run \in Runs
    <3>1. lease = {} \/ (CHOOSE x \in lease : TRUE) \in Leases
      BY <1>1 DEF StreamTypes
    <3> QED BY <1>1, <3>1 DEF NextToken, Leases, Jobs
  <2>2. /\ lease' = {l} /\ late' = FALSE
        /\ token' = [token EXCEPT ![j.run] = t]
        /\ status' = [status EXCEPT ![j.run] = "RUNNING"]
        /\ job' = [job EXCEPT ![w] = {k}]
        /\ pc' = [pc EXCEPT ![w] = "claimed"]
        /\ UNCHANGED <<accepted, position, log, observed, finals, asked, todo, outside>>
    BY <1>4 DEF Claim, Goto, Learn
  <2>3. k \in Jobs /\ l \in Leases
    BY <2>1, <1>1 DEF Jobs, Leases
  <2>4. /\ "claimed" \in Places \ Scanned /\ "RUNNING" \in Statuses /\ todo' \in [Workers -> SUBSET Runs]
        /\ late' \in BOOLEAN
    <3>1. "claimed" \in Places \ Scanned /\ "RUNNING" \in Statuses /\ todo' \in [Workers -> SUBSET Runs]
      BY <2>2, JobIsHeld DEF Places, Scanned, Statuses
    <3>2. late' \in BOOLEAN
      BY <2>2, Zenon
    <3> QED BY <3>1, <3>2
  <2> HIDE DEF t, k, l
  <2>5. token' \in [Runs -> Nat] /\ status' \in [Runs -> Statuses]
    BY <1>1, <2>1, <2>2, <2>4 DEF RowTypes
  <2>6. \E i \in Jobs : {k} = {i}
    BY <2>3
  <2>7. WorkerTypes' /\ JobsFollow'
    BY <2>2, <2>4, <2>6, WorkerSteps
  <2>8. OtherTypes' /\ observed' \subseteq Observations /\ \E x \in Leases : lease' = {x}
    BY <1>1, <2>2, <2>3 DEF OtherTypes, StreamTypes
  <2> QED BY <2>2, <2>4, <2>5, <2>7, <2>8, QuietKeeps
<1> QED BY <1>3, <1>4

\* What a submission does
LEMMA Submits ==
  ASSUME StreamInv, NEW w \in Workers, NEW j \in job[w], Submit(w, j)
  PROVE  /\ j \in Jobs /\ job[w] = {j} /\ pc[w] = "submitting"
         /\ UNCHANGED <<asked, todo, outside>>
         /\ \E found \in SUBSET Entries, k \in Jobs :
              LET b == Batch(j.run, j.token, j.position, found)
              IN  /\ \/ Goto(w, "beating") /\ Learn(w, k) /\ \E v \in Versions : k.version = {v}
                     \/ Fail(w, j.run)
                  /\ k.run = j.run /\ k.missing = j.missing
                  /\ \/ Admissible(b, j.accepted + 1) /\ Accept(b)
                     \/ UNCHANGED <<runVars, streamVars>>
<1>1. j \in Jobs /\ job[w] = {j} /\ pc[w] = "submitting" /\ UNCHANGED <<asked, todo, outside>>
  BY JobIsHeld DEF Submit
<1>2. PICK items \in SUBSET Items, v \in Versions :
        LET b == Batch(j.run, j.token, j.position, [item : items, version : {v}])
            taken == /\ Goto(w, "beating")
                     /\ Learn(w, [j EXCEPT !.accepted = 0, !.position = 0, !.version = {v}])
        IN  IF Admissible(b, j.accepted + 1)
            THEN Accept(b) /\ taken
            ELSE /\ IF Retried(b, j.accepted + 1) THEN taken ELSE Fail(w, j.run)
                 /\ UNCHANGED <<runVars, streamVars>>
  BY DEF Submit
<1>3. PICK found \in SUBSET Entries : found = [item : items, version : {v}]
  BY ContentsAreEntries
<1> DEFINE kk == [j EXCEPT !.accepted = 0, !.position = 0, !.version = {v}]
<1>4. kk \in Jobs /\ kk.version = {v} /\ kk.run = j.run /\ kk.missing = j.missing
  BY <1>1 DEF Jobs
<1> HIDE DEF kk
<1>5. PICK k \in Jobs : k = kk
  BY <1>4
<1>6. LET b == Batch(j.run, j.token, j.position, found)
      IN  /\ (Goto(w, "beating") /\ Learn(w, k)) \/ Fail(w, j.run)
          /\ \/ Admissible(b, j.accepted + 1) /\ Accept(b)
             \/ UNCHANGED <<runVars, streamVars>>
  <2> DEFINE b == Batch(j.run, j.token, j.position, found)
  <2>1. IF Admissible(b, j.accepted + 1)
        THEN Accept(b) /\ Goto(w, "beating") /\ Learn(w, k)
        ELSE /\ IF Retried(b, j.accepted + 1)
                THEN Goto(w, "beating") /\ Learn(w, k) ELSE Fail(w, j.run)
             /\ UNCHANGED <<runVars, streamVars>>
    BY <1>2, <1>3, <1>5, Zenon DEF kk
  <2> HIDE DEF b
  <2>2. /\ (Goto(w, "beating") /\ Learn(w, k)) \/ Fail(w, j.run)
        /\ \/ Admissible(b, j.accepted + 1) /\ Accept(b)
           \/ UNCHANGED <<runVars, streamVars>>
    BY <2>1, Zenon
  <2> QED BY <2>2 DEF b
<1>7. k.version = {v} /\ k.run = j.run /\ k.missing = j.missing
  BY <1>4, <1>5
<1>8. \E u \in Versions : k.version = {u}
  BY <1>7
<1>9. \E q \in SUBSET Entries, i \in Jobs :
        LET b == Batch(j.run, j.token, j.position, q)
        IN  /\ \/ Goto(w, "beating") /\ Learn(w, i) /\ \E u \in Versions : i.version = {u}
               \/ Fail(w, j.run)
            /\ i.run = j.run /\ i.missing = j.missing
            /\ \/ Admissible(b, j.accepted + 1) /\ Accept(b)
               \/ UNCHANGED <<runVars, streamVars>>
  BY <1>6, <1>7, <1>8, Zenon
<1> QED BY <1>1, <1>9, Zenon

\* An admitted page was read when the run was where it is now.
LEMMA AdmittedIsNext ==
  ASSUME StreamInv, NEW w \in Workers, NEW j \in job[w], pc[w] = "submitting", j \in Jobs,
         NEW found \in SUBSET Entries,
         Admissible(Batch(j.run, j.token, j.position, found), j.accepted + 1)
  PROVE  LET b == Batch(j.run, j.token, j.position, found)
         IN  /\ b \in Batches /\ b.run = j.run /\ b.page = position[b.run]
             /\ b.last = IsLast(b.run, b.page)
<1> DEFINE b == Batch(j.run, j.token, j.position, found)
<1>1. RowTypes /\ StreamTypes
  BY DEF StreamInv
<1>2. j.run \in Runs /\ j.token \in Nat /\ j.position \in Nat /\ j.accepted \in Nat
  BY DEF Jobs
<1>3. /\ b \in Batches /\ b.run = j.run /\ b.page = j.position
      /\ b.last = IsLast(b.run, b.page)
  BY <1>2, BatchFollows
<1>4. j.accepted + 1 = Len(log) + 1
  BY DEF Admissible
<1>5. /\ j.accepted <= accepted[j.run] /\ accepted[j.run] \in 0 .. Len(log)
      /\ j.accepted = accepted[j.run] => j.position = position[j.run]
  BY <1>1, <1>2 DEF StreamInv, JobsFollow, RowTypes
<1>6. j.accepted = accepted[j.run]
  BY <1>1, <1>2, <1>4, <1>5, LogIsSequence
<1>7. b.page = position[b.run]
  BY <1>3, <1>5, <1>6
<1> QED BY <1>3, <1>7

LEMMA SubmitKeeps ==
  ASSUME StreamInv, NEW w \in Workers, NEW j \in job[w], Submit(w, j) PROVE StreamInv'
<1>1. /\ j \in Jobs /\ pc[w] = "submitting" /\ UNCHANGED <<asked, todo, outside>>
      /\ RowTypes /\ StreamTypes /\ OtherTypes /\ WorkerTypes
  BY Submits DEF StreamInv
<1>2. PICK found \in SUBSET Entries, k \in Jobs :
        LET b == Batch(j.run, j.token, j.position, found)
        IN  /\ (Goto(w, "beating") /\ Learn(w, k)) \/ Fail(w, j.run)
            /\ \/ Admissible(b, j.accepted + 1) /\ Accept(b)
               \/ UNCHANGED <<runVars, streamVars>>
  <2>1. \E found \in SUBSET Entries, k \in Jobs :
          LET b == Batch(j.run, j.token, j.position, found)
          IN  /\ \/ Goto(w, "beating") /\ Learn(w, k) /\ \E v \in Versions : k.version = {v}
                 \/ Fail(w, j.run)
              /\ k.run = j.run /\ k.missing = j.missing
              /\ \/ Admissible(b, j.accepted + 1) /\ Accept(b)
                 \/ UNCHANGED <<runVars, streamVars>>
    BY Submits
  <2> QED BY <2>1, Zenon
<1> DEFINE b == Batch(j.run, j.token, j.position, found)
<1>3. j.run \in Runs /\ {"beating", "failed"} \subseteq Places \ Scanned
  BY <1>1 DEF Jobs, Places, Scanned
<1>4. PICK p \in {"beating", "failed"}, i \in Jobs : Goto(w, p) /\ Learn(w, i)
  <2>1. OnlyRun(j.run) \in Jobs
    BY <1>3 DEF OnlyRun, Jobs
  <2> QED BY <1>2, <2>1 DEF Fail
<1>5. CASE Admissible(b, j.accepted + 1) /\ Accept(b)
  <2>1. b \in Batches /\ b.page = position[b.run] /\ b.last = IsLast(b.run, b.page)
    BY <1>1, <1>5, AdmittedIsNext
  <2>2. pc' = [pc EXCEPT ![w] = p] /\ job' = [job EXCEPT ![w] = {i}]
    BY <1>4 DEF Goto, Learn
  <2>3. WorkerTypes'
    <3>1. ASSUME NEW v \in Workers
          PROVE  IF Working(v)' THEN \E x \in Jobs : job'[v] = {x} ELSE job'[v] = {}
      BY <1>1, <1>4, <2>2 DEF WorkerTypes, Working
    <3>2. /\ pc' \in [Workers -> Places] /\ todo' \in [Workers -> SUBSET Runs]
          /\ job' \in [Workers -> SUBSET Jobs]
      BY <1>1, <1>3, <1>4, <2>2 DEF WorkerTypes
    <3> QED BY <3>1, <3>2 DEF WorkerTypes
  <2>4. \A v \in Workers :
          pc'[v] = "submitting" \/ pc'[v] \in Scanned => pc'[v] = pc[v] /\ job'[v] = job[v]
    BY <1>1, <1>3, <1>4, <2>2 DEF WorkerTypes
  <2>5. outside' \in 0 .. MaxOutside /\ UNCHANGED asked
    BY <1>1 DEF OtherTypes
  <2> HIDE DEF b
  <2> QED BY <1>5, <2>1, <2>3, <2>4, <2>5, AcceptKeeps
<1>6. CASE UNCHANGED <<runVars, streamVars>>
  <2>1. UNCHANGED <<accepted, position, log>> /\ todo' \in [Workers -> SUBSET Runs]
    BY <1>1, <1>6, JobIsHeld DEF runVars, streamVars
  <2>2. WorkerTypes' /\ JobsFollow'
    BY <1>3, <1>4, <2>1, GoesOn
  <2> QED BY <1>1, <1>6, <2>2, JobIsHeld, LocalKeeps
<1> QED BY <1>2, <1>5, <1>6

LEMMA HeartbeatKeeps ==
  ASSUME StreamInv, NEW w \in Workers, NEW j \in job[w], Heartbeat(w, j) PROVE StreamInv'
<1>1. UNCHANGED <<runVars, streamVars, asked, todo, outside, accepted, position, log>>
  BY DEF Heartbeat, runVars, streamVars
<1>2. /\ "finalizing" \in Places \ Scanned /\ j \in Jobs /\ j.run \in Runs /\ job[w] = {j}
      /\ todo' \in [Workers -> SUBSET Runs]
  BY <1>1, JobIsHeld DEF Places, Scanned, Jobs
<1>3. (Goto(w, "finalizing") /\ job' = job) \/ Fail(w, j.run) \/ Leave(w)
  BY DEF Heartbeat
<1>4. WorkerTypes' /\ JobsFollow'
  <2>1. CASE Goto(w, "finalizing") /\ job' = job
    BY <2>1, <1>1, <1>2, GoesOn
  <2>2. CASE Fail(w, j.run)
    BY <2>2, <1>1, <1>2, Fails
  <2>3. CASE Leave(w)
    BY <2>3, <1>1, Leaves
  <2> QED BY <1>3, <2>1, <2>2, <2>3
<1> QED BY <1>1, <1>4, JobIsHeld, LocalKeeps

-----------------------------------------------------------------------------
(* Finalization                                                            *)

\* A run that ends with its last page has all of its pages.
LEMMA FinishedRunsHoldPages ==
  ASSUME StreamInv, NEW r \in Runs, EndsWithLastPage(r)
  PROVE  HoldsPages(r, Len(log))
<1> SUFFICES ASSUME NEW p \in 0 .. Pages[r] - 1
             PROVE  \E n \in 1 .. Len(log) : log[n].run = r /\ log[n].page = p
  BY DEF HoldsPages
<1>1. /\ Len(log) \in Nat /\ DOMAIN log = 1 .. Len(log)
      /\ \A n \in DOMAIN log : log[n] \in Batches
  BY LogIsSequence DEF StreamInv
<1>2. PICK n \in DOMAIN log : log[n].run = r /\ log[n].last
  BY DEF EndsWithLastPage, IsLastOf
<1>3. log[n].page + 1 = Pages[r]
  BY <1>2 DEF StreamInv, LogInv, BatchesSayLast, IsLast
<1>4. log[n].page \in Nat /\ Pages[r] \in Nat
  BY <1>1, <1>2, ConnectorAssumption DEF Batches
<1>5. p \in 0 .. log[n].page
  BY <1>3, <1>4
<1>6. PICK k \in 1 .. n : log[k].run = log[n].run /\ log[k].page = p
  BY <1>5, <1>2 DEF StreamInv, LogInv, PagesBefore
<1> QED BY <1>6, <1>1, <1>2

LEMMA CheckSnapshotKeeps ==
  ASSUME StreamInv, NEW w \in Workers, NEW j \in job[w], CheckSnapshot(w, j) PROVE StreamInv'
<1>1. UNCHANGED <<runVars, streamVars, asked, todo, outside, accepted, position, log>>
  BY DEF CheckSnapshot, runVars, streamVars
<1>2. /\ "checked" \in Places /\ "checked" \in Scanned /\ j \in Jobs /\ j.run \in Runs
      /\ job[w] = {j} /\ todo' \in [Workers -> SUBSET Runs]
  BY <1>1, JobIsHeld DEF Places, Scanned, Jobs
<1>3. WorkerTypes' /\ JobsFollow'
  <2>1. CASE MayFinalize(j)
    <3>1. Goto(w, "checked") /\ UNCHANGED job /\ HoldsPages(j.run, Len(log))
      BY <1>2, <2>1, FinishedRunsHoldPages DEF CheckSnapshot, MayFinalize
    <3> QED BY <3>1, <1>1, <1>2, GoesOn
  <2>2. CASE ~MayFinalize(j)
    BY <2>2, <1>1, <1>2, Fails DEF CheckSnapshot
  <2> QED BY <2>1, <2>2
<1> QED BY <1>1, <1>3, JobIsHeld, LocalKeeps

LEMMA SeenAreItems ==
  ASSUME StreamTypes, NEW r, NEW n \in 0 .. Len(log)
  PROVE  Seen(r, n) \subseteq Items
<1> SUFFICES ASSUME NEW i \in Seen(r, n) PROVE i \in Items
  OBVIOUS
<1>1. PICK k \in 1 .. n : \E e \in log[k].found : i = e.item
  BY DEF Seen
<1>2. log[k] \in Batches
  BY LogIsSequence
<1> QED BY <1>1, <1>2 DEF Batches, Entries

\* What a finalization reads it keeps in its job.
LEMMA ReadKeeps ==
  ASSUME StreamInv, NEW w \in Workers, NEW j \in job[w], pc[w] \in Scanned,
         NEW p \in Scanned, NEW k \in Jobs, k.run = j.run,
         Goto(w, p), Learn(w, k) \/ (UNCHANGED job /\ k = j),
         UNCHANGED <<runVars, streamVars, asked, todo, outside>>
  PROVE  StreamInv'
<1>1. HoldsPages(k.run, Len(log)) /\ p \in Places /\ p \notin {"idle", "listed", "submitting"}
  BY DEF StreamInv, JobsFollow, Scanned, Places
<1>2. UNCHANGED <<accepted, position, log>> /\ todo' \in [Workers -> SUBSET Runs] /\ job[w] = {j}
  BY JobIsHeld DEF runVars, streamVars
<1>3. WorkerTypes' /\ JobsFollow'
  BY <1>1, <1>2, GoesOn
<1> QED BY <1>3, JobIsHeld, LocalKeeps

LEMMA ReadCursorKeeps ==
  ASSUME StreamInv, NEW w \in Workers, NEW j \in job[w], ReadCursor(w, j) PROVE StreamInv'
<1>1. j \in Jobs /\ pc[w] \in Scanned /\ {"comparing", "committing"} \subseteq Scanned
  BY JobIsHeld DEF ReadCursor, Scanned
<1>2. UNCHANGED <<runVars, streamVars, asked, todo, outside>>
  BY DEF ReadCursor
<1>3. CASE finals # <<>> /\ Boundary[Last(finals).run] = Boundary[j.run]
  <2>1. Last(finals).run \in Runs
    <3> DEFINE F == [run : Runs, at : 1 .. Len(log)]
    <3>1. finals \in Seq(F)
      BY DEF StreamInv, StreamTypes
    <3>2. \A f \in F : f.run \in Runs
      OBVIOUS
    <3> HIDE DEF F
    <3>3. Last(finals) \in F
      BY <1>3, <3>1, EmptySeq, LenProperties DEF Last
    <3> QED BY <3>2, <3>3
  <2> DEFINE k == [j EXCEPT !.prior = {Last(finals).run}]
  <2>2. k \in Jobs /\ k.run = j.run
    BY <1>1, <2>1 DEF Jobs
  <2>3. Goto(w, "comparing") /\ Learn(w, k)
    BY <1>3 DEF ReadCursor
  <2> HIDE DEF k
  <2> QED BY <1>1, <1>2, <2>2, <2>3, ReadKeeps
<1>4. CASE ~(finals # <<>> /\ Boundary[Last(finals).run] = Boundary[j.run])
  BY <1>1, <1>2, <1>4, ReadKeeps DEF ReadCursor
<1> QED BY <1>3, <1>4

LEMMA ReadOwnKeeps ==
  ASSUME StreamInv, NEW w \in Workers, NEW j \in job[w], ReadOwn(w, j) PROVE StreamInv'
<1> DEFINE k == [j EXCEPT !.own = Seen(j.run, Len(log))]
<1>1. j \in Jobs /\ pc[w] \in Scanned /\ "subtracting" \in Scanned
  BY JobIsHeld DEF ReadOwn, Scanned
<1>2. Seen(j.run, Len(log)) \subseteq Items
  <2>1. Len(log) \in 0 .. Len(log)
    BY LogIsSequence DEF StreamInv
  <2> QED BY <2>1, SeenAreItems DEF StreamInv
<1>3. k \in Jobs /\ k.run = j.run
  BY <1>1, <1>2 DEF Jobs
<1>4. Goto(w, "subtracting") /\ Learn(w, k) /\ UNCHANGED <<runVars, streamVars, asked, todo, outside>>
  BY DEF ReadOwn
<1> HIDE DEF k
<1> QED BY <1>1, <1>3, <1>4, ReadKeeps

LEMMA ReadPriorKeeps ==
  ASSUME StreamInv, NEW w \in Workers, NEW j \in job[w], ReadPrior(w, j) PROVE StreamInv'
<1>1. PICK q \in j.prior :
        Learn(w, [j EXCEPT !.missing = Lacks(Seen(q, Len(log)), j.own), !.own = {}, !.prior = {}])
  BY DEF ReadPrior
<1> DEFINE k == [j EXCEPT !.missing = Lacks(Seen(q, Len(log)), j.own), !.own = {}, !.prior = {}]
<1>2. j \in Jobs /\ pc[w] \in Scanned /\ "committing" \in Scanned
  BY JobIsHeld DEF ReadPrior, Scanned
<1>3. Lacks(Seen(q, Len(log)), j.own) \subseteq Items
  <2>1. Len(log) \in 0 .. Len(log)
    BY LogIsSequence DEF StreamInv
  <2> QED BY <2>1, SeenAreItems DEF StreamInv, Lacks
<1>4. k \in Jobs /\ k.run = j.run
  BY <1>2, <1>3 DEF Jobs
<1>5. Goto(w, "committing") /\ Learn(w, k) /\ UNCHANGED <<runVars, streamVars, asked, todo, outside>>
  BY <1>1 DEF ReadPrior
<1> HIDE DEF k
<1> QED BY <1>2, <1>4, <1>5, ReadKeeps

LEMMA CommitSnapshotKeeps ==
  ASSUME StreamInv, NEW w \in Workers, NEW j \in job[w], CommitSnapshot(w, j) PROVE StreamInv'
<1>1. j \in Jobs /\ j.run \in Runs /\ RowTypes /\ StreamTypes /\ OtherTypes
  BY JobIsHeld DEF StreamInv, Jobs
<1>2. UNCHANGED <<token, accepted, position, late, log, asked, todo, outside>>
  BY DEF CommitSnapshot
<1>3. HoldsPages(j.run, Len(log))
  BY DEF StreamInv, JobsFollow, CommitSnapshot, Scanned
<1> DEFINE f == [run |-> j.run, at |-> Len(log)]
           F == [run : Runs, at : 1 .. Len(log)]
           U == [item : Undeleted(j.missing, j.run), version : j.version]
<1>4. /\ observed' = Observe(U, j.run, "TOMBSTONE")
      /\ finals' = Append(finals, f)
      /\ status' = [status EXCEPT ![j.run] = "SUCCEEDED"]
      /\ lease' = {l \in lease : l.run # j.run} /\ Leave(w)
  BY DEF CommitSnapshot
<1>5. WorkerTypes' /\ JobsFollow'
  BY <1>2, <1>4, Leaves
<1>6. status' \in [Runs -> Statuses]
  BY <1>1, <1>4 DEF RowTypes, Statuses
<1>7. RowTypes'
  BY <1>1, <1>2, <1>6 DEF RowTypes
<1>8. observed' \subseteq Observations
  <2>1. observed \subseteq Observations
    BY <1>1 DEF StreamTypes
  <2>2. U \in SUBSET Entries
    BY <1>1 DEF Undeleted, Entries, Jobs
  <2> HIDE DEF U
  <2> QED BY <1>1, <1>4, <2>1, <2>2, ObserveTypes
<1>9. Len(log) \in 1 .. Len(log)
  <2>1. Pages[j.run] \in Nat /\ Pages[j.run] # 0
    BY <1>1, ConnectorAssumption
  <2>2. 0 \in 0 .. Pages[j.run] - 1
    BY <2>1
  <2> QED BY <2>2, <1>1, <1>3, LogIsSequence DEF HoldsPages
<1>10. f \in F /\ finals \in Seq(F)
  BY <1>1, <1>9 DEF StreamTypes
<1>11. lease' = {} \/ \E l \in Leases : lease' = {l}
  BY <1>1, <1>4 DEF StreamTypes
<1> HIDE DEF f, F, U
<1>12. /\ finals' \in Seq(F) /\ Len(finals') = Len(finals) + 1 /\ Len(finals) \in Nat
       /\ \A k \in 1 .. Len(finals) : finals'[k] = finals[k]
       /\ finals'[Len(finals) + 1] = f
       /\ DOMAIN finals' = 1 .. Len(finals) + 1 /\ DOMAIN finals = 1 .. Len(finals)
  BY <1>4, <1>10, AppendProperties, LenProperties
<1>13. StreamTypes'
  BY <1>1, <1>2, <1>8, <1>11, <1>12 DEF StreamTypes, F
<1>14. OtherTypes'
  BY <1>1, <1>2 DEF OtherTypes
<1>15. RunKnowsItsBatches' /\ BatchesSayLast' /\ PositionsFollow' /\ PagesInOrder' /\ PagesBefore'
  BY <1>2 DEF StreamInv, LogInv, RunKnowsItsBatches, BatchesSayLast, PositionsFollow,
     PagesInOrder, PagesBefore, IsLastOf
<1>16. SnapshotsHoldPages'
  <2> SUFFICES ASSUME NEW k \in 1 .. Len(finals) + 1, NEW p \in 0 .. Pages[finals'[k].run] - 1
               PROVE  \E n \in 1 .. finals'[k].at :
                        log[n].run = finals'[k].run /\ log[n].page = p
    BY <1>2, <1>12 DEF SnapshotsHoldPages
  <2>1. CASE k \in 1 .. Len(finals)
    BY <2>1, <1>12 DEF StreamInv, SnapshotsHoldPages
  <2>2. CASE k = Len(finals) + 1
    <3>1. finals'[k].run = j.run /\ finals'[k].at = Len(log)
      BY <2>2, <1>12 DEF f
    <3>2. p \in 0 .. Pages[j.run] - 1
      BY <3>1
    <3> QED BY <3>1, <3>2, <1>3 DEF HoldsPages
  <2>3. k \in 1 .. Len(finals) \/ k = Len(finals) + 1
    BY <1>12
  <2> QED BY <2>1, <2>2, <2>3, Zenon
<1> QED BY <1>5, <1>7, <1>13, <1>14, <1>15, <1>16 DEF StreamInv, LogInv

LEMMA RecordFailureKeeps ==
  ASSUME StreamInv, NEW w \in Workers, NEW j \in job[w], RecordFailure(w, j) PROVE StreamInv'
<1>1. j.run \in Runs /\ "FAILED" \in Statuses
  BY JobIsHeld DEF Jobs, Statuses
<1>2. /\ status' = [status EXCEPT ![j.run] = "FAILED"] /\ status \in [Runs -> Statuses]
      /\ Leave(w)
      /\ UNCHANGED <<token, accepted, position, lease, late, log, observed, finals, asked, todo,
                     outside>>
  BY DEF RecordFailure, streamVars, StreamInv, RowTypes
<1>3. status' \in [Runs -> Statuses]
  BY <1>1, <1>2
<1>4. WorkerTypes' /\ JobsFollow'
  BY <1>2, Leaves
<1> QED BY <1>2, <1>3, <1>4, QuietKeeps DEF StreamInv, RowTypes, StreamTypes, OtherTypes

-----------------------------------------------------------------------------
(* Failures                                                                *)

LEMMA CallFailsKeeps == ASSUME StreamInv, NEW w \in Workers, CallFails(w) PROVE StreamInv'
<1>1. UNCHANGED <<runVars, streamVars, asked, todo, accepted, position, log>>
  BY DEF CallFails, runVars, streamVars
<1>2. PICK j \in job[w] : Fail(w, j.run)
  BY DEF CallFails
<1>3. j.run \in Runs /\ todo' \in [Workers -> SUBSET Runs]
  BY <1>1, JobIsHeld DEF Jobs
<1>4. outside' \in 0 .. MaxOutside
  BY ConnectorAssumption, JobIsHeld DEF CallFails, FromOutside
<1>5. WorkerTypes' /\ JobsFollow'
  BY <1>1, <1>2, <1>3, Fails
<1> QED BY <1>1, <1>4, <1>5, LocalKeeps

LEMMA CrashKeeps == ASSUME StreamInv, NEW w \in Workers, Crash(w) PROVE StreamInv'
<1>1. UNCHANGED <<runVars, streamVars, asked, accepted, position, log>>
  BY DEF Crash, runVars, streamVars
<1>2. todo' \in [Workers -> SUBSET Runs] /\ "idle" \in Places \ Scanned
  BY JobIsHeld DEF Crash, Places, Scanned
<1>3. pc' = [pc EXCEPT ![w] = "idle"] /\ job' = [job EXCEPT ![w] = {}]
  BY DEF Crash, Goto
<1>4. outside' \in 0 .. MaxOutside
  BY ConnectorAssumption, JobIsHeld DEF Crash, FromOutside
<1>5. WorkerTypes' /\ JobsFollow'
  BY <1>1, <1>2, <1>3, WorkerSteps
<1> QED BY <1>1, <1>4, <1>5, LocalKeeps

LEMMA LeaseExpiresKeeps == ASSUME StreamInv, LeaseExpires PROVE StreamInv'
<1>1. UNCHANGED <<status, token, accepted, position, lease, log, observed, finals, asked>>
  BY DEF LeaseExpires, runVars
<1>2. WorkerTypes' /\ JobsFollow'
  BY <1>1, WorkersRest DEF LeaseExpires
<1>3. late' \in BOOLEAN
  BY Zenon DEF LeaseExpires
<1>4. OtherTypes'
  BY <1>1, ConnectorAssumption DEF LeaseExpires, FromOutside, StreamInv, OtherTypes
<1> QED BY <1>1, <1>2, <1>3, <1>4, QuietKeeps DEF StreamInv, RowTypes, StreamTypes

LEMMA StutterKeeps == ASSUME StreamInv, UNCHANGED vars PROVE StreamInv'
<1>1. UNCHANGED <<runVars, streamVars, asked, workerVars, accepted, position, log, outside>>
  BY DEF vars, runVars, streamVars
<1>2. WorkerTypes' /\ JobsFollow'
  BY <1>1, WorkersRest
<1> QED BY <1>1, <1>2, LocalKeeps DEF StreamInv, OtherTypes

LEMMA StreamInvNext == ASSUME StreamInv, [Next]_vars PROVE StreamInv'
<1>1. ASSUME NEW r \in Runs,
             Create(r) \/ Push(r) \/ Ask(r, "PAUSED") \/ Ask(r, "QUEUED")
      PROVE  StreamInv'
  BY <1>1, CreateKeeps, PushKeeps, AskKeeps
<1>2. ASSUME NEW w \in Workers, Step(w)
      PROVE  StreamInv'
  <2>1. CASE List(w) \/ \E r \in todo[w] : ReadRun(w, r)
    BY <2>1, ListKeeps, ReadRunKeeps
  <2>2. CASE \E j \in job[w] : Claim(w, j) \/ Describe(w, j) \/ Submit(w, j)
    BY <2>2, ClaimKeeps, DescribeKeeps, SubmitKeeps
  <2>3. CASE \E j \in job[w] : Heartbeat(w, j) \/ RecordFailure(w, j)
    BY <2>3, HeartbeatKeeps, RecordFailureKeeps
  <2>4. CASE \E j \in job[w] : \/ CheckSnapshot(w, j) \/ ReadCursor(w, j) \/ ReadOwn(w, j)
                               \/ ReadPrior(w, j) \/ CommitSnapshot(w, j)
    BY <2>4, CheckSnapshotKeeps, ReadCursorKeeps, ReadOwnKeeps, ReadPriorKeeps, CommitSnapshotKeeps
  <2> QED BY <1>2, <2>1, <2>2, <2>3, <2>4 DEF Step
<1>3. ASSUME NEW w \in Workers, CallFails(w) \/ Crash(w)
      PROVE  StreamInv'
  BY <1>3, CallFailsKeeps, CrashKeeps
<1> QED BY <1>1, <1>2, <1>3, SetStatusKeeps, LeaseExpiresKeeps, StutterKeeps DEF Next, Client

LEMMA InvariantHolds == Spec => []StreamInv
<1> QED BY StreamInvInit, StreamInvNext, PTL DEF Spec

-----------------------------------------------------------------------------
(* Deletions                                                               *)

\* A completed snapshot of the boundary of run r has identity i.
FinalizedHas(r, i) ==
  \E k \in DOMAIN finals :
    Boundary[finals[k].run] = Boundary[r] /\ i \in Seen(finals[k].run, Len(log))

\* Run r was complete by batch n and lacked the identities, which another one has.
LackedBy(r, n, items) ==
  /\ n \in 0 .. Len(log) /\ HoldsPages(r, n)
  /\ \A i \in items : i \notin Seen(r, n) /\ FinalizedHas(r, i)

\* What a worker at place p has read for its finalization
JobRead(p, j) ==
  /\ p # "committing" => j.missing = {}
  /\ p \in {"comparing", "subtracting"} =>
       \A q \in j.prior : \E k \in DOMAIN finals :
         finals[k].run = q /\ Boundary[q] = Boundary[j.run]
  /\ p = "subtracting" =>
       \E n \in 0 .. Len(log) : HoldsPages(j.run, n) /\ j.own = Seen(j.run, n)
  /\ p = "committing" => \E n \in Nat : LackedBy(j.run, n, j.missing)
  /\ p \in {"beating", "finalizing"} \cup Scanned => \E v \in Versions : j.version = {v}

JobsRead == \A w \in Workers : \A j \in job[w] : JobRead(pc[w], j)

TombstonesAreInferred ==
  \A o \in observed : o.op = "TOMBSTONE" => \E n \in Nat : LackedBy(o.run, n, {o.item})

DeletionInv == JobsRead /\ TombstonesAreInferred

LEMMA SnapshotsAreInLog ==
  ASSUME StreamTypes
  PROVE  /\ Len(finals) \in Nat /\ DOMAIN finals = 1 .. Len(finals)
         /\ \A k \in DOMAIN finals : finals[k].run \in Runs /\ finals[k].at \in 1 .. Len(log)
<1> DEFINE F == [run : Runs, at : 1 .. Len(log)]
<1>1. finals \in Seq(F)
  BY DEF StreamTypes
<1>2. \A f \in F : f.run \in Runs /\ f.at \in 1 .. Len(log)
  OBVIOUS
<1> HIDE DEF F
<1>3. \A k \in DOMAIN finals : finals[k] \in F
  BY <1>1, LenProperties
<1> QED BY <1>1, <1>2, <1>3, LenProperties

\* Batches and snapshots are added and never change.
Grows ==
  /\ Len(log') \in Nat /\ Len(log) <= Len(log')
  /\ \A n \in 1 .. Len(log) : log'[n] = log[n]
  /\ \A k \in DOMAIN finals : k \in DOMAIN finals' /\ finals'[k] = finals[k]

LEMMA AcceptGrows ==
  ASSUME StreamTypes, NEW b \in Batches, Accept(b)
  PROVE  Grows
<1>1. log' = Append(log, b) /\ UNCHANGED finals
  BY DEF Accept
<1>2. Len(log) \in Nat /\ Len(log') = Len(log) + 1 /\ \A n \in 1 .. Len(log) : log'[n] = log[n]
  BY <1>1, LogGrows, LogIsSequence
<1> QED BY <1>1, <1>2 DEF Grows

\* A snapshot more
LEMMA CommitAppends ==
  ASSUME StreamInv, NEW w \in Workers, NEW j \in job[w], CommitSnapshot(w, j)
  PROVE  /\ DOMAIN finals' = 1 .. (Len(finals) + 1)
         /\ \A k \in 1 .. Len(finals) : finals'[k] = finals[k]
         /\ finals'[Len(finals) + 1].run = j.run
<1> DEFINE f == [run |-> j.run, at |-> Len(log)]
           G == [run : Runs, at : Nat]
<1>1. f \in G /\ f.run = j.run
  BY JobIsHeld, LogIsSequence DEF Jobs, StreamInv
<1>2. finals \in Seq(G)
  <2> DEFINE F == [run : Runs, at : 1 .. Len(log)]
  <2>1. F \subseteq G /\ finals \in Seq(F)
    BY LogIsSequence DEF StreamInv, StreamTypes
  <2> HIDE DEF F, G
  <2> QED BY <2>1, SeqMonotonic
<1>3. finals' = Append(finals, f)
  BY DEF CommitSnapshot
<1> HIDE DEF f, G
<1> QED BY <1>1, <1>2, <1>3, AppendProperties, LenProperties

LEMMA StreamGrows ==
  ASSUME StreamInv, [Next]_vars
  PROVE  Grows
<1>0. StreamTypes
  BY DEF StreamInv
<1>1. ASSUME UNCHANGED <<log, finals>>
      PROVE  Grows
  BY <1>0, <1>1, LogIsSequence DEF Grows
<1>2. ASSUME NEW r \in Runs, Push(r)
      PROVE  Grows
  <2>1. PICK found \in Contents : Accept(Batch(r, token[r], position[r], found))
    BY <1>2 DEF Push
  <2>2. Batch(r, token[r], position[r], found) \in Batches
    BY BatchFollows, ContentsAreEntries DEF StreamInv, RowTypes
  <2> QED BY <1>0, <2>1, <2>2, AcceptGrows
<1>3. ASSUME NEW w \in Workers, NEW j \in job[w], Submit(w, j)
      PROVE  Grows
  <2>1. PICK found \in SUBSET Entries :
          \/ Accept(Batch(j.run, j.token, j.position, found))
          \/ UNCHANGED streamVars
    BY <1>3, Submits, Zenon
  <2>2. Batch(j.run, j.token, j.position, found) \in Batches
    BY BatchFollows, JobIsHeld DEF Jobs
  <2> QED BY <1>0, <1>1, <2>1, <2>2, AcceptGrows DEF streamVars
<1>4. ASSUME NEW w \in Workers, NEW j \in job[w], CommitSnapshot(w, j)
      PROVE  Grows
  <2>1. UNCHANGED log /\ DOMAIN finals = 1 .. Len(finals) /\ Len(finals) \in Nat
    BY <1>0, <1>4, SnapshotsAreInLog DEF CommitSnapshot
  <2> QED BY <1>0, <1>4, <2>1, CommitAppends, LogIsSequence DEF Grows
<1>5. CASE Client
  BY <1>1, <1>2, <1>5 DEF Client, Create, Ask, SetStatus, streamVars
<1>6. ASSUME NEW w \in Workers, Step(w)
      PROVE  Grows
  <2>1. ASSUME List(w) \/ \E r \in todo[w] : ReadRun(w, r)
        PROVE  Grows
    BY <1>1, <2>1 DEF List, ReadRun, streamVars
  <2>2. ASSUME NEW j \in job[w],
               Claim(w, j) \/ Describe(w, j) \/ Heartbeat(w, j) \/ RecordFailure(w, j)
        PROVE  Grows
    BY <1>1, <2>2 DEF Claim, Describe, Heartbeat, RecordFailure, streamVars
  <2>3. ASSUME NEW j \in job[w],
               CheckSnapshot(w, j) \/ ReadCursor(w, j) \/ ReadOwn(w, j) \/ ReadPrior(w, j)
        PROVE  Grows
    BY <1>1, <2>3 DEF CheckSnapshot, ReadCursor, ReadOwn, ReadPrior, streamVars
  <2> QED BY <1>3, <1>4, <1>6, <2>1, <2>2, <2>3 DEF Step
<1>7. CASE LeaseExpires \/ (\E w \in Workers : CallFails(w) \/ Crash(w)) \/ UNCHANGED vars
  BY <1>1, <1>7 DEF LeaseExpires, CallFails, Crash, vars, streamVars
<1> QED BY <1>5, <1>6, <1>7 DEF Next

\* What a part of the stream says stays said.
LEMMA SaidStays ==
  ASSUME StreamTypes, Grows, NEW r
  PROVE  /\ \A n \in 0 .. Len(log) :
              Seen(r, n)' = Seen(r, n) /\ (HoldsPages(r, n) => HoldsPages(r, n)')
         /\ Seen(r, Len(log)) \subseteq Seen(r, Len(log))'
         /\ \A i : FinalizedHas(r, i) => FinalizedHas(r, i)'
         /\ \A n, items : LackedBy(r, n, items) => LackedBy(r, n, items)'
<1>1. Len(log) \in Nat /\ Len(log') \in Nat /\ Len(log) <= Len(log')
  BY LogIsSequence DEF Grows
<1>2. ASSUME NEW s, NEW n \in 0 .. Len(log)
      PROVE  Seen(s, n)' = Seen(s, n) /\ (HoldsPages(s, n) => HoldsPages(s, n)')
  <2>1. \A k \in 1 .. n : log'[k] = log[k]
    BY <1>1 DEF Grows
  <2>2. {k \in 1 .. n : log'[k].run = s} = {k \in 1 .. n : log[k].run = s}
    BY <2>1
  <2>3. {log'[k].found : k \in {i \in 1 .. n : log'[i].run = s}} =
          {log[k].found : k \in {i \in 1 .. n : log[i].run = s}}
    BY <2>1
  <2>4. Seen(s, n)' = Seen(s, n)
    BY <2>3 DEF Seen
  <2>5. HoldsPages(s, n) => HoldsPages(s, n)'
    BY <2>1 DEF HoldsPages
  <2> QED BY <2>4, <2>5
<1>3. ASSUME NEW s
      PROVE  Seen(s, Len(log)) \subseteq Seen(s, Len(log))'
  <2> SUFFICES ASSUME NEW i \in Seen(s, Len(log)) PROVE i \in Seen(s, Len(log))'
    OBVIOUS
  <2>1. PICK k \in 1 .. Len(log) : log[k].run = s /\ \E e \in log[k].found : i = e.item
    BY DEF Seen
  <2>2. k \in 1 .. Len(log') /\ log'[k] = log[k]
    BY <1>1 DEF Grows
  <2> QED BY <2>1, <2>2 DEF Seen
<1>4. ASSUME NEW i, FinalizedHas(r, i)
      PROVE  FinalizedHas(r, i)'
  <2>1. PICK k \in DOMAIN finals :
          Boundary[finals[k].run] = Boundary[r] /\ i \in Seen(finals[k].run, Len(log))
    BY <1>4 DEF FinalizedHas
  <2>2. k \in DOMAIN finals' /\ finals'[k] = finals[k]
    BY DEF Grows
  <2>3. PICK s : s = finals[k].run
    OBVIOUS
  <2>4. i \in Seen(s, Len(log))'
    BY <1>3, <2>1, <2>3
  <2>5. i \in Seen(finals[k].run, Len(log))'
    BY <2>2, <2>3, <2>4 DEF Seen
  <2> QED BY <2>1, <2>2, <2>5 DEF FinalizedHas
<1>5. ASSUME NEW n, NEW items, LackedBy(r, n, items)
      PROVE  LackedBy(r, n, items)'
  <2>1. n \in 0 .. Len(log) /\ HoldsPages(r, n)
    BY <1>5 DEF LackedBy
  <2>2. n \in 0 .. Len(log') /\ HoldsPages(r, n)' /\ Seen(r, n)' = Seen(r, n)
    BY <1>1, <1>2, <2>1
  <2>3. \A i \in items : i \notin Seen(r, n)' /\ FinalizedHas(r, i)'
    BY <1>4, <1>5, <2>2 DEF LackedBy
  <2> QED BY <2>2, <2>3 DEF LackedBy
<1> QED BY <1>2, <1>3, <1>4, <1>5

LEMMA ReadStays ==
  ASSUME StreamTypes, Grows, NEW p, NEW j, JobRead(p, j)
  PROVE  JobRead(p, j)'
<1>1. p = "subtracting" =>
        \E n \in 0 .. Len(log') : HoldsPages(j.run, n)' /\ j.own = Seen(j.run, n)'
  <2> SUFFICES ASSUME p = "subtracting"
               PROVE  \E n \in 0 .. Len(log') : HoldsPages(j.run, n)' /\ j.own = Seen(j.run, n)'
    OBVIOUS
  <2>1. PICK n \in 0 .. Len(log) : HoldsPages(j.run, n) /\ j.own = Seen(j.run, n)
    BY DEF JobRead
  <2>2. HoldsPages(j.run, n)' /\ j.own = Seen(j.run, n)'
    <3>1. PICK r : r = j.run
      OBVIOUS
    <3>2. n \in 0 .. Len(log) /\ HoldsPages(r, n) /\ j.own = Seen(r, n)
      BY <2>1, <3>1
    <3>4. HoldsPages(r, n)' /\ Seen(r, n)' = Seen(r, n)
      BY <3>2, SaidStays
    <3>5. HoldsPages(j.run, n)'
      BY <3>1, <3>4 DEF HoldsPages
    <3>6. \A i : i \in Seen(j.run, n)' <=> i \in Seen(r, n)'
      BY <3>1 DEF Seen
    <3>7. Seen(j.run, n)' = Seen(r, n)'
      BY <3>6
    <3> QED BY <3>2, <3>4, <3>5, <3>7
  <2>3. n \in 0 .. Len(log')
    BY LogIsSequence DEF Grows
  <2> QED BY <2>2, <2>3
<1>2. p = "committing" => \E n \in Nat : LackedBy(j.run, n, j.missing)'
  BY SaidStays DEF JobRead
<1>3. p \in {"comparing", "subtracting"} =>
        \A q \in j.prior : \E k \in DOMAIN finals' :
          finals'[k].run = q /\ Boundary[q] = Boundary[j.run]
  <2> SUFFICES ASSUME p \in {"comparing", "subtracting"}, NEW q \in j.prior
               PROVE  \E k \in DOMAIN finals' : finals'[k].run = q /\ Boundary[q] = Boundary[j.run]
    OBVIOUS
  <2>1. PICK k \in DOMAIN finals : finals[k].run = q /\ Boundary[q] = Boundary[j.run]
    BY DEF JobRead
  <2> QED BY <2>1 DEF Grows
<1> QED BY <1>1, <1>2, <1>3 DEF JobRead

\* A step of a worker leaves the others alone.
LEMMA OthersRest ==
  ASSUME StreamInv, JobsRead, Grows, NEW w \in Workers,
         NEW p, NEW J, \A j \in J : JobRead(p, j)',
         pc' = [pc EXCEPT ![w] = p],
         job' = [job EXCEPT ![w] = J] \/ (job' = job /\ J = job[w])
  PROVE  JobsRead'
<1> SUFFICES ASSUME NEW v \in Workers, NEW j \in job'[v]
             PROVE  JobRead(pc[v], j)'
  BY DEF JobsRead
<1>1. pc \in [Workers -> Places] /\ job \in [Workers -> SUBSET Jobs] /\ StreamTypes
  BY DEF StreamInv, WorkerTypes
<1>2. CASE v = w
  <2>1. pc'[v] = p /\ j \in J
    BY <1>1, <1>2
  <2>2. JobRead(p, j)'
    BY <2>1
  <2> QED BY <2>1, <2>2 DEF JobRead
<1>3. CASE v # w
  <2>1. pc'[v] = pc[v] /\ job'[v] = job[v]
    BY <1>1, <1>3
  <2>2. PICK q : q = pc[v]
    OBVIOUS
  <2>3. JobRead(q, j)'
    BY <1>1, <2>1, <2>2, ReadStays DEF JobsRead
  <2> QED BY <2>1, <2>2, <2>3 DEF JobRead
<1> QED BY <1>2, <1>3

LEMMA FailuresReadNothing ==
  ASSUME StreamInv, JobsRead, Grows, NEW w \in Workers, NEW r, Fail(w, r)
  PROVE  JobsRead'
<1>1. JobRead("failed", OnlyRun(r))'
  BY DEF JobRead, OnlyRun, Scanned
<1> DEFINE J == {OnlyRun(r)}
<1>2. /\ \A j \in J : JobRead("failed", j)'
      /\ pc' = [pc EXCEPT ![w] = "failed"] /\ job' = [job EXCEPT ![w] = J]
  BY <1>1 DEF Fail, Goto, Learn
<1> HIDE DEF J
<1> QED BY <1>2, OthersRest

LEMMA LeavingReadsNothing ==
  ASSUME StreamInv, JobsRead, Grows, NEW w \in Workers,
         \/ Leave(w)
         \/ \E p \in {"idle", "listed"} : Goto(w, p) /\ job' = [job EXCEPT ![w] = {}]
  PROVE  JobsRead'
<1>1. PICK p \in {"idle", "listed"} : Goto(w, p) /\ job' = [job EXCEPT ![w] = {}]
  BY DEF Leave, Onwards
<1>2. PICK J : J = {}
  OBVIOUS
<1>3. \A j \in J : JobRead(p, j)'
  BY <1>2
<1>4. pc' = [pc EXCEPT ![w] = p] /\ job' = [job EXCEPT ![w] = J]
  BY <1>1, <1>2 DEF Goto
<1> QED BY <1>3, <1>4, OthersRest

\* A worker learns what it reads.
LEMMA LearnsWhatItReads ==
  ASSUME StreamInv, JobsRead, Grows, NEW w \in Workers, NEW j \in job[w], NEW p, NEW k,
         Goto(w, p), Learn(w, k) \/ (UNCHANGED job /\ k = j), JobRead(p, k)'
  PROVE  JobsRead'
<1> DEFINE J == {k}
<1>1. job[w] = {j}
  BY JobIsHeld
<1>2. /\ \A i \in J : JobRead(p, i)'
      /\ pc' = [pc EXCEPT ![w] = p]
      /\ job' = [job EXCEPT ![w] = J] \/ (job' = job /\ J = job[w])
  <2>1. \A i \in J : JobRead(p, i)'
    OBVIOUS
  <2>2. job' = [job EXCEPT ![w] = J] \/ (job' = job /\ J = job[w])
    BY <1>1 DEF Learn
  <2> QED BY <2>1, <2>2 DEF Goto
<1> HIDE DEF J
<1> QED BY <1>2, OthersRest

\* The steps of a finalization
LEMMA FinalizationReads ==
  ASSUME StreamInv, JobsRead, Grows, NEW w \in Workers, NEW j \in job[w],
         CheckSnapshot(w, j) \/ ReadCursor(w, j) \/ ReadOwn(w, j) \/ ReadPrior(w, j)
  PROVE  JobsRead'
<1>1. /\ JobRead(pc[w], j) /\ j \in Jobs /\ StreamTypes /\ Len(log) \in Nat
      /\ pc[w] \in Scanned => HoldsPages(j.run, Len(log))
  BY JobIsHeld, LogIsSequence DEF JobsRead, StreamInv, JobsFollow
<1>2. CASE CheckSnapshot(w, j)
  <2>1. pc[w] = "finalizing" /\ ((Goto(w, "checked") /\ UNCHANGED job) \/ Fail(w, j.run))
    BY <1>2 DEF CheckSnapshot
  <2>2. JobRead("checked", j)'
    BY <1>1, <2>1 DEF JobRead, Scanned
  <2>3. CASE Goto(w, "checked") /\ UNCHANGED job
    BY <2>2, <2>3, LearnsWhatItReads
  <2> QED BY <2>1, <2>3, FailuresReadNothing
<1>3. CASE ReadCursor(w, j)
  <2>1. pc[w] = "checked" /\ UNCHANGED <<log, finals>> /\ HoldsPages(j.run, Len(log))
    BY <1>1, <1>3 DEF ReadCursor, streamVars, Scanned
  <2>2. j.missing = {} /\ \E v \in Versions : j.version = {v}
    BY <1>1, <2>1 DEF JobRead, Scanned
  <2>3. CASE finals # <<>> /\ Boundary[Last(finals).run] = Boundary[j.run]
    <3>a. PICK q : q = Last(finals).run
      OBVIOUS
    <3>b. PICK k : k = [j EXCEPT !.prior = {q}]
      OBVIOUS
    <3>1. Goto(w, "comparing") /\ Learn(w, k)
      BY <1>3, <2>3, <3>a, <3>b DEF ReadCursor
    <3>2. k.missing = {} /\ k.prior = {q} /\ k.run = j.run /\ k.version = j.version
      BY <1>1, <2>2, <3>b DEF Jobs
    <3>3. Len(finals) \in DOMAIN finals /\ finals[Len(finals)].run = q
      <4>1. finals # <<>> => Len(finals) # 0
        BY <1>1, EmptySeq DEF StreamTypes
      <4> QED BY <1>1, <2>3, <3>a, <4>1, SnapshotsAreInLog DEF Last
    <3>4. Boundary[q] = Boundary[j.run]
      BY <2>3, <3>a
    <3>5. JobRead("comparing", k)'
      BY <2>1, <2>2, <3>2, <3>3, <3>4 DEF JobRead, Scanned
    <3> QED BY <3>1, <3>5, LearnsWhatItReads
  <2>4. CASE ~(finals # <<>> /\ Boundary[Last(finals).run] = Boundary[j.run])
    <3>1. Goto(w, "committing") /\ UNCHANGED job
      BY <1>3, <2>4 DEF ReadCursor
    <3>2. LackedBy(j.run, Len(log), j.missing)
      BY <1>1, <2>1, <2>2 DEF LackedBy
    <3>3. LackedBy(j.run, Len(log), j.missing)'
      BY <1>1, <3>2, <2>1, SaidStays DEF LackedBy, HoldsPages, Seen, FinalizedHas
    <3>4. \E n \in Nat : LackedBy(j.run, n, j.missing)'
      <4>1. PICK n \in Nat : n = Len(log)
        BY <1>1
      <4>2. LackedBy(j.run, n, j.missing)
        BY <3>2, <4>1
      <4>3. LackedBy(j.run, n, j.missing)'
        BY <1>1, <4>2, SaidStays
      <4> QED BY <4>3
    <3>5. JobRead("committing", j)'
      BY <2>2, <3>4 DEF JobRead
    <3> QED BY <3>1, <3>5, LearnsWhatItReads
  <2> QED BY <2>3, <2>4
<1>4. CASE ReadOwn(w, j)
  <2>a. PICK own : own = Seen(j.run, Len(log))
    OBVIOUS
  <2>b. PICK k : k = [j EXCEPT !.own = own]
    OBVIOUS
  <2>1. /\ pc[w] = "comparing" /\ UNCHANGED <<log, finals>> /\ HoldsPages(j.run, Len(log))
        /\ Goto(w, "subtracting") /\ Learn(w, k)
    BY <1>1, <1>4, <2>a, <2>b DEF ReadOwn, streamVars, Scanned
  <2>2. /\ k.missing = {} /\ k.prior = j.prior /\ k.run = j.run /\ k.version = j.version
        /\ k.own = own /\ \E v \in Versions : j.version = {v}
    BY <1>1, <2>1, <2>a, <2>b DEF Jobs, JobRead, Scanned
  <2>3. \A q \in k.prior : \E i \in DOMAIN finals' :
          finals'[i].run = q /\ Boundary[q] = Boundary[k.run]
    BY <1>1, <2>1, <2>2 DEF JobRead
  <2>4. \E n \in 0 .. Len(log') : HoldsPages(k.run, n)' /\ k.own = Seen(k.run, n)'
    <3>1. Len(log) \in 0 .. Len(log')
      BY <1>1, <2>1
    <3>2. PICK n \in 0 .. Len(log') : n = Len(log)
      BY <3>1
    <3>3. HoldsPages(k.run, n)' /\ k.own = Seen(k.run, n)'
      BY <2>1, <2>2, <2>a, <3>2 DEF HoldsPages, Seen
    <3> QED BY <3>3
  <2>5. JobRead("subtracting", k)'
    BY <2>2, <2>3, <2>4 DEF JobRead, Scanned
  <2> QED BY <2>1, <2>5, LearnsWhatItReads
<1>5. CASE ReadPrior(w, j)
  <2>1. PICK q \in j.prior :
          Learn(w, [j EXCEPT !.missing = Lacks(Seen(q, Len(log)), j.own), !.own = {}, !.prior = {}])
    BY <1>5 DEF ReadPrior
  <2>a. PICK missing : missing = Lacks(Seen(q, Len(log)), j.own)
    OBVIOUS
  <2>b. PICK k : k = [j EXCEPT !.missing = missing, !.own = {}, !.prior = {}]
    OBVIOUS
  <2>2. pc[w] = "subtracting" /\ Goto(w, "committing") /\ Learn(w, k)
    BY <1>5, <2>1, <2>a, <2>b DEF ReadPrior
  <2>3. PICK n \in 0 .. Len(log) : HoldsPages(j.run, n) /\ j.own = Seen(j.run, n)
    BY <1>1, <2>2 DEF JobRead
  <2>4. PICK i \in DOMAIN finals : finals[i].run = q /\ Boundary[q] = Boundary[j.run]
    BY <1>1, <2>2 DEF JobRead
  <2>5. LackedBy(j.run, n, missing)
    BY <2>3, <2>4, <2>a DEF LackedBy, Lacks, FinalizedHas
  <2>6. /\ k.missing = missing /\ k.run = j.run /\ k.version = j.version
        /\ \E v \in Versions : j.version = {v}
    BY <1>1, <2>2, <2>b DEF Jobs, JobRead, Scanned
  <2>c. PICK r : r = k.run
    OBVIOUS
  <2>7. LackedBy(r, n, missing)' /\ n \in Nat
    <3>1. LackedBy(r, n, missing)
      BY <2>5, <2>6, <2>c
    <3>2. LackedBy(r, n, missing)'
      BY <1>1, <3>1, SaidStays, Zenon
    <3> QED BY <1>1, <3>2
  <2>8. \E m \in Nat : LackedBy(k.run, m, k.missing)'
    <3>1. LackedBy(k.run, n, k.missing)'
      BY <2>6, <2>7, <2>c DEF LackedBy, HoldsPages, Seen, FinalizedHas
    <3> QED BY <2>7, <3>1
  <2>9. JobRead("committing", k)'
    BY <2>6, <2>8 DEF JobRead
  <2> QED BY <2>2, <2>9, LearnsWhatItReads
<1> QED BY <1>2, <1>3, <1>4, <1>5

\* The other steps of a worker
LEMMA WorkersReadNothing ==
  ASSUME StreamInv, JobsRead, Grows, NEW w \in Workers,
         \/ List(w) \/ CallFails(w) \/ Crash(w) \/ \E r \in todo[w] : ReadRun(w, r)
         \/ \E j \in job[w] :
              \/ Claim(w, j) \/ Describe(w, j) \/ Submit(w, j) \/ Heartbeat(w, j)
              \/ RecordFailure(w, j) \/ CommitSnapshot(w, j)
  PROVE  JobsRead'
<1>1. CASE List(w)
  <2>1. job[w] = {} /\ UNCHANGED job /\ \E p \in {"idle", "listed"} : Goto(w, p)
    BY <1>1, JobIsHeld DEF List
  <2> QED BY <2>1, OthersRest DEF Goto
<1>2. CASE CallFails(w)
  BY <1>2, FailuresReadNothing DEF CallFails
<1>3. CASE Crash(w)
  BY <1>3, LeavingReadsNothing DEF Crash
<1>4. ASSUME NEW r \in todo[w], ReadRun(w, r)
      PROVE  JobsRead'
  <2>a. PICK k : k = [OnlyRun(r) EXCEPT !.token = token[r]]
    OBVIOUS
  <2>1. (Goto(w, "claiming") /\ Learn(w, k)) \/ Fail(w, r)
    BY <1>4, <2>a DEF ReadRun
  <2>2. k.missing = {}
    BY <2>a DEF OnlyRun
  <2>3. JobRead("claiming", k)'
    BY <2>2 DEF JobRead, Scanned
  <2>4. CASE Goto(w, "claiming") /\ Learn(w, k)
    <3>1. PICK J : J = {k}
      OBVIOUS
    <3>2. \A i \in J : JobRead("claiming", i)'
      BY <2>3, <3>1
    <3>3. pc' = [pc EXCEPT ![w] = "claiming"] /\ job' = [job EXCEPT ![w] = J]
      BY <2>4, <3>1 DEF Learn, Goto
    <3> QED BY <3>2, <3>3, OthersRest
  <2> QED BY <2>1, <2>4, FailuresReadNothing
<1>5. ASSUME NEW j \in job[w], Claim(w, j)
      PROVE  JobsRead'
  <2>a. PICK k : k = [j EXCEPT !.token = NextToken(j)]
    OBVIOUS
  <2>1. pc[w] = "claiming" /\ (Fail(w, j.run) \/ (Goto(w, "claimed") /\ Learn(w, k)))
    BY <1>5, <2>a DEF Claim
  <2>2. k.missing = {}
    BY <2>1, <2>a, JobIsHeld DEF JobsRead, JobRead, Jobs
  <2>3. JobRead("claimed", k)'
    BY <2>2 DEF JobRead, Scanned
  <2> QED BY <2>1, <2>3, FailuresReadNothing, LearnsWhatItReads
<1>6. ASSUME NEW j \in job[w], Describe(w, j)
      PROVE  JobsRead'
  <2>a. PICK k : k = [j EXCEPT !.accepted = accepted[j.run], !.position = position[j.run],
                              !.last = IsLast(j.run, position[j.run])]
    OBVIOUS
  <2>1. pc[w] = "claimed" /\ Goto(w, "submitting") /\ Learn(w, k)
    BY <1>6, <2>a DEF Describe
  <2>2. k.missing = {}
    BY <2>1, <2>a, JobIsHeld DEF JobsRead, JobRead, Jobs
  <2>3. JobRead("submitting", k)'
    BY <2>2 DEF JobRead, Scanned
  <2> QED BY <2>1, <2>3, LearnsWhatItReads
<1>7. ASSUME NEW j \in job[w], Submit(w, j)
      PROVE  JobsRead'
  <2>1. pc[w] = "submitting" /\ j.missing = {}
    BY <1>7, Submits DEF JobsRead, JobRead
  <2>2. PICK k \in Jobs :
          /\ \/ Goto(w, "beating") /\ Learn(w, k) /\ \E v \in Versions : k.version = {v}
             \/ Fail(w, j.run)
          /\ k.missing = j.missing
    BY <1>7, Submits, Zenon
  <2>3. CASE Goto(w, "beating") /\ Learn(w, k) /\ \E v \in Versions : k.version = {v}
    <3>1. JobRead("beating", k)'
      BY <2>1, <2>2, <2>3 DEF JobRead, Scanned
    <3> QED BY <2>3, <3>1, LearnsWhatItReads
  <2> QED BY <2>2, <2>3, FailuresReadNothing
<1>8. ASSUME NEW j \in job[w], Heartbeat(w, j)
      PROVE  JobsRead'
  <2>1. /\ pc[w] = "beating"
        /\ (Goto(w, "finalizing") /\ UNCHANGED job) \/ Leave(w) \/ Fail(w, j.run)
    BY <1>8 DEF Heartbeat
  <2>2. JobRead("finalizing", j)'
    BY <2>1 DEF JobsRead, JobRead, Scanned
  <2>3. CASE Goto(w, "finalizing") /\ UNCHANGED job
    BY <2>2, <2>3, LearnsWhatItReads
  <2> QED BY <2>1, <2>3, FailuresReadNothing, LeavingReadsNothing
<1>9. ASSUME NEW j \in job[w], RecordFailure(w, j) \/ CommitSnapshot(w, j)
      PROVE  JobsRead'
  BY <1>9, LeavingReadsNothing DEF RecordFailure, CommitSnapshot
<1> QED BY <1>1, <1>2, <1>3, <1>4, <1>5, <1>6, <1>7, <1>8, <1>9

\* Workers that rest know what they knew.
LEMMA RestingReadsNothing ==
  ASSUME StreamInv, JobsRead, Grows, UNCHANGED workerVars
  PROVE  JobsRead'
<1> SUFFICES ASSUME NEW w \in Workers, NEW j \in job'[w]
             PROVE  JobRead(pc[w], j)'
  BY DEF JobsRead
<1>1. PICK p : p = pc[w] /\ p = pc'[w]
  BY DEF workerVars
<1>2. j \in job[w]
  BY DEF workerVars
<1>3. JobRead(p, j)'
  BY <1>1, <1>2, ReadStays DEF JobsRead, StreamInv
<1> QED BY <1>1, <1>3 DEF JobRead

LEMMA JobsReadNext ==
  ASSUME StreamInv, JobsRead, [Next]_vars
  PROVE  JobsRead'
<1>1. Grows
  BY StreamGrows
<1>2. CASE UNCHANGED workerVars
  BY <1>1, <1>2, RestingReadsNothing
<1>3. ASSUME NEW w \in Workers, Step(w) \/ CallFails(w) \/ Crash(w)
      PROVE  JobsRead'
  <2>1. ASSUME NEW j \in job[w],
               CheckSnapshot(w, j) \/ ReadCursor(w, j) \/ ReadOwn(w, j) \/ ReadPrior(w, j)
        PROVE  JobsRead'
    BY <1>1, <2>1, FinalizationReads
  <2>2. ASSUME \/ List(w) \/ CallFails(w) \/ Crash(w) \/ \E r \in todo[w] : ReadRun(w, r)
               \/ \E j \in job[w] :
                    \/ Claim(w, j) \/ Describe(w, j) \/ Submit(w, j) \/ Heartbeat(w, j)
                    \/ RecordFailure(w, j) \/ CommitSnapshot(w, j)
        PROVE  JobsRead'
    BY <1>1, <2>2, WorkersReadNothing
  <2> QED BY <1>3, <2>1, <2>2 DEF Step
<1>4. Client \/ LeaseExpires \/ UNCHANGED vars => UNCHANGED workerVars
  BY DEF Client, Create, Push, Ask, SetStatus, LeaseExpires, vars, workerVars
<1> QED BY <1>2, <1>3, <1>4 DEF Next

\* Only a finalization deletes, and what its reads say of the stream.
LEMMA TombstonesNext ==
  ASSUME StreamInv, DeletionInv, [Next]_vars
  PROVE  TombstonesAreInferred'
<1>1. Grows /\ StreamTypes
  BY StreamGrows DEF StreamInv
<1>2. ASSUME NEW o \in observed, o.op = "TOMBSTONE"
      PROVE  \E n \in Nat : LackedBy(o.run, n, {o.item})'
  <2>1. PICK n \in Nat : LackedBy(o.run, n, {o.item})
    BY <1>2 DEF DeletionInv, TombstonesAreInferred
  <2> QED BY <1>1, <2>1, SaidStays
<1>3. ASSUME UNCHANGED observed
      PROVE  TombstonesAreInferred'
  BY <1>2, <1>3 DEF TombstonesAreInferred
<1>4. ASSUME NEW b, Accept(b)
      PROVE  TombstonesAreInferred'
  <2>1. \A o \in observed' : o.op = "TOMBSTONE" => o \in observed
    BY <1>4 DEF Accept, Observe
  <2> QED BY <1>2, <2>1 DEF TombstonesAreInferred
<1>5. ASSUME NEW w \in Workers, NEW j \in job[w], CommitSnapshot(w, j)
      PROVE  TombstonesAreInferred'
  <2>1. PICK n \in Nat : LackedBy(j.run, n, j.missing)
    BY <1>5 DEF CommitSnapshot, DeletionInv, JobsRead, JobRead
  <2>2. LackedBy(j.run, n, j.missing)'
    BY <1>1, <2>1, SaidStays
  <2>3. \A o \in observed' : o \in observed \/ (o.run = j.run /\ o.item \in j.missing)
    BY <1>5 DEF CommitSnapshot, Observe, Undeleted
  <2>4. ASSUME NEW o \in observed', o.run = j.run, o.item \in j.missing
        PROVE  \E m \in Nat : LackedBy(o.run, m, {o.item})'
    <3>1. LackedBy(j.run, n, {o.item})'
      BY <2>2, <2>4 DEF LackedBy
    <3> QED BY <2>4, <3>1
  <2> QED BY <1>2, <2>3, <2>4 DEF TombstonesAreInferred
<1>6. ASSUME NEW w \in Workers, NEW j \in job[w], Submit(w, j)
      PROVE  TombstonesAreInferred'
  <2>1. \E b : Accept(b) \/ UNCHANGED streamVars
    BY <1>6, Submits, Zenon
  <2> QED BY <1>3, <1>4, <2>1 DEF streamVars
<1>7. ASSUME NEW w \in Workers, Step(w)
      PROVE  TombstonesAreInferred'
  <2>1. ASSUME List(w) \/ \E r \in todo[w] : ReadRun(w, r)
        PROVE  TombstonesAreInferred'
    BY <1>3, <2>1 DEF List, ReadRun, streamVars
  <2>2. ASSUME NEW j \in job[w],
               \/ Claim(w, j) \/ Describe(w, j) \/ Heartbeat(w, j) \/ RecordFailure(w, j)
        PROVE  TombstonesAreInferred'
    BY <1>3, <2>2 DEF Claim, Describe, Heartbeat, RecordFailure, streamVars
  <2>3. ASSUME NEW j \in job[w],
               CheckSnapshot(w, j) \/ ReadCursor(w, j) \/ ReadOwn(w, j) \/ ReadPrior(w, j)
        PROVE  TombstonesAreInferred'
    BY <1>3, <2>3 DEF CheckSnapshot, ReadCursor, ReadOwn, ReadPrior, streamVars
  <2> QED BY <1>5, <1>6, <1>7, <2>1, <2>2, <2>3 DEF Step
<1>8. CASE Client
  BY <1>3, <1>4, <1>8 DEF Client, Create, Push, Ask, SetStatus, streamVars
<1>9. CASE LeaseExpires \/ (\E w \in Workers : CallFails(w) \/ Crash(w)) \/ UNCHANGED vars
  BY <1>3, <1>9 DEF LeaseExpires, CallFails, Crash, vars, streamVars
<1> QED BY <1>7, <1>8, <1>9 DEF Next

LEMMA DeletionInvHolds == Spec => []DeletionInv
<1>1. Init => DeletionInv
  BY DEF Init, DeletionInv, JobsRead, TombstonesAreInferred
<1>2. StreamInv /\ DeletionInv /\ [Next]_vars => DeletionInv'
  BY JobsReadNext, TombstonesNext DEF DeletionInv
<1> QED BY <1>1, <1>2, InvariantHolds, PTL DEF Spec

-----------------------------------------------------------------------------
(* What follows                                                            *)

LEMMA TypesFollow == ASSUME StreamInv PROVE TypeOK
<1>1. RowTypes /\ StreamTypes /\ WorkerTypes /\ OtherTypes
  BY DEF StreamInv
<1>2. lease \subseteq Leases /\ Cardinality(lease) <= 1
  <2>1. CASE lease = {}
    BY <2>1, FS_EmptySet
  <2>2. CASE lease # {}
    <3>1. PICK l \in Leases : lease = {l}
      BY <2>2, <1>1 DEF StreamTypes
    <3>2. Cardinality(lease) = 1
      BY <3>1, FS_Singleton
    <3> QED BY <3>1, <3>2
  <2> QED BY <2>1, <2>2
<1>3. ASSUME NEW w \in Workers
      PROVE  Cardinality(job[w]) = IF Working(w) THEN 1 ELSE 0
  <2>1. CASE Working(w)
    <3>1. PICK j \in Jobs : job[w] = {j}
      BY <2>1, <1>1 DEF WorkerTypes
    <3>2. Cardinality(job[w]) = 1
      BY <3>1, FS_Singleton
    <3> QED BY <3>2, <2>1
  <2>2. CASE ~Working(w)
    <3>1. job[w] = {}
      BY <2>2, <1>1 DEF WorkerTypes
    <3>2. Cardinality(job[w]) = 0
      BY <3>1, FS_EmptySet
    <3> QED BY <3>2, <2>2
  <2> QED BY <2>1, <2>2
<1> QED BY <1>1, <1>2, <1>3 DEF TypeOK, RowTypes, StreamTypes, WorkerTypes, OtherTypes

LEMMA SnapshotsFollow == ASSUME StreamInv PROVE SnapshotsAreComplete
BY DEF StreamInv, SnapshotsHoldPages, SnapshotsAreComplete, WholeAt

\* The runs, leases, batches, observations and jobs keep their types, whatever
\* workers, clients and failures do, and no page is asked of a source that has
\* not got it.
THEOREM StreamTypesAreKept == Spec => []TypeOK
<1>1. StreamInv => TypeOK
  BY TypesFollow
<1> QED BY <1>1, InvariantHolds, PTL

\* A run knows the last of its batches, which is what a worker that takes it
\* over resumes from, whoever had submitted it.
THEOREM RunsKnowTheirBatches == Spec => []RunKnowsItsBatches
<1>1. StreamInv => RunKnowsItsBatches
  BY DEF StreamInv, LogInv
<1> QED BY <1>1, InvariantHolds, PTL

\* Takeover, retry and a client that submits for a worker neither skip nor
\* repeat a page of a run.
THEOREM PagesAreInOrder == Spec => []PagesInOrder
<1>1. StreamInv => PagesInOrder
  BY DEF StreamInv, LogInv
<1> QED BY <1>1, InvariantHolds, PTL

\* finalizeContinuousSnapshot infers deletions from no snapshot that lacks a
\* page of its source.
THEOREM FinalizedSnapshotsAreComplete == Spec => []SnapshotsAreComplete
<1>1. StreamInv => SnapshotsAreComplete
  BY SnapshotsFollow
<1> QED BY <1>1, InvariantHolds, PTL

\* No incomplete scan infers a deletion, however the unlocked steps of several
\* finalizations, pages pushed meanwhile, takeovers and failures interleave: the
\* run that deleted an identity once had all of its pages and none with it, and
\* a completed snapshot of the boundary has it.
THEOREM DeletionsAreInferredFromCompleteScans == Spec => []DeletionsAreInferred
<1>1. StreamInv /\ DeletionInv => DeletionsAreInferred
  <2> SUFFICES ASSUME StreamInv, DeletionInv, NEW o \in observed, o.op = "TOMBSTONE"
               PROVE  /\ \E n \in 0 .. Len(log) : WholeAt(o.run, n) /\ o.item \notin Seen(o.run, n)
                      /\ \E k \in DOMAIN finals :
                           /\ Boundary[finals[k].run] = Boundary[o.run]
                           /\ o.item \in Seen(finals[k].run, Len(log))
    BY DEF DeletionsAreInferred
  <2>1. PICK n \in Nat : LackedBy(o.run, n, {o.item})
    BY DEF DeletionInv, TombstonesAreInferred
  <2>2. n \in 0 .. Len(log) /\ HoldsPages(o.run, n)
    BY <2>1 DEF LackedBy
  <2>3. WholeAt(o.run, n)
    BY <2>2 DEF HoldsPages, WholeAt
  <2> QED BY <2>1, <2>2, <2>3 DEF LackedBy, FinalizedHas
<1> QED BY <1>1, DeletionInvHolds, InvariantHolds, PTL

-----------------------------------------------------------------------------
(* The stream implements InventoryDelivery                                 *)

PageOf(b) == [run |-> b.run, page |-> b.page, found |-> b.found]
delivered == [n \in DOMAIN log |-> PageOf(log[n])]
snapshots == [k \in DOMAIN finals |-> finals[k].run]

\* A function on one number more, that goes on as a sequence, is appended to.
LEMMA OneMore ==
  ASSUME NEW S, NEW n \in Nat, NEW s \in [1 .. n -> S], NEW v \in S, NEW t,
         t = [i \in 1 .. (n + 1) |-> t[i]],
         \A i \in 1 .. n : t[i] = s[i], t[n + 1] = v
  PROVE  t = Append(s, v)
<1>1. s \in Seq(S) /\ Len(s) = n
  OBVIOUS
<1>2. \A i \in 1 .. (n + 1) : t[i] \in S
  <2>1. \A i \in 1 .. (n + 1) : i \in 1 .. n \/ i = n + 1
    OBVIOUS
  <2> QED BY <2>1
<1>3. t \in Seq(S) /\ Len(t) = n + 1
  <2>1. t \in [1 .. (n + 1) -> S]
    BY <1>2
  <2> QED BY <2>1
<1> DEFINE u == Append(s, v)
<1>4. u \in Seq(S) /\ Len(u) = n + 1 /\ \A i \in 1 .. n : u[i] = s[i]
  BY <1>1, AppendProperties
<1>5. u[n + 1] = v
  BY <1>1, AppendProperties
<1> HIDE DEF u
<1>6. \A i \in 1 .. (n + 1) : t[i] = u[i]
  <2>1. \A i \in 1 .. (n + 1) : i \in 1 .. n \/ i = n + 1
    OBVIOUS
  <2> QED BY <2>1, <1>4, <1>5
<1>7. t = u
  BY <1>3, <1>4, <1>6, SeqEqual
<1> QED BY <1>7 DEF u

\* The log and the pages it holds
LEMMA DeliveredPages ==
  ASSUME StreamInv
  PROVE  /\ Len(log) \in Nat /\ DOMAIN log = 1 .. Len(log) /\ DOMAIN delivered = DOMAIN log
         /\ \A n \in DOMAIN log :
              /\ log[n] \in Batches /\ delivered[n] = PageOf(log[n])
              /\ delivered[n].run = log[n].run /\ delivered[n].page = log[n].page
              /\ delivered[n].found = log[n].found
         /\ \A n \in DOMAIN log : log[n].last <=> log[n].page + 1 = Pages[log[n].run]
         /\ \A n \in DOMAIN log : \A r : Inventory!Latest(n, r) <=> IsLastOf(n, r)
<1>1. /\ Len(log) \in Nat /\ DOMAIN log = 1 .. Len(log) /\ \A n \in DOMAIN log : log[n] \in Batches
  BY LogIsSequence DEF StreamInv
<1>2. /\ DOMAIN delivered = DOMAIN log
      /\ \A n \in DOMAIN log :
           /\ delivered[n] = PageOf(log[n])
           /\ delivered[n].run = log[n].run /\ delivered[n].page = log[n].page
           /\ delivered[n].found = log[n].found
  BY DEF delivered, PageOf
<1>3. \A n \in DOMAIN log : log[n].last <=> log[n].page + 1 = Pages[log[n].run]
  BY DEF StreamInv, LogInv, BatchesSayLast, IsLast
<1>4. ASSUME NEW n \in DOMAIN log, NEW r
      PROVE  Inventory!Latest(n, r) <=> IsLastOf(n, r)
  <2>1. Inventory!Latest(n, r) <=>
          log[n].run = r /\ \A k \in DOMAIN log : k > n => log[k].run # r
    BY <1>2 DEF Inventory!Latest, delivered, PageOf
  <2> QED BY <1>1, <2>1 DEF IsLastOf
<1> QED BY <1>1, <1>2, <1>3, <1>4

\* What the cursor of a run names is what follows.
LEMMA PositionFollows ==
  ASSUME StreamInv, NEW r \in Runs
  PROVE  Inventory!Follows(r, position[r])
<1> DEFINE a == accepted[r]
<1>1. a \in 0 .. Len(log) /\ Len(log) \in Nat /\ DOMAIN log = 1 .. Len(log)
  BY DeliveredPages DEF StreamInv, RowTypes
<1>2. CASE a = 0
  <2>1. \A n \in DOMAIN log : log[n].run # r
    BY <1>2 DEF StreamInv, LogInv, RunKnowsItsBatches
  <2>2. position[r] = 0
    BY <1>2 DEF StreamInv, LogInv, PositionsFollow
  <2> QED BY <2>1, <2>2, DeliveredPages DEF Inventory!Follows, delivered, PageOf
<1>3. CASE a # 0
  <2>1. PICK n \in DOMAIN log : n = a
    BY <1>1, <1>3
  <2>2. Inventory!Latest(n, r) /\ log[n].run = r
    BY <1>3, <2>1, DeliveredPages DEF StreamInv, LogInv, RunKnowsItsBatches, IsLastOf
  <2>3. position[r] = IF log[n].last THEN 0 ELSE log[n].page + 1
    BY <1>3, <2>1 DEF StreamInv, LogInv, PositionsFollow
  <2>4. log[n].last <=> Inventory!Ends(n, r)
    BY <2>2, DeliveredPages DEF Inventory!Ends, delivered, PageOf
  <2>5. position[r] = IF Inventory!Ends(n, r) THEN 0 ELSE delivered[n].page + 1
    BY <2>3, <2>4, DeliveredPages
  <2>6. n \in DOMAIN delivered
    BY DeliveredPages
  <2> QED BY <2>2, <2>5, <2>6 DEF Inventory!Follows, delivered, PageOf
<1> QED BY <1>2, <1>3

\* What is observed is what is heard of first.
LEMMA ObservedIsHeard ==
  ASSUME NEW found, NEW r, NEW op
  PROVE  Observe(found, r, op) = Inventory!Heard(found, r, op)
<1>1. \A e : ~Known(e) <=> \A f \in observed : f.item = e.item => f.version # e.version
  BY DEF Known
<1> QED BY <1>1, Zenon DEF Observe, Inventory!Heard

LEMMA InventoriesStutter ==
  ASSUME UNCHANGED <<log, finals, observed>>
  PROVE  UNCHANGED Inventory!vars
BY DEF Inventory!vars

\* A batch that is accepted delivers the page that follows.
LEMMA AcceptDelivers ==
  ASSUME StreamInv, NEW b \in Batches, b.page = position[b.run], ~Conflicting(b), Accept(b)
  PROVE  Inventory!Next
<1>1. /\ log' = Append(log, b) /\ observed' = Observe(b.found, b.run, "UPSERT")
      /\ UNCHANGED finals
  BY DEF Accept
<1>2. b.run \in Runs /\ b.found \in SUBSET Entries /\ b.page \in 0 .. Pages[b.run] - 1
  <2>1. b.run \in Runs /\ b.found \in SUBSET Entries
    BY DEF Batches
  <2>2. position[b.run] \in Nat /\ position[b.run] < Pages[b.run] /\ Pages[b.run] \in Nat
    BY <2>1, ConnectorAssumption DEF StreamInv, RowTypes
  <2> QED BY <2>1, <2>2
<1>3. Inventory!Follows(b.run, b.page)
  BY <1>2, PositionFollows
<1>4. \A f \in observed, e \in b.found :
        f.item = e.item /\ f.version = e.version => f.op = "UPSERT"
  <2>1. observed \subseteq Observations
    BY DEF StreamInv, StreamTypes
  <2> QED BY <2>1 DEF Conflicting, Observations
<1>5. delivered' = Append(delivered, PageOf(b))
  <2> DEFINE n == Len(log)
             S == {PageOf(x) : x \in Batches}
  <2>1. n \in Nat /\ DOMAIN log = 1 .. n /\ DOMAIN log' = 1 .. (n + 1)
        /\ (\A k \in 1 .. n : log'[k] = log[k]) /\ log'[n + 1] = b
    BY <1>1, LogGrows, LogIsSequence DEF StreamInv
  <2>2. delivered \in [1 .. n -> S] /\ PageOf(b) \in S
    <3>1. \A k \in 1 .. n : PageOf(log[k]) \in S
      BY <2>1, DeliveredPages
    <3> HIDE DEF S
    <3> QED BY <2>1, <3>1 DEF delivered, S
  <2>3. delivered' = [k \in 1 .. (n + 1) |-> delivered'[k]]
    <3>1. delivered' = [k \in 1 .. (n + 1) |-> PageOf(log'[k])]
      BY <2>1, Zenon DEF delivered, PageOf
    <3> QED BY <3>1
  <2>4. (\A k \in 1 .. n : delivered'[k] = delivered[k]) /\ delivered'[n + 1] = PageOf(b)
    <3>1. \A k \in 1 .. (n + 1) : delivered'[k] = PageOf(log'[k])
      BY <2>1 DEF delivered, PageOf
    <3>2. \A k \in 1 .. n : delivered[k] = PageOf(log[k])
      BY <2>1 DEF delivered
    <3> QED BY <2>1, <3>1, <3>2
  <2> HIDE DEF n, S
  <2> QED BY <2>1, <2>2, <2>3, <2>4, OneMore
<1>6. observed' = Inventory!Heard(b.found, b.run, "UPSERT")
  BY <1>1, ObservedIsHeard
<1>7. UNCHANGED snapshots
  BY <1>1 DEF snapshots
<1>8. PICK r, p, found : r = b.run /\ p = b.page /\ found = b.found
  OBVIOUS
<1>9. Inventory!Deliver(r, p, found)
  BY <1>3, <1>4, <1>5, <1>6, <1>7, <1>8, Zenon DEF Inventory!Deliver, delivered, snapshots, PageOf
<1> QED BY <1>2, <1>8, <1>9 DEF Inventory!Next, Entries

\* What the pages hold, in the words of InventoryDelivery
LEMMA PagesHold ==
  ASSUME StreamInv
  PROVE  /\ \A r, i : \A n \in 0 .. Len(log) : Inventory!Has(r, i, n) <=> i \in Seen(r, n)
         /\ \A r : \A n \in 0 .. Len(log) : HoldsPages(r, n) => Inventory!Whole(r, n)
         /\ DOMAIN snapshots = DOMAIN finals
         /\ \A k \in DOMAIN finals : snapshots[k] = finals[k].run
         /\ Len(delivered) = Len(log)
<1>1. /\ Len(log) \in Nat /\ DOMAIN log = 1 .. Len(log)
      /\ \A n \in DOMAIN log : /\ delivered[n].run = log[n].run /\ delivered[n].page = log[n].page
                             /\ delivered[n].found = log[n].found
  BY DeliveredPages
<1>2. ASSUME NEW r, NEW i, NEW n \in 0 .. Len(log)
      PROVE  Inventory!Has(r, i, n) <=> i \in Seen(r, n)
  <2>1. \A k \in 1 .. n : k \in DOMAIN log
    BY <1>1
  <2>2. Inventory!Has(r, i, n) <=>
          \E k \in 1 .. n : log[k].run = r /\ \E e \in log[k].found : e.item = i
    BY <1>1, <2>1 DEF Inventory!Has, delivered, PageOf
  <2>3. i \in Seen(r, n) <=>
          \E k \in 1 .. n : log[k].run = r /\ \E e \in log[k].found : e.item = i
    BY DEF Seen
  <2> QED BY <2>2, <2>3
<1>3. ASSUME NEW r, NEW n \in 0 .. Len(log), HoldsPages(r, n)
      PROVE  Inventory!Whole(r, n)
  <2>1. \A k \in 1 .. n : k \in DOMAIN log
    BY <1>1
  <2> QED BY <1>1, <1>3, <2>1 DEF Inventory!Whole, HoldsPages, delivered, PageOf
<1>4. DOMAIN snapshots = DOMAIN finals /\ \A k \in DOMAIN finals : snapshots[k] = finals[k].run
  BY DEF snapshots
<1>5. Len(delivered) = Len(log)
  BY <1>1 DEF delivered
<1> QED BY <1>2, <1>3, <1>4, <1>5

\* The commit of a finalization completes the inventory.
LEMMA CommitCompletes ==
  ASSUME StreamInv, DeletionInv, NEW w \in Workers, NEW j \in job[w], CommitSnapshot(w, j)
  PROVE  Inventory!Next
<1> DEFINE n == Len(finals)
           r == j.run
           lost == Undeleted(j.missing, r)
<1>1. /\ n \in Nat /\ DOMAIN finals = 1 .. n /\ \A k \in 1 .. n : finals[k].run \in Runs
      /\ r \in Runs /\ j \in Jobs /\ Len(log) \in Nat
  BY SnapshotsAreInLog, JobIsHeld, LogIsSequence DEF StreamInv, Jobs
<1>2. snapshots' = Append(snapshots, r)
  <2>1. /\ DOMAIN finals' = 1 .. (n + 1) /\ \A k \in 1 .. n : finals'[k] = finals[k]
        /\ finals'[n + 1].run = r
    BY CommitAppends
  <2> HIDE DEF n, r
  <2>2. snapshots \in [1 .. n -> Runs]
    BY <1>1 DEF snapshots
  <2>3. snapshots' = [k \in 1 .. (n + 1) |-> snapshots'[k]]
    BY <2>1 DEF snapshots
  <2>4. (\A k \in 1 .. n : snapshots'[k] = snapshots[k]) /\ snapshots'[n + 1] = r
    BY <1>1, <2>1 DEF snapshots
  <2> QED BY <1>1, <2>2, <2>3, <2>4, OneMore
<1>3. PICK m \in Nat : LackedBy(r, m, j.missing)
  BY DEF CommitSnapshot, DeletionInv, JobsRead, JobRead
<1>4. PICK v \in Versions : j.version = {v}
  BY DEF CommitSnapshot, DeletionInv, JobsRead, JobRead, Scanned
<1>5. m \in 0 .. Len(log) /\ HoldsPages(r, m)
  BY <1>3 DEF LackedBy
<1>6. Inventory!Whole(r, m) /\ m \in 0 .. Len(delivered)
  BY <1>5, PagesHold
<1>7. lost \in SUBSET Inventory!Lost(r, m)
  <2> SUFFICES ASSUME NEW i \in lost PROVE i \in Inventory!Lost(r, m)
    OBVIOUS
  <2>1. i \in j.missing /\ i \in Items
    BY <1>1 DEF Undeleted, Jobs
  <2>2. i \notin Seen(r, m) /\ FinalizedHas(r, i)
    BY <1>3, <2>1 DEF LackedBy
  <2>3. ~Inventory!Has(r, i, m)
    BY <1>5, <2>2, PagesHold
  <2>4. PICK k \in DOMAIN finals :
          Boundary[finals[k].run] = Boundary[r] /\ i \in Seen(finals[k].run, Len(log))
    BY <2>2 DEF FinalizedHas
  <2>5. k \in DOMAIN snapshots /\ snapshots[k] = finals[k].run
    BY <2>4, PagesHold
  <2>6. Inventory!Has(snapshots[k], i, Len(delivered))
    <3>1. Len(log) \in 0 .. Len(log) /\ Len(delivered) = Len(log)
      BY <1>1, PagesHold
    <3> QED BY <2>4, <2>5, <3>1, PagesHold
  <2>7. Boundary[snapshots[k]] = Boundary[r]
    BY <2>4, <2>5
  <2> HIDE DEF r, lost
  <2> QED BY <2>1, <2>3, <2>5, <2>6, <2>7 DEF Inventory!Lost, snapshots, delivered, PageOf
<1>8. observed' = Inventory!Heard([item : lost, version : {v}], r, "TOMBSTONE")
  BY <1>4, ObservedIsHeard DEF CommitSnapshot
<1>9. UNCHANGED delivered
  BY DEF CommitSnapshot, delivered, PageOf
<1> HIDE DEF n, r, lost
<1>10. PICK run : run = r /\ run \in Runs
  BY <1>1
<1>11. Inventory!Complete(run)
  <2>1. /\ Inventory!Whole(run, m) /\ m \in 0 .. Len(delivered)
        /\ lost \in SUBSET Inventory!Lost(run, m)
        /\ observed' = Inventory!Heard([item : lost, version : {v}], run, "TOMBSTONE")
        /\ snapshots' = Append(snapshots, run)
    BY <1>2, <1>6, <1>7, <1>8, <1>10
  <2> QED BY <2>1, <1>9, Zenon DEF Inventory!Complete, delivered, snapshots, PageOf
<1> QED BY <1>10, <1>11 DEF Inventory!Next

LEMMA StepsDeliver ==
  ASSUME StreamInv, DeletionInv, [Next]_vars
  PROVE  [Inventory!Next]_(Inventory!vars)
<1>1. ASSUME UNCHANGED <<log, observed, finals>>
      PROVE  UNCHANGED Inventory!vars
  BY <1>1, InventoriesStutter
<1>2. ASSUME NEW r \in Runs, Push(r)
      PROVE  Inventory!Next
  <2>1. PICK found \in Contents :
          LET b == Batch(r, token[r], position[r], found)
          IN  Admissible(b, Len(log) + 1) /\ Accept(b)
    BY <1>2 DEF Push
  <2> DEFINE b == Batch(r, token[r], position[r], found)
  <2>2. b \in Batches /\ b.run = r /\ b.page = position[r]
    BY BatchFollows, ContentsAreEntries DEF StreamInv, RowTypes
  <2>3. Accept(b) /\ ~Conflicting(b)
    BY <2>1 DEF Admissible
  <2> HIDE DEF b
  <2> QED BY <2>2, <2>3, AcceptDelivers
<1>3. ASSUME NEW w \in Workers, NEW j \in job[w], Submit(w, j)
      PROVE  [Inventory!Next]_(Inventory!vars)
  <2>1. PICK found \in SUBSET Entries :
          LET b == Batch(j.run, j.token, j.position, found)
          IN  \/ Admissible(b, j.accepted + 1) /\ Accept(b)
              \/ UNCHANGED streamVars
    BY <1>3, Submits, Zenon
  <2> DEFINE b == Batch(j.run, j.token, j.position, found)
  <2>2. CASE UNCHANGED streamVars
    BY <1>1, <2>2 DEF streamVars
  <2>3. CASE Admissible(b, j.accepted + 1) /\ Accept(b)
    <3>1. b \in Batches /\ b.page = position[b.run]
      BY <1>3, <2>3, Submits, AdmittedIsNext
    <3>2. Accept(b) /\ ~Conflicting(b)
      BY <2>3 DEF Admissible
    <3> HIDE DEF b
    <3> QED BY <3>1, <3>2, AcceptDelivers
  <2> QED BY <2>1, <2>2, <2>3
<1>4. ASSUME NEW w \in Workers, NEW j \in job[w], CommitSnapshot(w, j)
      PROVE  Inventory!Next
  BY <1>4, CommitCompletes
<1>5. ASSUME NEW r \in Runs, Create(r) \/ Ask(r, "PAUSED") \/ Ask(r, "QUEUED")
      PROVE  UNCHANGED Inventory!vars
  BY <1>1, <1>5 DEF Create, Ask, streamVars
<1>6. ASSUME NEW a \in asked, SetStatus(a)
      PROVE  UNCHANGED Inventory!vars
  BY <1>1, <1>6 DEF SetStatus, streamVars
<1>7. ASSUME NEW w \in Workers, List(w) \/ \E r \in todo[w] : ReadRun(w, r)
      PROVE  UNCHANGED Inventory!vars
  BY <1>1, <1>7 DEF List, ReadRun, streamVars
<1>8. ASSUME NEW w \in Workers, NEW j \in job[w],
             Claim(w, j) \/ Describe(w, j) \/ Heartbeat(w, j) \/ RecordFailure(w, j)
      PROVE  UNCHANGED Inventory!vars
  BY <1>1, <1>8 DEF Claim, Describe, Heartbeat, RecordFailure, streamVars
<1>9. ASSUME NEW w \in Workers, NEW j \in job[w],
             CheckSnapshot(w, j) \/ ReadCursor(w, j) \/ ReadOwn(w, j) \/ ReadPrior(w, j)
      PROVE  UNCHANGED Inventory!vars
  BY <1>1, <1>9 DEF CheckSnapshot, ReadCursor, ReadOwn, ReadPrior, streamVars
<1>10. CASE LeaseExpires \/ (\E w \in Workers : CallFails(w) \/ Crash(w)) \/ UNCHANGED vars
  BY <1>1, <1>10 DEF LeaseExpires, CallFails, Crash, vars, streamVars
<1>11. CASE Client
  BY <1>2, <1>5, <1>6, <1>11 DEF Client
<1>12. ASSUME NEW w \in Workers, Step(w)
       PROVE  [Inventory!Next]_(Inventory!vars)
  BY <1>3, <1>4, <1>7, <1>8, <1>9, <1>12 DEF Step
<1> QED BY <1>10, <1>11, <1>12 DEF Next

\* For any runs, workers, clients and failures the stream implements
\* InventoryDelivery: page follows page, whoever submits it, and a run completes
\* and deletes only what it lacked when all of its pages were there.
THEOREM StreamsDeliverInventories == Spec => DeliversInventories
<1>1. Init => Inventory!Init
  <2> SUFFICES ASSUME Init PROVE Inventory!Init
    OBVIOUS
  <2>1. log = <<>> /\ finals = <<>> /\ observed = {} /\ DOMAIN log = {} /\ DOMAIN finals = {}
    BY EmptySeq DEF Init
  <2>2. delivered = <<>> /\ snapshots = <<>>
    BY <2>1 DEF delivered, snapshots
  <2> QED BY <2>1, <2>2 DEF Inventory!Init, delivered, snapshots, PageOf
<1>2. StreamInv /\ DeletionInv /\ [Next]_vars => [Inventory!Next]_(Inventory!vars)
  BY StepsDeliver
<1> QED BY <1>1, <1>2, InvariantHolds, DeletionInvHolds, PTL DEF Spec, DeliversInventories, Inventory!Spec
=============================================================================
