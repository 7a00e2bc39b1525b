-------------------------- MODULE ConnectorStream --------------------------
(***************************************************************************)
(* One stream of continuous observations: the runs of one connector and    *)
(* source namespace.                                                       *)
(*   apps/connector-worker/src/scheduler.ts      lists queued runs, claims *)
(*        one, polls one page of its source, submits it, renews the lease  *)
(*        and finalizes a snapshot                                         *)
(*   apps/mcp-server/src/connectors/v2-persistence.ts                      *)
(*        the transactions behind those calls, and the MCP tools that      *)
(*        create, pause and resume runs or submit a page themselves        *)
(* Accepted batches are numbered over the stream, pages over the source.   *)
(* A batch is known by its digest: two batches are the same when all of    *)
(* their fields are.                                                       *)
(***************************************************************************)
EXTENDS Integers, FiniteSets, Sequences, SequencesExt

CONSTANTS
  Runs,       \* runs that may be created
  Workers,    \* scheduler processes
  Items,      \* identities in the source
  Mode,       \* [Runs -> {"FULL_SNAPSHOT", "DELTA"}]
  Boundary,   \* inventory boundary of each run
  Versions,   \* source versions that a page may report
  Pages,      \* pages the source has for each run
  BatchLimit, \* runs a worker lists at once
  MaxOutside  \* bound: client calls, crashes, refusals and late leases

ASSUME ConnectorAssumption ==
  /\ Mode \in [Runs -> {"FULL_SNAPSHOT", "DELTA"}]
  /\ Pages \in [Runs -> Nat \ {0}]
  /\ BatchLimit \in Nat \ {0}
  /\ MaxOutside \in Nat

VARIABLES
  status,    \* status column of each run
  token,     \* fencingToken column of each run
  accepted,  \* acceptedSequence column: the last batch of the run, 0 for none
  position,  \* sourceCursor column: the page the source gives next
  lease,     \* ConnectorLease row of the stream, {} for none
  late,      \* leaseExpiresAt has passed
  log,       \* FederationObservationBatch rows, by sequence
  observed,  \* SourceObservation rows
  finals,    \* snapshots finalized so far; the cursor names the last one
  asked,     \* pause and resume calls that have read their run
  pc,        \* where each worker is
  todo,      \* the runs it has listed and not yet taken up
  job,       \* what it knows of the run it works on
  outside

runVars == <<status, token, accepted, position>>
streamVars == <<lease, late, log, observed, finals>>
workerVars == <<pc, todo, job>>
vars == <<runVars, streamVars, asked, workerVars, outside>>

-----------------------------------------------------------------------------

Statuses == {"NONE", "QUEUED", "RUNNING", "FINALIZING", "SUCCEEDED", "FAILED", "PAUSED"}

Places == {"idle", "listed", "claiming", "claimed", "submitting", "beating",
           "finalizing", "checked", "comparing", "subtracting", "committing", "failed"}

Leases == [run : Runs, owner : Workers, token : Nat]

\* What a page reports of an identity
Entries == [item : Items, version : Versions]

Batches == [run : Runs, token : Nat, page : Nat, found : SUBSET Entries, last : BOOLEAN]

Observations == [item : Items, version : Versions, run : Runs, op : {"UPSERT", "TOMBSTONE"}]

\* What a worker knows of its run: the claim, the description and the page, and
\* what the finalization has read.
Jobs == [run : Runs, token : Nat, accepted : Nat, position : Nat, last : BOOLEAN,
         version : SUBSET Versions, prior : SUBSET Runs, own : SUBSET Items,
         missing : SUBSET Items]

\* A call for run r has failed: this is all that the catch block works with.
OnlyRun(r) ==
  [run |-> r, token |-> 0, accepted |-> 0, position |-> 0, last |-> FALSE,
   version |-> {}, prior |-> {}, own |-> {}, missing |-> {}]

Working(w) == pc[w] \notin {"idle", "listed"}

\* Every variable keeps its type; a lease and a job are there or not.
TypeOK ==
  /\ status \in [Runs -> Statuses]
  /\ token \in [Runs -> Nat]
  /\ accepted \in [Runs -> 0 .. Len(log)]
  /\ position \in [Runs -> Nat] /\ \A r \in Runs : position[r] < Pages[r]
  /\ lease \subseteq Leases /\ Cardinality(lease) <= 1
  /\ late \in BOOLEAN
  /\ log \in Seq(Batches)
  /\ observed \subseteq Observations
  /\ finals \in Seq([run : Runs, at : 1 .. Len(log)])
  /\ asked \subseteq [run : Runs, to : {"PAUSED", "QUEUED"}]
  /\ pc \in [Workers -> Places]
  /\ todo \in [Workers -> SUBSET Runs]
  /\ job \in [Workers -> SUBSET Jobs]
  /\ \A w \in Workers : Cardinality(job[w]) = IF Working(w) THEN 1 ELSE 0
  /\ outside \in 0 .. MaxOutside

Init ==
  /\ status = [r \in Runs |-> "NONE"]
  /\ token = [r \in Runs |-> 0]
  /\ accepted = [r \in Runs |-> 0]
  /\ position = [r \in Runs |-> 0]
  /\ lease = {} /\ late = FALSE
  /\ log = <<>> /\ observed = {} /\ finals = <<>>
  /\ asked = {}
  /\ pc = [w \in Workers |-> "idle"]
  /\ todo = [w \in Workers |-> {}]
  /\ job = [w \in Workers |-> {}]
  /\ outside = 0

FromOutside == outside < MaxOutside /\ outside' = outside + 1

-----------------------------------------------------------------------------
(* A batch                                                                 *)

\* Fault: a page is taken for the last when it is only followed by one.
IsLastMutant(r, p) == p + 2 >= Pages[r]

\* A page that is not full
IsLast(r, p) == p + 1 = Pages[r]

Batch(r, t, p, found) ==
  [run |-> r, token |-> t, page |-> p, found |-> found, last |-> IsLast(r, p)]

\* The contents of a page: any identities, all under the version of the page.
Contents == {[item : items, version : {v}] : items \in SUBSET Items, v \in Versions}

Active(r) == status[r] \in {"RUNNING", "FINALIZING"}

Known(e) == \E o \in observed : o.item = e.item /\ o.version = e.version

\* An identity and source version already observed with another operation, or
\* an identity new under its version that the run has under another one: the
\* key of an observation names the run and the identity only.
Conflicting(b) ==
  \E e \in b.found, o \in observed :
    /\ o.item = e.item
    /\ \/ o.version = e.version /\ o.op = "TOMBSTONE"
       \/ o.run = b.run /\ o.op = "UPSERT" /\ ~Known(e)

\* Fault: the sequence is not compared with the cursor.
AdmissibleMutant(b, seq) ==
  /\ Active(b.run) /\ token[b.run] = b.token
  /\ ~Conflicting(b)

\* Its sequence follows the cursor, and its previous digest is the cursor's.
Admissible(b, seq) ==
  /\ Active(b.run) /\ token[b.run] = b.token
  /\ seq = Len(log) + 1
  /\ ~Conflicting(b)

\* requireIdenticalRetry: the batch is there already.
Retried(b, seq) ==
  /\ Active(b.run) /\ token[b.run] = b.token
  /\ seq \in DOMAIN log /\ log[seq] = b

\* Of an identity and a source version the first observation is kept.
Observe(found, r, op) ==
  observed \cup
    {[item |-> e.item, version |-> e.version, run |-> r, op |-> op] :
       e \in {x \in found : ~Known(x)}}

\* Fault: the run keeps the source cursor it had.
CheckpointMutant(b) ==
  /\ accepted' = [accepted EXCEPT ![b.run] = Len(log) + 1]
  /\ UNCHANGED position

\* The last page leaves no source cursor.
Checkpoint(b) ==
  /\ accepted' = [accepted EXCEPT ![b.run] = Len(log) + 1]
  /\ position' = [position EXCEPT ![b.run] = IF b.last THEN 0 ELSE b.page + 1]

\* submitContinuousObservationBatchV2
Accept(b) ==
  LET done == Mode[b.run] = "DELTA" /\ b.last
  IN  /\ log' = Append(log, b)
      /\ observed' = Observe(b.found, b.run, "UPSERT")
      /\ Checkpoint(b)
      /\ status' = [status EXCEPT ![b.run] =
           IF done THEN "SUCCEEDED" ELSE IF b.last THEN "FINALIZING" ELSE "RUNNING"]
      /\ lease' = IF done THEN {l \in lease : l.run # b.run} ELSE lease
      /\ UNCHANGED <<token, late, finals>>

-----------------------------------------------------------------------------
(* The MCP tools                                                           *)

\* create_connector_run
Create(r) ==
  /\ status[r] = "NONE"
  /\ status' = [status EXCEPT ![r] = "QUEUED"]
  /\ UNCHANGED <<token, accepted, position, streamVars, asked, workerVars, outside>>

\* pause_connector_run and resume_connector_run read the run ...
Ask(r, to) ==
  /\ FromOutside
  /\ status[r] \in {"QUEUED", "RUNNING", "PAUSED"}
  /\ asked' = asked \cup {[run |-> r, to |-> to]}
  /\ UNCHANGED <<runVars, streamVars, workerVars>>

\* ... and then set its status by its key alone.
SetStatus(a) ==
  /\ asked' = asked \ {a}
  /\ status' = [status EXCEPT ![a.run] = a.to]
  /\ UNCHANGED <<token, accepted, position, streamVars, workerVars, outside>>

\* submit_continuous_observation_batch_v2 with what get_connector_run and the
\* cursor answer: the next page of the run, under its token.
Push(r) ==
  /\ FromOutside
  /\ \E found \in Contents :
       LET b == Batch(r, token[r], position[r], found)
       IN  Admissible(b, Len(log) + 1) /\ Accept(b)
  /\ UNCHANGED <<asked, workerVars>>

-----------------------------------------------------------------------------
(* runOnce of the scheduler                                                *)

Goto(w, place) == pc' = [pc EXCEPT ![w] = place]

Learn(w, j) == job' = [job EXCEPT ![w] = {j}]

Fail(w, r) == Goto(w, "failed") /\ Learn(w, OnlyRun(r))

Queued == {r \in Runs : status[r] = "QUEUED"}

\* listDueRuns: any BatchLimit of the queued runs, for their order is that of
\* their creation.
List(w) ==
  /\ pc[w] = "idle"
  /\ \E due \in SUBSET Queued :
       /\ Cardinality(due) <= BatchLimit
       /\ Cardinality(due) = BatchLimit \/ due = Queued
       /\ todo' = [todo EXCEPT ![w] = due]
       /\ Goto(w, IF due = {} THEN "idle" ELSE "listed")
  /\ UNCHANGED <<runVars, streamVars, asked, job, outside>>

\* claimConnectorRun reads the run before it waits for the lock of the stream.
ReadRun(w, r) ==
  /\ pc[w] = "listed" /\ r \in todo[w]
  /\ todo' = [todo EXCEPT ![w] = @ \ {r}]
  /\ IF status[r] \in {"QUEUED", "RUNNING"}
     THEN Goto(w, "claiming") /\ Learn(w, [OnlyRun(r) EXCEPT !.token = token[r]])
     ELSE Fail(w, r)
  /\ UNCHANGED <<runVars, streamVars, asked, outside>>

HeldByOther(w) == \E l \in lease : l.owner # w /\ ~late

\* The token of the lease, or of the run as it was read when there is no lease.
NextToken(j) == (IF lease = {} THEN j.token ELSE (CHOOSE l \in lease : TRUE).token) + 1

\* The rest of claimConnectorRun, under the lock.
Claim(w, j) ==
  /\ pc[w] = "claiming"
  /\ IF HeldByOther(w)
     THEN Fail(w, j.run) /\ UNCHANGED <<runVars, lease, late>>
     ELSE /\ lease' = {[run |-> j.run, owner |-> w, token |-> NextToken(j)]}
          /\ late' = FALSE
          /\ token' = [token EXCEPT ![j.run] = NextToken(j)]
          /\ status' = [status EXCEPT ![j.run] = "RUNNING"]
          /\ Learn(w, [j EXCEPT !.token = NextToken(j)])
          /\ Goto(w, "claimed")
          /\ UNCHANGED <<accepted, position>>
  /\ UNCHANGED <<log, observed, finals, asked, todo, outside>>

\* getConnectorRun: what createBatch and the adapter work from
Describe(w, j) ==
  /\ pc[w] = "claimed"
  /\ Learn(w, [j EXCEPT !.accepted = accepted[j.run], !.position = position[j.run],
                        !.last = IsLast(j.run, position[j.run])])
  /\ Goto(w, "submitting")
  /\ UNCHANGED <<runVars, streamVars, asked, todo, outside>>

\* poll and submitBatch
Submit(w, j) ==
  /\ pc[w] = "submitting"
  /\ \E items \in SUBSET Items, v \in Versions :
       LET b == Batch(j.run, j.token, j.position, [item : items, version : {v}])
           taken == /\ Goto(w, "beating")
                    /\ Learn(w, [j EXCEPT !.accepted = 0, !.position = 0, !.version = {v}])
       IN  IF Admissible(b, j.accepted + 1)
           THEN Accept(b) /\ taken
           ELSE /\ IF Retried(b, j.accepted + 1) THEN taken ELSE Fail(w, j.run)
                /\ UNCHANGED <<runVars, streamVars>>
  /\ UNCHANGED <<asked, todo, outside>>

\* On to the next run listed
Onwards(w) == Goto(w, IF todo[w] = {} THEN "idle" ELSE "listed")

\* Fault: the worker keeps what it knows of the run.
LeaveMutant(w) == Onwards(w) /\ UNCHANGED job

Leave(w) == Onwards(w) /\ job' = [job EXCEPT ![w] = {}]

\* heartbeatConnectorLease: the lease must still be there, be this worker's,
\* and not have ended.
Heartbeat(w, j) ==
  /\ pc[w] = "beating"
  /\ IF lease # {} /\ (\A l \in lease : l.owner = w /\ l.token = j.token) /\ ~late
     THEN IF j.last /\ Mode[j.run] = "FULL_SNAPSHOT"
          THEN Goto(w, "finalizing") /\ UNCHANGED job
          ELSE Leave(w)
     ELSE Fail(w, j.run)
  /\ UNCHANGED <<runVars, streamVars, asked, todo, outside>>

-----------------------------------------------------------------------------
(* finalizeContinuousSnapshot takes no lock and is READ COMMITTED: each of     *)
(* its queries sees what is committed by then, its writes appear at the end.   *)

IsLastOf(n, r) == log[n].run = r /\ \A k \in n + 1 .. Len(log) : log[k].run # r

\* The last batch of the run is the last page.
EndsWithLastPage(r) == \E n \in DOMAIN log : IsLastOf(n, r) /\ log[n].last

\* Whether the run is read before a batch and the batch after, or both at once:
\* the last batch of a FINALIZING run is its last page.
MayFinalize(j) ==
  token[j.run] = j.token /\ status[j.run] = "FINALIZING" /\ EndsWithLastPage(j.run)

CheckSnapshot(w, j) ==
  /\ pc[w] = "finalizing"
  /\ IF MayFinalize(j)
     THEN Goto(w, "checked") /\ UNCHANGED job
     ELSE Fail(w, j.run)
  /\ UNCHANGED <<runVars, streamVars, asked, todo, outside>>

\* The cursor names the last completed snapshot and its boundary.
ReadCursor(w, j) ==
  /\ pc[w] = "checked"
  /\ IF finals # <<>> /\ Boundary[Last(finals).run] = Boundary[j.run]
     THEN Learn(w, [j EXCEPT !.prior = {Last(finals).run}]) /\ Goto(w, "comparing")
     ELSE Goto(w, "committing") /\ UNCHANGED job
  /\ UNCHANGED <<runVars, streamVars, asked, todo, outside>>

\* The identities in the batches of a run among the first n of the stream:
\* its ConnectorSnapshotIdentity rows.
Seen(r, n) == {e.item : e \in UNION {log[k].found : k \in {i \in 1 .. n : log[i].run = r}}}

ReadOwn(w, j) ==
  /\ pc[w] = "comparing"
  /\ Learn(w, [j EXCEPT !.own = Seen(j.run, Len(log))])
  /\ Goto(w, "subtracting")
  /\ UNCHANGED <<runVars, streamVars, asked, todo, outside>>

\* Fault: the two snapshots are swapped.
LacksMutant(before, own) == own \ before

\* What the completed snapshot has and this one has not
Lacks(before, own) == before \ own

ReadPrior(w, j) ==
  /\ pc[w] = "subtracting"
  /\ \E q \in j.prior :
       Learn(w, [j EXCEPT !.missing = Lacks(Seen(q, Len(log)), j.own), !.own = {}, !.prior = {}])
  /\ Goto(w, "committing")
  /\ UNCHANGED <<runVars, streamVars, asked, todo, outside>>

\* Identities the run has not deleted yet: the key of a tombstone names both.
Undeleted(items, r) ==
  {i \in items : ~\E o \in observed : o.run = r /\ o.item = i /\ o.op = "TOMBSTONE"}

CommitSnapshot(w, j) ==
  /\ pc[w] = "committing"
  /\ observed' =
       Observe([item : Undeleted(j.missing, j.run), version : j.version], j.run, "TOMBSTONE")
  /\ finals' = Append(finals, [run |-> j.run, at |-> Len(log)])
  /\ status' = [status EXCEPT ![j.run] = "SUCCEEDED"]
  /\ lease' = {l \in lease : l.run # j.run}
  /\ Leave(w)
  /\ UNCHANGED <<token, accepted, position, late, log, asked, todo, outside>>

-----------------------------------------------------------------------------
\* recordConnectorRunFailure, from the catch block: by the run's key alone.
RecordFailure(w, j) ==
  /\ pc[w] = "failed"
  /\ status' = [status EXCEPT ![j.run] = "FAILED"]
  /\ Leave(w)
  /\ UNCHANGED <<token, accepted, position, streamVars, asked, todo, outside>>

-----------------------------------------------------------------------------
(* Failures                                                                *)

\* A call of runOnce fails: the adapter, the connector's state, the content
\* of an observation, a conflict of transactions.
CallFails(w) ==
  /\ pc[w] \in Places \ {"idle", "listed", "failed"}
  /\ FromOutside
  /\ \E j \in job[w] : Fail(w, j.run)
  /\ UNCHANGED <<runVars, streamVars, asked, todo>>

Crash(w) ==
  /\ pc[w] # "idle"
  /\ FromOutside
  /\ Goto(w, "idle")
  /\ todo' = [todo EXCEPT ![w] = {}]
  /\ job' = [job EXCEPT ![w] = {}]
  /\ UNCHANGED <<runVars, streamVars, asked>>

LeaseExpires ==
  /\ lease # {} /\ ~late
  /\ FromOutside
  /\ late' = TRUE
  /\ UNCHANGED <<runVars, lease, log, observed, finals, asked, workerVars>>

-----------------------------------------------------------------------------

Step(w) ==
  \/ List(w)
  \/ \E r \in todo[w] : ReadRun(w, r)
  \/ \E j \in job[w] :
       \/ Claim(w, j) \/ Describe(w, j) \/ Submit(w, j)
       \/ Heartbeat(w, j) \/ RecordFailure(w, j)
       \/ CheckSnapshot(w, j) \/ ReadCursor(w, j) \/ ReadOwn(w, j) \/ ReadPrior(w, j)
       \/ CommitSnapshot(w, j)

Client ==
  \/ \E r \in Runs :
       Create(r) \/ Push(r) \/ Ask(r, "PAUSED") \/ Ask(r, "QUEUED")
  \/ \E a \in asked : SetStatus(a)

Next ==
  \/ Client \/ LeaseExpires
  \/ \E w \in Workers : Step(w) \/ CallFails(w) \/ Crash(w)

Spec == Init /\ [][Next]_vars

-----------------------------------------------------------------------------
(* Properties                                                              *)

\* A run knows the batches accepted for it, whoever sent them: this is what
\* the next worker resumes from.
RunKnowsItsBatches ==
  \A r \in Runs :
    IF accepted[r] = 0 THEN \A n \in DOMAIN log : log[n].run # r
    ELSE IsLastOf(accepted[r], r)

\* "Worker takeover resumes from the last accepted checkpoint": the pages of a
\* run are accepted in the order of the source, none twice and none skipped,
\* and from the first one again after the last.
PagesInOrder ==
  \A m, n \in DOMAIN log :
    /\ m < n /\ log[m].run = log[n].run
    /\ \A k \in m + 1 .. n - 1 : log[k].run # log[n].run
    => log[n].page = IF log[m].last THEN 0 ELSE log[m].page + 1

\* The first n batches of the stream hold every page of the run.
WholeAt(r, n) ==
  0 .. Pages[r] - 1 \subseteq {log[k].page : k \in {i \in 1 .. n : log[i].run = r}}

\* "No incomplete scan can infer deletion or replace a prior complete
\* snapshot": a finalized snapshot holds every page of its source.
SnapshotsAreComplete ==
  \A f \in {finals[k] : k \in DOMAIN finals} :
    WholeAt(f.run, f.at)

\* No incomplete scan infers a deletion, whichever finalizations and pages go on
\* at the time: when a run has deleted an identity, there was a time when all of
\* its pages were accepted and none of them had it, and a completed snapshot of
\* the same boundary has it.
DeletionsAreInferred ==
  \A o \in {p \in observed : p.op = "TOMBSTONE"} :
    /\ \E n \in 0 .. Len(log) : WholeAt(o.run, n) /\ o.item \notin Seen(o.run, n)
    /\ \E k \in DOMAIN finals :
         /\ Boundary[finals[k].run] = Boundary[o.run]
         /\ o.item \in Seen(finals[k].run, Len(log))

(* What the stream holds, without the workers that bring it.               *)
Inventory == INSTANCE InventoryDelivery WITH
  delivered <- [n \in DOMAIN log |->
                  [run |-> log[n].run, page |-> log[n].page, found |-> log[n].found]],
  snapshots <- [k \in DOMAIN finals |-> finals[k].run],
  facts     <- observed

\* Whoever submits, takes over, pauses or fails, the stream delivers each run
\* page after page and deletes what a complete snapshot has lost: takeover and
\* retry do not show in what it holds.
DeliversInventories == Inventory!Spec

\* "Run succeeded: every required source page was durably accepted", and no
\* run that delivered its source ends otherwise.
DeliveredRunsSucceed ==
  \A r \in Runs :
    (\E n \in DOMAIN log : log[n].run = r /\ log[n].last) => status[r] # "FAILED"

=============================================================================
