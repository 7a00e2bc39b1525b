--------------------------- MODULE AssessmentRun ---------------------------
(***************************************************************************)
(* Requirement assessments of one architecture scope:                      *)
(*   apps/requirement-assessment-worker   a polling worker: marks outdated *)
(*        reports stale, then takes queued runs through evidence,          *)
(*        evaluation and review                                            *)
(*   apps/mcp-server/src/requirement-assessment/tools.ts                   *)
(*        creation, cancellation and acceptance                            *)
(* Every database statement is one step: neither side opens a transaction. *)
(* A run writes at most one report (its id is made from the run's), so     *)
(* reports are indexed by runs.  The design is what its readers compare:   *)
(* the authored rows, the catalog cursor and the relationship events.  A   *)
(* content of the rows is named by the cursor at which it was first        *)
(* logged.                                                                 *)
(***************************************************************************)
EXTENDS Integers, FiniteSets

CONSTANTS
  Runs,           \* runs that may be created
  Workers,        \* worker processes
  NoWorker,       \* leaseOwner IS NULL
  Calls,          \* idempotency keys of acceptance calls
  EvidenceLimit,  \* relationship events a snapshot reads (500 in the code)
  ScanLimit,      \* live reports a freshness scan reads (100 in the code)
  MaxChanges,     \* bound: changes of the design
  MaxFaults       \* bound: crashes, failures and leases lost to delay

ASSUME AssessmentAssumption ==
  /\ NoWorker \notin Workers
  /\ EvidenceLimit \in Nat \ {0}
  /\ ScanLimit \in Nat \ {0}
  /\ MaxChanges \in Nat
  /\ MaxFaults \in Nat

VARIABLES
  rows,       \* content of the authored rows
  catalog,    \* the catalog cursor
  links,      \* relationship events, and the largest graph version
  changes,    \* changes of the design so far
  others,     \* live reports of other requirements of the scope
  setting,    \* SPECFORGE_ASSESSMENT_RECONCILIATION_STATUS of each process
  status,     \* status column of each run
  owner,      \* leaseOwner column
  expired,    \* leaseExpiresAt has passed
  snapshot,   \* the evidence evidenceSnapshotId refers to, {} for null
  linked,     \* runs with an assessmentId
  report,     \* RequirementAssessment rows
  accepting,  \* acceptance calls that have read their report as REVIEWED
  pc,         \* where each worker is
  stage,      \* the stage it enters or is in
  todo,       \* reports it has still to check, or runs it has still to run
  cur,        \* the run it executes
  got,        \* the parts of the design it has read
  faults

design == <<rows, catalog, links, changes>>
world == <<design, others, setting>>
runVars == <<status, owner, expired, snapshot, linked>>
workerVars == <<pc, stage, todo, cur, got>>
vars == <<world, runVars, report, accepting, workerVars, faults>>

-----------------------------------------------------------------------------

Evidence == [rows : Nat, mark : Nat, links : Nat]

Stages == {"RESOLVING_EVIDENCE", "ANALYZING", "REVIEWING", "COMPLETE"}

Statuses == Stages \cup
  {"NONE", "QUEUED", "RUNNING", "FAILED", "CANCELLATION_REQUESTED", "CANCELLED"}

Lifecycles == {"NONE", "ASSESSED", "REVIEWED", "ACCEPTED", "STALE"}

Reasons == {"NONE", "EVIDENCE_SNAPSHOT_CHANGED", "RECONCILIATION_NOT_CONVERGED"}

\* "BLOCKED" stands for BLOCKED, DRIFTED and PENDING, "UNVERIFIED" for the
\* default and whatever else is not CONVERGED.
Settings == {"CONVERGED", "UNVERIFIED", "BLOCKED"}

\* acceptance: the key in reviewResult.acceptanceIdempotencyKey, if any
Reports == [lifecycle : Lifecycles, blocked : BOOLEAN, basis : SUBSET Evidence,
            reason : Reasons, acceptance : SUBSET Calls]

NoReport == [lifecycle |-> "NONE", blocked |-> FALSE, basis |-> {},
             reason |-> "NONE", acceptance |-> {}]

Parts == {"rows", "mark", "links", "list"}

Nothing == [p \in {} |-> 0]

Places == {"idle", "scanning", "checking", "listed", "claiming", "check", "update",
           "cancel", "reading", "evaluating", "reviewing", "failed"}

\* The worker is inside execute, or about to enter it.
Executing(w) == pc[w] \in {"check", "update", "cancel", "reading", "evaluating", "reviewing", "failed"}
Busy(w) == Executing(w) \/ pc[w] = "claiming"

TypeOK ==
  /\ rows \in Nat /\ catalog \in Nat /\ links \in Nat /\ changes \in 0 .. MaxChanges
  /\ others \in 0 .. ScanLimit
  /\ setting \in [Workers -> Settings]
  /\ status \in [Runs -> Statuses]
  /\ owner \in [Runs -> Workers \cup {NoWorker}]
  /\ expired \in [Runs -> BOOLEAN]
  /\ \A r \in Runs : snapshot[r] \subseteq Evidence /\ Cardinality(snapshot[r]) <= 1
  /\ linked \subseteq Runs
  /\ \A r \in Runs : report[r] \in Reports
  /\ accepting \subseteq Runs \X Calls
  /\ pc \in [Workers -> Places]
  /\ stage \in [Workers -> Stages]
  /\ todo \in [Workers -> SUBSET Runs]
  /\ cur \in [Workers -> SUBSET Runs]
  /\ \A w \in Workers : Cardinality(cur[w]) = IF Busy(w) THEN 1 ELSE 0
  /\ \A w \in Workers : DOMAIN got[w] \subseteq Parts
  /\ faults \in 0 .. MaxFaults

Init ==
  /\ rows = 0 /\ catalog = 0 /\ links = 0 /\ changes = 0
  /\ others \in 0 .. ScanLimit
  /\ setting \in [Workers -> Settings]
  /\ status = [r \in Runs |-> "NONE"]
  /\ owner = [r \in Runs |-> NoWorker]
  /\ expired = [r \in Runs |-> FALSE]
  /\ snapshot = [r \in Runs |-> {}]
  /\ linked = {}
  /\ report = [r \in Runs |-> NoReport]
  /\ accepting = {}
  /\ pc = [w \in Workers |-> "idle"]
  /\ stage = [w \in Workers |-> "RESOLVING_EVIDENCE"]
  /\ todo = [w \in Workers |-> {}]
  /\ cur = [w \in Workers |-> {}]
  /\ got = [w \in Workers |-> Nothing]
  /\ faults = 0

-----------------------------------------------------------------------------
(* Clients and operators                                                   *)

\* The authored rows and the cursor change in one transaction, as do the rows
\* and events of a relationship command.  Revisions are keyed by content: a
\* content that has been logged before changes the rows and moves nothing.
ChangeDesign ==
  /\ changes < MaxChanges /\ changes' = changes + 1
  /\ \/ catalog' = catalog + 1 /\ rows' = catalog + 1 /\ UNCHANGED links
     \/ rows' \in (0 .. catalog) \ {rows} /\ UNCHANGED <<catalog, links>>
     \/ links' = links + 1 /\ UNCHANGED <<rows, catalog>>
  /\ UNCHANGED <<others, setting, runVars, report, accepting, workerVars, faults>>

\* Other requirements of the scope are assessed, or their reports go stale.
ChangeOthers ==
  /\ others' \in 0 .. ScanLimit
  /\ UNCHANGED <<design, setting, runVars, report, accepting, workerVars, faults>>

\* The process is started anew between two ticks, with another setting.
Restart(w) ==
  /\ pc[w] = "idle"
  /\ \E v \in Settings : setting' = [setting EXCEPT ![w] = v]
  /\ UNCHANGED <<design, others, runVars, report, accepting, workerVars, faults>>

\* Fault: creation under a key that is taken starts the run again.
CreateMutant(r) ==
  /\ status' = [status EXCEPT ![r] = "QUEUED"]
  /\ UNCHANGED <<world, owner, expired, snapshot, linked, report, accepting, workerVars, faults>>

\* createRequirementAssessment: a key that is taken answers with its run.
Create(r) ==
  /\ status[r] = "NONE"
  /\ status' = [status EXCEPT ![r] = "QUEUED"]
  /\ UNCHANGED <<world, owner, expired, snapshot, linked, report, accepting, workerVars, faults>>

\* cancelRequirementAssessment: whatever the run's status is.
Cancel(r) ==
  /\ status[r] # "NONE"
  /\ status' = [status EXCEPT ![r] = "CANCELLATION_REQUESTED"]
  /\ UNCHANGED <<world, owner, expired, snapshot, linked, report, accepting, workerVars, faults>>

Acceptable(r) == report[r].lifecycle = "REVIEWED" /\ ~report[r].blocked

\* acceptRequirementAssessment reads the report ...
ReadForAcceptance(r, k) ==
  /\ Acceptable(r)
  /\ accepting' = accepting \cup {<<r, k>>}
  /\ UNCHANGED <<world, runVars, report, workerVars, faults>>

\* ... and then updates it by its key alone, also when another call has
\* accepted it meanwhile.
Accept(r, k) ==
  /\ <<r, k>> \in accepting
  /\ accepting' = accepting \ {<<r, k>>}
  /\ report' = [report EXCEPT ![r].lifecycle = "ACCEPTED", ![r].acceptance = {k}]
  /\ UNCHANGED <<world, runVars, workerVars, faults>>

-----------------------------------------------------------------------------
(* The freshness scan that opens a tick                                    *)

Live(r) == report[r].lifecycle \in {"ASSESSED", "REVIEWED", "ACCEPTED"}

Put(f, p, v) == [q \in DOMAIN f \cup {p} |-> IF q = p THEN v ELSE f[q]]

StartTick(w) ==
  /\ pc[w] = "idle"
  /\ pc' = [pc EXCEPT ![w] = "scanning"]
  /\ UNCHANGED <<world, runVars, report, accepting, stage, todo, cur, got, faults>>

LiveRuns == {r \in Runs : Live(r)}

\* listAssessmentsForFreshness takes ScanLimit live reports of the scope, those
\* first that were updated least recently: which they are is left open.
Listed(S) ==
  /\ S \subseteq LiveRuns /\ Cardinality(S) <= ScanLimit
  /\ S = LiveRuns \/ Cardinality(S) + others >= ScanLimit

\* scan and currentWaterline: the list, the cursor and the largest graph
\* version are read by three concurrent statements.
ReadForScan(w) ==
  /\ pc[w] = "scanning"
  /\ \E p \in {"list", "mark", "links"} \ DOMAIN got[w] :
       /\ got' = [got EXCEPT ![w] = Put(@, p,
            CASE p = "mark" -> catalog [] p = "links" -> links [] OTHER -> 0)]
       /\ IF p = "list"
          THEN \E S \in SUBSET Runs : Listed(S) /\ todo' = [todo EXCEPT ![w] = S]
          ELSE UNCHANGED todo
       /\ pc' = [pc EXCEPT ![w] =
            IF {"list", "mark", "links"} \subseteq DOMAIN got[w] \cup {p}
            THEN "checking" ELSE "scanning"]
  /\ UNCHANGED <<world, runVars, report, accepting, stage, cur, faults>>

\* Fault: only the catalog cursor is compared.
OutdatedMutant(basis, mark, count) == \A b \in basis : b.mark # mark

\* The waterline of the evidence is not the current one.
Outdated(basis, mark, count) ==
  \A b \in basis : <<b.mark, b.links>> # <<mark, count>>

InvalidationReason(basis, mark, count, reconciliation) ==
  IF Outdated(basis, mark, count) THEN "EVIDENCE_SNAPSHOT_CHANGED"
  ELSE IF reconciliation = "BLOCKED" THEN "RECONCILIATION_NOT_CONVERGED" ELSE "NONE"

\* markStale: by the report's key alone.  Only a second worker could have
\* changed the basis of the report since it was listed.
CheckReport(w, r) ==
  /\ pc[w] = "checking" /\ r \in todo[w]
  /\ todo' = [todo EXCEPT ![w] = @ \ {r}]
  /\ LET why == InvalidationReason(report[r].basis, got[w]["mark"], got[w]["links"], setting[w])
     IN  report' = IF why = "NONE" THEN report
                   ELSE [report EXCEPT ![r].lifecycle = "STALE", ![r].reason = why]
  /\ UNCHANGED <<world, runVars, accepting, pc, stage, cur, got, faults>>

-----------------------------------------------------------------------------
(* Taking a run                                                            *)

\* Fault: only runs with an expired lease are listed.
RunnableMutant(r) == status[r] = "QUEUED" /\ expired[r]

Runnable(r) == status[r] = "QUEUED"

\* listRunnableRuns, when every report has been checked
ListRuns(w) ==
  /\ pc[w] = "checking" /\ todo[w] = {}
  /\ todo' = [todo EXCEPT ![w] = {r \in Runs : Runnable(r)}]
  /\ got' = [got EXCEPT ![w] = Nothing]
  /\ pc' = [pc EXCEPT ![w] = "listed"]
  /\ UNCHANGED <<world, runVars, report, accepting, stage, cur, faults>>

EndTick(w) ==
  /\ pc[w] = "listed" /\ todo[w] = {}
  /\ pc' = [pc EXCEPT ![w] = "idle"]
  /\ UNCHANGED <<world, runVars, report, accepting, stage, todo, cur, got, faults>>

Claimable(r) == status[r] = "QUEUED" \/ (status[r] = "RUNNING" /\ expired[r])

\* run and the first half of claimRun: a run that is not claimable is left.
Look(w, r) ==
  /\ pc[w] = "listed" /\ r \in todo[w]
  /\ todo' = [todo EXCEPT ![w] = @ \ {r}]
  /\ IF Claimable(r)
     THEN pc' = [pc EXCEPT ![w] = "claiming"] /\ cur' = [cur EXCEPT ![w] = {r}]
     ELSE UNCHANGED <<pc, cur>>
  /\ UNCHANGED <<world, runVars, report, accepting, stage, got, faults>>

\* The second half of claimRun: the update does not repeat the condition.
Claim(w, r) ==
  /\ pc[w] = "claiming" /\ r \in cur[w]
  /\ status' = [status EXCEPT ![r] = "RUNNING"]
  /\ owner' = [owner EXCEPT ![r] = w]
  /\ expired' = [expired EXCEPT ![r] = FALSE]
  /\ pc' = [pc EXCEPT ![w] = "check"]
  /\ stage' = [stage EXCEPT ![w] = "RESOLVING_EVIDENCE"]
  /\ UNCHANGED <<world, snapshot, linked, report, accepting, todo, cur, got, faults>>

-----------------------------------------------------------------------------
(* Executing it: before every stage fencedUpdate reads the run and then    *)
(* updates it if the worker is still its leaseOwner.                       *)

\* Fault: the run stays with the worker.
LeaveMutant(w) == pc' = [pc EXCEPT ![w] = "listed"] /\ UNCHANGED <<cur, got>>

Leave(w) == /\ pc' = [pc EXCEPT ![w] = "listed"]
            /\ cur' = [cur EXCEPT ![w] = {}]
            /\ got' = [got EXCEPT ![w] = Nothing]

FencedRead(w, r) ==
  /\ pc[w] = "check" /\ r \in cur[w]
  /\ IF status[r] = "CANCELLED"
     THEN Leave(w)
     ELSE /\ pc' = [pc EXCEPT ![w] =
               IF status[r] = "CANCELLATION_REQUESTED" THEN "cancel" ELSE "update"]
          /\ UNCHANGED <<cur, got>>
  /\ UNCHANGED <<world, runVars, report, accepting, stage, todo, faults>>

\* The handler of the stage, entered with the record the update returned.
EnterStage(w) ==
  IF stage[w] = "COMPLETE" THEN Leave(w)
  ELSE /\ pc' = [pc EXCEPT ![w] = CASE stage[w] = "RESOLVING_EVIDENCE" -> "reading"
                                    [] stage[w] = "ANALYZING" -> "evaluating"
                                    [] OTHER -> "reviewing"]
       /\ UNCHANGED <<cur, got>>

\* The evidence the worker has read, as a snapshot.
Read(w) == {[rows |-> got[w]["rows"], mark |-> got[w]["mark"], links |-> got[w]["links"]]}

Owns(w, r) == owner[r] = w

Update(w, r) ==
  /\ pc[w] = "update" /\ r \in cur[w]
  /\ IF Owns(w, r)
     THEN /\ status' = [status EXCEPT ![r] = stage[w]]
          /\ snapshot' = IF stage[w] = "ANALYZING" THEN [snapshot EXCEPT ![r] = Read(w)]
                         ELSE snapshot
          /\ linked' = IF stage[w] = "REVIEWING" THEN linked \cup {r} ELSE linked
          /\ EnterStage(w)
     ELSE Leave(w) /\ UNCHANGED <<status, snapshot, linked>>
  /\ UNCHANGED <<world, owner, expired, report, accepting, stage, todo, faults>>

\* A requested cancellation is recorded, and the record that comes back lets
\* the stage begin.
CancelUpdate(w, r) ==
  /\ pc[w] = "cancel" /\ r \in cur[w]
  /\ IF Owns(w, r)
     THEN status' = [status EXCEPT ![r] = "CANCELLED"] /\ EnterStage(w)
     ELSE Leave(w) /\ UNCHANGED status
  /\ UNCHANGED <<world, owner, expired, snapshot, linked, report, accepting, stage, todo, faults>>

\* Fault: review is skipped.
NextStageMutant(w, s) ==
  /\ stage' = [stage EXCEPT ![w] = IF s = "REVIEWING" THEN "COMPLETE" ELSE s]
  /\ pc' = [pc EXCEPT ![w] = "check"]

NextStage(w, s) == /\ stage' = [stage EXCEPT ![w] = s]
                   /\ pc' = [pc EXCEPT ![w] = "check"]

\* Fault: a full page counts one event less.
EventsReadMutant == IF links < EvidenceLimit THEN links ELSE EvidenceLimit - 1

\* readRelationships: the first EvidenceLimit events
EventsRead == IF links < EvidenceLimit THEN links ELSE EvidenceLimit

\* buildEvidenceSnapshot: the rows and the cursor are read by two concurrent
\* statements, then the events; the snapshot is saved under
\* the digest of what was read.
ReadEvidence(w, r) ==
  /\ pc[w] = "reading" /\ r \in cur[w]
  /\ \/ \E p \in {"rows", "mark"} \ DOMAIN got[w] :
          /\ got' = [got EXCEPT ![w] = Put(@, p, IF p = "rows" THEN rows ELSE catalog)]
          /\ UNCHANGED <<pc, stage>>
     \/ /\ {"rows", "mark"} \subseteq DOMAIN got[w]
        /\ got' = [got EXCEPT ![w] = Put(@, "links", EventsRead)]
        /\ NextStage(w, "ANALYZING")
  /\ UNCHANGED <<world, runVars, report, accepting, todo, cur, faults>>

Throw(w) == pc' = [pc EXCEPT ![w] = "failed"] /\ UNCHANGED stage

\* evaluateRun: without a snapshot it throws; otherwise the report is written
\* over whatever the row says, except for the reason it was last stale.  The
\* verdict is one of four; what matters is whether it blocks acceptance, as it
\* does unless the process is told that reconciliation has converged.
Evaluate(w, r) ==
  /\ pc[w] = "evaluating" /\ r \in cur[w]
  /\ IF snapshot[r] = {}
     THEN Throw(w) /\ UNCHANGED report
     ELSE /\ \E b \in BOOLEAN :
               /\ setting[w] # "CONVERGED" => b
               /\ report' = [report EXCEPT ![r] =
                    [lifecycle |-> "ASSESSED", blocked |-> b, basis |-> snapshot[r],
                     reason |-> report[r].reason, acceptance |-> {}]]
          /\ NextStage(w, "REVIEWING")
  /\ UNCHANGED <<world, runVars, accepting, todo, cur, got, faults>>

Reviewable(r) == r \in linked /\ report[r].lifecycle = "ASSESSED"

\* reviewRun and markReviewed
Review(w, r) ==
  /\ pc[w] = "reviewing" /\ r \in cur[w]
  /\ IF Reviewable(r)
     THEN report' = [report EXCEPT ![r].lifecycle = "REVIEWED"] /\ NextStage(w, "COMPLETE")
     ELSE Throw(w) /\ UNCHANGED report
  /\ UNCHANGED <<world, runVars, accepting, todo, cur, got, faults>>

\* The catch block of execute
FailRun(w, r) ==
  /\ pc[w] = "failed" /\ r \in cur[w]
  /\ status' = IF Owns(w, r) THEN [status EXCEPT ![r] = "FAILED"] ELSE status
  /\ Leave(w)
  /\ UNCHANGED <<world, owner, expired, snapshot, linked, report, accepting, stage, todo, faults>>

-----------------------------------------------------------------------------
(* Leases and failures                                                     *)

\* The timer of execute
Heartbeat(w, r) ==
  /\ Executing(w) /\ r \in cur[w] /\ Owns(w, r)
  /\ expired[r]
  /\ expired' = [expired EXCEPT ![r] = FALSE]
  /\ UNCHANGED <<world, status, owner, snapshot, linked, report, accepting, workerVars, faults>>

\* A lease whose owner still sends heartbeats ends only when they are late.
LeaseExpires(r) ==
  /\ status[r] = "RUNNING" /\ ~expired[r]
  /\ expired' = [expired EXCEPT ![r] = TRUE]
  /\ IF \E w \in Workers : Owns(w, r) /\ Executing(w) /\ r \in cur[w]
     THEN faults < MaxFaults /\ faults' = faults + 1
     ELSE UNCHANGED faults
  /\ UNCHANGED <<world, status, owner, snapshot, linked, report, accepting, workerVars>>

\* A statement of a handler fails: the catch block runs.
StatementFails(w) ==
  /\ pc[w] \in {"check", "update", "cancel", "reading", "evaluating", "reviewing"}
  /\ faults < MaxFaults /\ faults' = faults + 1
  /\ pc' = [pc EXCEPT ![w] = "failed"]
  /\ UNCHANGED <<world, runVars, report, accepting, stage, todo, cur, got>>

\* The process stops, or a statement outside execute fails and ends the tick.
Crash(w) ==
  /\ pc[w] # "idle"
  /\ faults < MaxFaults /\ faults' = faults + 1
  /\ pc' = [pc EXCEPT ![w] = "idle"]
  /\ todo' = [todo EXCEPT ![w] = {}]
  /\ cur' = [cur EXCEPT ![w] = {}]
  /\ got' = [got EXCEPT ![w] = Nothing]
  /\ UNCHANGED <<world, runVars, report, accepting, stage>>

-----------------------------------------------------------------------------

Tick(w) ==
  \/ StartTick(w) \/ ReadForScan(w) \/ ListRuns(w) \/ EndTick(w)
  \/ \E r \in todo[w] : CheckReport(w, r) \/ Look(w, r)
  \/ \E r \in cur[w] :
       \/ Claim(w, r) \/ FencedRead(w, r) \/ Update(w, r) \/ CancelUpdate(w, r)
       \/ ReadEvidence(w, r) \/ Evaluate(w, r) \/ Review(w, r) \/ FailRun(w, r)

Client(r) ==
  \/ Create(r) \/ Cancel(r)
  \/ \E k \in Calls : ReadForAcceptance(r, k) \/ Accept(r, k)

Next ==
  \/ ChangeDesign \/ ChangeOthers
  \/ \E r \in Runs : Client(r) \/ LeaseExpires(r)
  \/ \E w \in Workers :
       \/ Tick(w) \/ StatementFails(w) \/ Crash(w) \/ Restart(w)
       \/ \E r \in cur[w] : Heartbeat(w, r)

Spec == Init /\ [][Next]_vars

\* A worker keeps polling and its statements end.  Clients, changes and
\* failures owe nothing.
FairSpec == Spec /\ \A w \in Workers : WF_vars(Tick(w))

-----------------------------------------------------------------------------
(* Properties                                                              *)

Ended == {"COMPLETE", "FAILED", "CANCELLED"}

\* A run is COMPLETE only when its report rests on the snapshot the run names
\* and has passed review, whatever has been cancelled, marked stale or failed.
CompletedIsReviewed ==
  \A r \in Runs : status[r] = "COMPLETE" =>
    /\ r \in linked
    /\ report[r].basis = snapshot[r] /\ snapshot[r] # {}
    /\ report[r].lifecycle \in {"REVIEWED", "ACCEPTED", "STALE"}

\* "Accepted reports remain immutable decision records": the evidence and the
\* verdict of an ACCEPTED report are never rewritten and it only goes STALE.
\* Its acceptance can be replaced, but only by a call that had read the report
\* before it was accepted.
AcceptedIsImmutable ==
  [][\A r \in Runs : report[r].lifecycle = "ACCEPTED" =>
       /\ report'[r].basis = report[r].basis /\ report'[r].blocked = report[r].blocked
       /\ report'[r].lifecycle \in {"ACCEPTED", "STALE"}
       /\ \/ report'[r].acceptance = report[r].acceptance
          \/ \E k \in Calls : <<r, k>> \in accepting /\ report'[r].acceptance = {k}]_vars

\* BLOCKED and INSUFFICIENT_EVIDENCE "cannot enter ACCEPTED".
AcceptedIsUnblocked ==
  \A r \in Runs : report[r].lifecycle = "ACCEPTED" => ~report[r].blocked

\* The waterline of the design has moved since the evidence was read.
Misleading(r) ==
  Live(r) /\ \A b \in report[r].basis : b.mark # catalog \/ b.links # links

\* A scan reaches every live report of the scope.
Uncrowded == Cardinality(LiveRuns) + others <= ScanLimit

\* A live report whose waterline is not the current one does not stay so, also
\* when it is accepted meanwhile: it goes stale, or is written anew, unless the
\* scope comes to have more live reports than one scan reads.
OutdatedGoesStale ==
  \A r \in Runs : Misleading(r) /\ Uncrowded ~> ~Misleading(r) \/ ~Uncrowded

\* The design does not change any more.
Quiet == changes = MaxChanges

\* What is assessed after the last change stays fresh, whatever is read in
\* between: a report goes stale only because the evidence changed, or because
\* the process is told that reconciliation has not converged.
StaleOnlyWhenChanged ==
  \A r \in Runs :
    [](Quiet /\ status[r] = "NONE" =>
         [](report[r].lifecycle = "STALE" => report[r].reason = "RECONCILIATION_NOT_CONVERGED"))

\* Every queued run comes to an end, or to a request to cancel it.
RunsEnd ==
  \A r \in Runs :
    status[r] = "QUEUED"
      ~> status[r] \in Ended \cup {"CANCELLATION_REQUESTED"} \/ faults > 0

=============================================================================
