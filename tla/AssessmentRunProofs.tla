------------------------- MODULE AssessmentRunProofs -------------------------
(***************************************************************************)
(* Proofs about AssessmentRun.  Its types hold for any number of workers;  *)
(* what it says of complete and of accepted reports is proved for the one  *)
(* worker that is deployed, and any runs, clients and failures.            *)
(***************************************************************************)
EXTENDS AssessmentRun, FiniteSetTheorems, TLAPS

-----------------------------------------------------------------------------
(* Types                                                                   *)

\* What a worker may have read
Gots == UNION {[d -> Nat] : d \in SUBSET Parts}

BusyPlaces == {"check", "update", "cancel", "reading", "evaluating", "reviewing", "failed", "claiming"}

DesignTypes ==
  /\ rows \in Nat /\ catalog \in Nat /\ links \in Nat /\ changes \in 0 .. MaxChanges
  /\ links <= changes
  /\ others \in 0 .. ScanLimit /\ setting \in [Workers -> Settings]
  /\ faults \in 0 .. MaxFaults

RunTypes ==
  /\ status \in [Runs -> Statuses]
  /\ owner \in [Runs -> Workers \cup {NoWorker}]
  /\ expired \in [Runs -> BOOLEAN]
  /\ snapshot \in [Runs -> SUBSET Evidence]
  /\ \A r \in Runs : snapshot[r] = {} \/ \E e \in Evidence : snapshot[r] = {e}
  /\ linked \subseteq Runs

ReportTypes == report \in [Runs -> Reports] /\ accepting \subseteq Runs \X Calls

\* A worker has a run when it is busy, and all of the evidence before it saves it.
WorkerFits(place, stg, held, g) ==
  /\ IF place \in BusyPlaces THEN \E r \in Runs : held = {r} ELSE held = {}
  /\ place \in {"check", "update"} /\ stg = "ANALYZING" => {"rows", "mark", "links"} \subseteq DOMAIN g

WorkerTypes ==
  /\ pc \in [Workers -> Places] /\ stage \in [Workers -> Stages]
  /\ todo \in [Workers -> SUBSET Runs] /\ cur \in [Workers -> SUBSET Runs]
  /\ got \in [Workers -> Gots]
  /\ \A w \in Workers : WorkerFits(pc[w], stage[w], cur[w], got[w])

Types == DesignTypes /\ RunTypes /\ ReportTypes /\ WorkerTypes

LEMMA NothingIsRead == Nothing \in Gots /\ DOMAIN Nothing = {}
<1>1. Nothing \in [{} -> Nat]
  BY DEF Nothing
<1> QED BY <1>1 DEF Gots

LEMMA PutIsRead ==
  ASSUME NEW g \in Gots, NEW p \in Parts, NEW v \in Nat
  PROVE  Put(g, p, v) \in Gots /\ DOMAIN Put(g, p, v) = DOMAIN g \cup {p}
<1>1. PICK d \in SUBSET Parts : g \in [d -> Nat]
  BY DEF Gots
<1>2. Put(g, p, v) \in [d \cup {p} -> Nat]
  BY <1>1 DEF Put
<1>3. d \cup {p} \in SUBSET Parts
  OBVIOUS
<1> QED BY <1>1, <1>2, <1>3 DEF Gots, Put

LEMMA TypesInit == Init => Types
<1> SUFFICES ASSUME Init PROVE Types
  OBVIOUS
<1>1. DesignTypes
  BY AssessmentAssumption DEF Init, DesignTypes
<1>2. expired \in [Runs -> BOOLEAN]
  <2>1. FALSE \in BOOLEAN
    BY Zenon
  <2> QED BY <2>1 DEF Init
<1>3. RunTypes
  BY <1>2 DEF Init, RunTypes, Statuses
<1>4. ReportTypes
  <2>1. NoReport \in Reports
    <3>1. FALSE \in BOOLEAN
      BY Zenon
    <3> QED BY <3>1 DEF NoReport, Reports, Lifecycles, Reasons
  <2> QED BY <2>1 DEF Init, ReportTypes
<1>5. WorkerTypes
  <2>1. "idle" \in Places /\ "RESOLVING_EVIDENCE" \in Stages
    BY DEF Places, Stages
  <2>2. WorkerFits("idle", "RESOLVING_EVIDENCE", {}, Nothing)
    BY DEF WorkerFits, BusyPlaces
  <2> HIDE DEF Nothing
  <2> QED BY <2>1, <2>2, NothingIsRead DEF Init, WorkerTypes
<1> QED BY <1>1, <1>3, <1>4, <1>5 DEF Types

LEMMA Typed ==
  ASSUME Types
  PROVE  /\ DesignTypes /\ RunTypes /\ ReportTypes /\ WorkerTypes
         /\ \A w \in Workers :
              /\ pc[w] \in Places /\ stage[w] \in Stages /\ todo[w] \subseteq Runs
              /\ got[w] \in Gots /\ cur[w] \subseteq Runs
              /\ WorkerFits(pc[w], stage[w], cur[w], got[w])
              /\ \A r \in cur[w] : r \in Runs /\ cur[w] = {r}
BY DEF Types, WorkerTypes, WorkerFits

\* What a step does to one worker keeps all of them typed.
LEMMA WorkerSteps ==
  ASSUME WorkerTypes, NEW w \in Workers,
         NEW p \in Places, NEW s \in Stages, NEW t \in SUBSET Runs, NEW c \in SUBSET Runs,
         NEW g \in Gots, WorkerFits(p, s, c, g),
         pc' = [pc EXCEPT ![w] = p] \/ (pc' = pc /\ p = pc[w]),
         stage' = [stage EXCEPT ![w] = s] \/ (stage' = stage /\ s = stage[w]),
         todo' = [todo EXCEPT ![w] = t] \/ (todo' = todo /\ t = todo[w]),
         cur' = [cur EXCEPT ![w] = c] \/ (cur' = cur /\ c = cur[w]),
         got' = [got EXCEPT ![w] = g] \/ (got' = got /\ g = got[w])
  PROVE  /\ WorkerTypes'
         /\ pc'[w] = p /\ stage'[w] = s /\ todo'[w] = t /\ cur'[w] = c /\ got'[w] = g
<1>1. /\ pc \in [Workers -> Places] /\ stage \in [Workers -> Stages]
      /\ todo \in [Workers -> SUBSET Runs] /\ cur \in [Workers -> SUBSET Runs]
      /\ got \in [Workers -> Gots]
  BY DEF WorkerTypes
<1>2. pc' \in [Workers -> Places] /\ pc'[w] = p /\ \A v \in Workers : v # w => pc'[v] = pc[v]
  BY <1>1
<1>3. stage' \in [Workers -> Stages] /\ stage'[w] = s /\ \A v \in Workers : v # w => stage'[v] = stage[v]
  BY <1>1
<1>4. todo' \in [Workers -> SUBSET Runs] /\ todo'[w] = t
  BY <1>1
<1>5. cur' \in [Workers -> SUBSET Runs] /\ cur'[w] = c /\ \A v \in Workers : v # w => cur'[v] = cur[v]
  BY <1>1
<1>6. got' \in [Workers -> Gots] /\ got'[w] = g /\ \A v \in Workers : v # w => got'[v] = got[v]
  BY <1>1
<1>7. ASSUME NEW v \in Workers PROVE WorkerFits(pc'[v], stage'[v], cur'[v], got'[v])
  <2>1. CASE v = w
    BY <2>1, <1>2, <1>3, <1>5, <1>6
  <2>2. CASE v # w
    BY <2>2, <1>2, <1>3, <1>5, <1>6 DEF WorkerTypes
  <2> QED BY <2>1, <2>2
<1> QED BY <1>2, <1>3, <1>4, <1>5, <1>6, <1>7 DEF WorkerTypes

LEMMA WorkersRest == ASSUME WorkerTypes, UNCHANGED workerVars PROVE WorkerTypes'
BY DEF WorkerTypes, workerVars

\* A report that only changes its lifecycle
LEMMA Relabelled ==
  ASSUME report \in [Runs -> Reports], NEW r \in Runs, NEW l \in Lifecycles,
         report' = [report EXCEPT ![r].lifecycle = l]
  PROVE  /\ report' \in [Runs -> Reports]
         /\ report'[r].lifecycle = l /\ report'[r].blocked = report[r].blocked
         /\ report'[r].basis = report[r].basis
         /\ \A q \in Runs : q # r => report'[q] = report[q]
<1> DEFINE v == [report[r] EXCEPT !.lifecycle = l]
<1>1. report[r] \in Reports
  OBVIOUS
<1>2. v \in Reports /\ v.lifecycle = l /\ v.blocked = report[r].blocked /\ v.basis = report[r].basis
  BY <1>1 DEF Reports
<1>3. report' = [report EXCEPT ![r] = v]
  OBVIOUS
<1> HIDE DEF v
<1> QED BY <1>2, <1>3

\* A report that goes stale, or is left
LEMMA Staled ==
  ASSUME report \in [Runs -> Reports], NEW w \in Workers, NEW r \in Runs, CheckReport(w, r)
  PROVE  /\ report' \in [Runs -> Reports]
         /\ \/ report' = report
            \/ /\ report'[r].lifecycle = "STALE" /\ report'[r].reason # "NONE"
               /\ report'[r].reason =
                    InvalidationReason(report[r].basis, got[w]["mark"], got[w]["links"], setting[w])
         /\ report'[r].blocked = report[r].blocked /\ report'[r].basis = report[r].basis
         /\ report'[r].acceptance = report[r].acceptance
         /\ \A q \in Runs : q # r => report'[q] = report[q]
<1> DEFINE why == InvalidationReason(report[r].basis, got[w]["mark"], got[w]["links"], setting[w])
<1>1. report[r] \in Reports /\ why \in Reasons
  BY DEF InvalidationReason, Reasons
<1>2. report' = IF why = "NONE" THEN report
                ELSE [report EXCEPT ![r].lifecycle = "STALE", ![r].reason = why]
  BY DEF CheckReport
<1> HIDE DEF why
<1> DEFINE v == [report[r] EXCEPT !.lifecycle = "STALE", !.reason = why]
<1>3. /\ v \in Reports /\ v.lifecycle = "STALE" /\ v.reason = why
      /\ v.blocked = report[r].blocked /\ v.basis = report[r].basis
      /\ v.acceptance = report[r].acceptance
  BY <1>1 DEF Reports, Lifecycles
<1>4. CASE why = "NONE"
  BY <1>2, <1>4
<1>5. CASE why # "NONE"
  <2>1. report' = [report EXCEPT ![r] = v]
    BY <1>2, <1>5
  <2> HIDE DEF v
  <2>2. report'[r] = v /\ report' \in [Runs -> Reports] /\ \A q \in Runs : q # r => report'[q] = report[q]
    BY <1>3, <2>1
  <2> QED BY <1>3, <1>5, <2>2 DEF why
<1> QED BY <1>4, <1>5

\* A report that is accepted
LEMMA Accepted ==
  ASSUME report \in [Runs -> Reports], NEW r \in Runs, NEW k \in Calls, Accept(r, k)
  PROVE  /\ report' \in [Runs -> Reports]
         /\ report'[r].lifecycle = "ACCEPTED" /\ report'[r].acceptance = {k}
         /\ report'[r].blocked = report[r].blocked /\ report'[r].basis = report[r].basis
         /\ report'[r].reason = report[r].reason
         /\ \A q \in Runs : q # r => report'[q] = report[q]
<1> DEFINE v == [report[r] EXCEPT !.lifecycle = "ACCEPTED", !.acceptance = {k}]
<1>1. report[r] \in Reports
  OBVIOUS
<1>2. /\ v \in Reports /\ v.lifecycle = "ACCEPTED" /\ v.acceptance = {k}
      /\ v.blocked = report[r].blocked /\ v.basis = report[r].basis /\ v.reason = report[r].reason
  BY <1>1 DEF Reports, Lifecycles
<1>3. report' = [report EXCEPT ![r] = v]
  BY DEF Accept
<1> HIDE DEF v
<1> QED BY <1>2, <1>3

\* A status, where each is one
LEMMA StatusSet ==
  ASSUME RunTypes, NEW r \in Runs, NEW st \in Statuses, status' = [status EXCEPT ![r] = st],
         UNCHANGED <<owner, expired, snapshot, linked>>
  PROVE  RunTypes'
BY DEF RunTypes

LEMMA ClientTypes ==
  ASSUME Types, NEW r \in Runs, Client(r)
  PROVE  Types'
<1>1. UNCHANGED <<world, workerVars, faults>>
  BY DEF Client, Create, Cancel, ReadForAcceptance, Accept
<1>2. DesignTypes' /\ WorkerTypes'
  BY <1>1, Typed, WorkersRest DEF world, design, DesignTypes
<1>3. RunTypes'
  <2>1. CASE Create(r) \/ Cancel(r)
    <3>1. {"QUEUED", "CANCELLATION_REQUESTED"} \subseteq Statuses
      BY DEF Statuses
    <3> QED BY <2>1, <3>1, Typed, StatusSet DEF Create, Cancel
  <2>2. CASE \E k \in Calls : ReadForAcceptance(r, k) \/ Accept(r, k)
    BY <2>2, Typed DEF ReadForAcceptance, Accept, runVars, RunTypes
  <2> QED BY <2>1, <2>2 DEF Client
<1>4. ReportTypes'
  <2>1. CASE Create(r) \/ Cancel(r) \/ \E k \in Calls : ReadForAcceptance(r, k)
    BY <2>1, Typed DEF Create, Cancel, ReadForAcceptance, ReportTypes
  <2>2. CASE \E k \in Calls : Accept(r, k)
    BY <2>2, Typed, Accepted DEF Accept, ReportTypes
  <2> QED BY <2>1, <2>2 DEF Client
<1> QED BY <1>2, <1>3, <1>4 DEF Types

LEMMA WorldChangesTypes ==
  ASSUME Types, ChangeDesign \/ ChangeOthers \/ \E w \in Workers : Restart(w) PROVE Types'
<1>1. UNCHANGED <<runVars, report, accepting, workerVars, faults>>
  BY DEF ChangeDesign, ChangeOthers, Restart
<1>2. DesignTypes'
  <2>1. CASE ChangeDesign
    BY <2>1, Typed, AssessmentAssumption DEF ChangeDesign, DesignTypes
  <2>2. CASE ChangeOthers
    BY <2>2, Typed DEF ChangeOthers, design, DesignTypes
  <2>3. CASE \E w \in Workers : Restart(w)
    BY <2>3, Typed DEF Restart, design, DesignTypes
  <2> QED BY <2>1, <2>2, <2>3
<1> QED BY <1>1, <1>2, Typed, WorkersRest DEF Types, DesignTypes, runVars, RunTypes, ReportTypes

\* What lets the leases run and stop
LEMMA ExpiredTypes ==
  ASSUME Types, NEW r \in Runs, NEW b \in BOOLEAN, expired' = [expired EXCEPT ![r] = b],
         UNCHANGED <<world, status, owner, snapshot, linked, report, accepting, workerVars>>,
         faults' \in 0 .. MaxFaults
  PROVE  Types'
<1>1. expired' \in [Runs -> BOOLEAN]
  BY Typed DEF RunTypes
<1> QED BY <1>1, Typed, WorkersRest DEF Types, world, design, DesignTypes, RunTypes, ReportTypes

LEMMA LeaseExpiresTypes == ASSUME Types, NEW r \in Runs, LeaseExpires(r) PROVE Types'
<1>1. faults' \in 0 .. MaxFaults
  BY Typed, AssessmentAssumption DEF LeaseExpires, DesignTypes
<1>2. TRUE \in BOOLEAN
  BY Zenon
<1> QED BY <1>1, <1>2, ExpiredTypes DEF LeaseExpires

LEMMA HeartbeatTypes ==
  ASSUME Types, NEW w \in Workers, NEW r \in cur[w], Heartbeat(w, r) PROVE Types'
<1>1. faults' \in 0 .. MaxFaults /\ r \in Runs
  BY Typed DEF Heartbeat, DesignTypes
<1>2. FALSE \in BOOLEAN
  BY Zenon
<1> QED BY <1>1, <1>2, ExpiredTypes DEF Heartbeat

\* A step of a worker that touches no row
LEMMA LocalTypes ==
  ASSUME Types, UNCHANGED <<world, runVars, report, accepting>>, faults' \in 0 .. MaxFaults,
         WorkerTypes'
  PROVE  Types'
BY Typed DEF Types, world, design, DesignTypes, runVars, RunTypes, ReportTypes

\* A worker that moves on with the run it has
LEMMA Moves ==
  ASSUME WorkerTypes, NEW w \in Workers, NEW p \in Places,
         p \in BusyPlaces <=> pc[w] \in BusyPlaces, p \notin {"check", "update"},
         pc' = [pc EXCEPT ![w] = p], UNCHANGED <<stage, todo, cur, got>>
  PROVE  /\ WorkerTypes'
         /\ pc'[w] = p
<1>1. /\ stage[w] \in Stages /\ todo[w] \in SUBSET Runs /\ cur[w] \in SUBSET Runs /\ got[w] \in Gots
      /\ WorkerFits(pc[w], stage[w], cur[w], got[w])
  BY DEF WorkerTypes
<1>2. WorkerFits(p, stage[w], cur[w], got[w])
  BY <1>1 DEF WorkerFits
<1> QED BY <1>1, <1>2, WorkerSteps

LEMMA Leaves ==
  ASSUME WorkerTypes, NEW w \in Workers, Leave(w), UNCHANGED <<stage, todo>>
  PROVE  WorkerTypes' /\ pc'[w] = "listed" /\ cur'[w] = {} /\ todo'[w] = todo[w]
<1>1. stage[w] \in Stages /\ todo[w] \in SUBSET Runs /\ "listed" \in Places
  BY DEF WorkerTypes, Places
<1>2. WorkerFits("listed", stage[w], {}, Nothing)
  BY DEF WorkerFits, BusyPlaces
<1>3. /\ pc' = [pc EXCEPT ![w] = "listed"] /\ cur' = [cur EXCEPT ![w] = {}]
      /\ got' = [got EXCEPT ![w] = Nothing] /\ Nothing \in Gots
  BY NothingIsRead DEF Leave
<1> HIDE DEF Nothing
<1> QED BY <1>1, <1>2, <1>3, WorkerSteps

-----------------------------------------------------------------------------
(* The steps of a tick keep the types.                                     *)

LEMMA StartTickTypes == ASSUME Types, NEW w \in Workers, StartTick(w) PROVE Types'
<1>1. "scanning" \in Places
  BY DEF Places
<1>2. WorkerTypes'
  BY <1>1, Typed, Moves DEF StartTick, BusyPlaces
<1> QED BY <1>2, Typed, LocalTypes DEF StartTick, DesignTypes

LEMMA ReadForScanTypes == ASSUME Types, NEW w \in Workers, ReadForScan(w) PROVE Types'
<1>1. PICK p \in {"list", "mark", "links"} :
        /\ got' = [got EXCEPT ![w] = Put(@, p,
             CASE p = "mark" -> catalog [] p = "links" -> links [] OTHER -> 0)]
        /\ IF p = "list"
           THEN \E S \in SUBSET Runs : Listed(S) /\ todo' = [todo EXCEPT ![w] = S]
           ELSE UNCHANGED todo
        /\ pc' = [pc EXCEPT ![w] =
             IF {"list", "mark", "links"} \subseteq DOMAIN got[w] \cup {p}
             THEN "checking" ELSE "scanning"]
  BY DEF ReadForScan
<1> DEFINE v == CASE p = "mark" -> catalog [] p = "links" -> links [] OTHER -> 0
           q == IF {"list", "mark", "links"} \subseteq DOMAIN got[w] \cup {p}
                THEN "checking" ELSE "scanning"
           g == Put(got[w], p, v)
<1>2. v \in Nat /\ p \in Parts
  BY Typed DEF DesignTypes, Parts
<1> HIDE DEF v
<1>3. g \in Gots
  BY <1>2, Typed, PutIsRead
<1>4. q \in Places /\ q \notin BusyPlaces
  BY DEF Places, BusyPlaces
<1>5. /\ stage[w] \in Stages
      /\ \E t \in SUBSET Runs : todo' = [todo EXCEPT ![w] = t] \/ (todo' = todo /\ t = todo[w])
  BY <1>1, Typed
<1> PICK t \in SUBSET Runs : todo' = [todo EXCEPT ![w] = t] \/ (todo' = todo /\ t = todo[w])
  BY <1>5
<1>6. cur[w] = {} /\ pc[w] = "scanning"
  BY Typed DEF ReadForScan, WorkerFits, BusyPlaces
<1>7. WorkerFits(q, stage[w], {}, g)
  <2>1. q \notin {"check", "update"}
    OBVIOUS
  <2> QED BY <1>4, <2>1 DEF WorkerFits
<1>8. /\ pc' = [pc EXCEPT ![w] = q] /\ got' = [got EXCEPT ![w] = g]
      /\ UNCHANGED <<stage, cur>>
  BY <1>1, Typed DEF ReadForScan, WorkerTypes, v
<1> HIDE DEF q, g
<1>9. WorkerTypes'
  BY <1>3, <1>4, <1>5, <1>6, <1>7, <1>8, Typed, WorkerSteps
<1> QED BY <1>9, Typed, LocalTypes DEF ReadForScan, DesignTypes

LEMMA CheckReportTypes ==
  ASSUME Types, NEW w \in Workers, NEW r \in todo[w], CheckReport(w, r) PROVE Types'
<1>1. r \in Runs
  BY Typed
<1>2. report' \in [Runs -> Reports]
  BY <1>1, Typed, Staled DEF ReportTypes
<1>3. WorkerTypes'
  <2> DEFINE t == todo[w] \ {r}
  <2>1. t \in SUBSET Runs /\ todo' = [todo EXCEPT ![w] = t] /\ UNCHANGED <<pc, stage, cur, got>>
    BY Typed DEF CheckReport
  <2> HIDE DEF t
  <2> QED BY <2>1, Typed, WorkerSteps
<1> QED BY <1>2, <1>3, Typed DEF CheckReport, Types, world, design, DesignTypes, runVars, RunTypes, ReportTypes

LEMMA ListRunsTypes == ASSUME Types, NEW w \in Workers, ListRuns(w) PROVE Types'
<1> DEFINE t == {r \in Runs : Runnable(r)}
<1>1. t \in SUBSET Runs /\ "listed" \in Places /\ stage[w] \in Stages
  BY Typed DEF Places
<1>2. cur[w] = {}
  BY Typed DEF ListRuns, WorkerFits, BusyPlaces
<1>3. WorkerFits("listed", stage[w], {}, Nothing)
  BY DEF WorkerFits, BusyPlaces
<1>4. /\ todo' = [todo EXCEPT ![w] = t] /\ pc' = [pc EXCEPT ![w] = "listed"]
      /\ got' = [got EXCEPT ![w] = Nothing] /\ UNCHANGED <<stage, cur>> /\ Nothing \in Gots
  BY NothingIsRead DEF ListRuns
<1> HIDE DEF t, Nothing
<1>5. WorkerTypes'
  BY <1>1, <1>2, <1>3, <1>4, Typed, WorkerSteps
<1> QED BY <1>5, Typed, LocalTypes DEF ListRuns, DesignTypes

LEMMA EndTickTypes == ASSUME Types, NEW w \in Workers, EndTick(w) PROVE Types'
<1>1. "idle" \in Places
  BY DEF Places
<1>2. WorkerTypes'
  BY <1>1, Typed, Moves DEF EndTick, BusyPlaces
<1> QED BY <1>2, Typed, LocalTypes DEF EndTick, DesignTypes

LEMMA LookTypes == ASSUME Types, NEW w \in Workers, NEW r \in todo[w], Look(w, r) PROVE Types'
<1> DEFINE t == todo[w] \ {r}
<1>1. t \in SUBSET Runs /\ todo' = [todo EXCEPT ![w] = t] /\ r \in Runs /\ UNCHANGED <<stage, got>>
  BY Typed DEF Look
<1>2. WorkerTypes'
  <2> HIDE DEF t
  <2>1. CASE UNCHANGED <<pc, cur>>
    BY <1>1, <2>1, Typed, WorkerSteps
  <2>2. CASE pc' = [pc EXCEPT ![w] = "claiming"] /\ cur' = [cur EXCEPT ![w] = {r}]
    <3>1. "claiming" \in Places /\ {r} \in SUBSET Runs /\ WorkerFits("claiming", stage[w], {r}, got[w])
      BY <1>1 DEF Places, WorkerFits, BusyPlaces
    <3> QED BY <1>1, <2>2, <3>1, Typed, WorkerSteps
  <2> QED BY <2>1, <2>2 DEF Look
<1> QED BY <1>2, Typed, LocalTypes DEF Look, DesignTypes

LEMMA ClaimTypes == ASSUME Types, NEW w \in Workers, NEW r \in cur[w], Claim(w, r) PROVE Types'
<1>1. r \in Runs /\ "RUNNING" \in Statuses /\ "check" \in Places /\ "RESOLVING_EVIDENCE" \in Stages
  BY Typed DEF Statuses, Places, Stages
<1>2. RunTypes'
  <2>1. expired' \in [Runs -> BOOLEAN]
    <3>1. FALSE \in BOOLEAN
      BY Zenon
    <3> QED BY <3>1, Typed DEF Claim, RunTypes
  <2> QED BY <1>1, <2>1, Typed DEF Claim, RunTypes
<1>3. WorkerTypes'
  <2>1. WorkerFits("check", "RESOLVING_EVIDENCE", cur[w], got[w])
    BY Typed DEF Claim, WorkerFits, BusyPlaces
  <2> QED BY <1>1, <2>1, Typed, WorkerSteps DEF Claim
<1> QED BY <1>2, <1>3, Typed DEF Claim, Types, world, design, DesignTypes, ReportTypes

\* A worker enters the handler of a stage, or is done.
LEMMA Enters ==
  ASSUME WorkerTypes, NEW w \in Workers, pc[w] \in BusyPlaces, EnterStage(w), UNCHANGED <<stage, todo>>
  PROVE  WorkerTypes'
<1>1. CASE stage[w] = "COMPLETE"
  BY <1>1, Leaves DEF EnterStage
<1>2. CASE stage[w] # "COMPLETE"
  <2> DEFINE p == CASE stage[w] = "RESOLVING_EVIDENCE" -> "reading"
                    [] stage[w] = "ANALYZING" -> "evaluating"
                    [] OTHER -> "reviewing"
  <2>1. p \in {"reading", "evaluating", "reviewing"}
    OBVIOUS
  <2>2. pc' = [pc EXCEPT ![w] = p] /\ UNCHANGED <<cur, got>>
    BY <1>2 DEF EnterStage
  <2> HIDE DEF p
  <2>3. p \in Places /\ p \in BusyPlaces /\ p \notin {"check", "update"}
    BY <2>1 DEF Places, BusyPlaces
  <2> QED BY <2>2, <2>3, Moves
<1> QED BY <1>1, <1>2

LEMMA FencedReadTypes ==
  ASSUME Types, NEW w \in Workers, NEW r \in cur[w], FencedRead(w, r) PROVE Types'
<1>1. UNCHANGED <<stage, todo>> /\ pc[w] = "check"
  BY DEF FencedRead
<1>2. WorkerTypes'
  <2>1. CASE status[r] = "CANCELLED"
    BY <1>1, <2>1, Typed, Leaves DEF FencedRead
  <2>2. CASE status[r] # "CANCELLED"
    <3> DEFINE p == IF status[r] = "CANCELLATION_REQUESTED" THEN "cancel" ELSE "update"
    <3>1. p \in Places
      BY DEF Places
    <3>2. WorkerFits(p, stage[w], cur[w], got[w])
      BY <1>1, Typed DEF WorkerFits, BusyPlaces
    <3>3. pc' = [pc EXCEPT ![w] = p] /\ UNCHANGED <<cur, got>>
      BY <2>2 DEF FencedRead
    <3> HIDE DEF p
    <3> QED BY <1>1, <3>1, <3>2, <3>3, Typed, WorkerSteps
  <2> QED BY <2>1, <2>2
<1> QED BY <1>2, Typed, LocalTypes DEF FencedRead, DesignTypes

LEMMA ReadIsEvidence ==
  ASSUME Types, NEW w \in Workers, pc[w] = "update", stage[w] = "ANALYZING"
  PROVE  \E e \in Evidence : Read(w) = {e}
<1>1. {"rows", "mark", "links"} \subseteq DOMAIN got[w] /\ got[w] \in Gots
  BY Typed DEF WorkerFits
<1>2. got[w]["rows"] \in Nat /\ got[w]["mark"] \in Nat /\ got[w]["links"] \in Nat
  BY <1>1 DEF Gots
<1> QED BY <1>2 DEF Read, Evidence

LEMMA UpdateTypes == ASSUME Types, NEW w \in Workers, NEW r \in cur[w], Update(w, r) PROVE Types'
<1>1. /\ UNCHANGED <<world, owner, expired, report, accepting, stage, todo, faults>>
      /\ pc[w] = "update" /\ r \in Runs
  BY Typed DEF Update
<1>2. CASE Owns(w, r)
  <2>1. /\ status' = [status EXCEPT ![r] = stage[w]]
        /\ snapshot' = IF stage[w] = "ANALYZING" THEN [snapshot EXCEPT ![r] = Read(w)] ELSE snapshot
        /\ linked' = IF stage[w] = "REVIEWING" THEN linked \cup {r} ELSE linked
        /\ EnterStage(w)
    BY <1>2 DEF Update
  <2>2. stage[w] \in Statuses
    BY Typed DEF Statuses
  <2>3. /\ snapshot' \in [Runs -> SUBSET Evidence]
        /\ \A q \in Runs : snapshot'[q] = {} \/ \E e \in Evidence : snapshot'[q] = {e}
    <3>1. CASE stage[w] = "ANALYZING"
      <4> DEFINE s == Read(w)
      <4>1. snapshot' = [snapshot EXCEPT ![r] = s]
        BY <2>1, <3>1
      <4>2. \E e \in Evidence : s = {e}
        BY <1>1, <3>1, ReadIsEvidence
      <4> HIDE DEF s
      <4> QED BY <4>1, <4>2, <1>1, Typed DEF RunTypes
    <3>2. CASE stage[w] # "ANALYZING"
      BY <2>1, <3>2, Typed DEF RunTypes
    <3> QED BY <3>1, <3>2
  <2>4. RunTypes'
    BY <1>1, <2>1, <2>2, <2>3, Typed DEF RunTypes
  <2>5. WorkerTypes'
    BY <1>1, <2>1, Typed, Enters DEF BusyPlaces
  <2> QED BY <1>1, <2>4, <2>5, Typed DEF Types, world, design, DesignTypes, ReportTypes
<1>3. CASE ~Owns(w, r)
  <2>1. Leave(w) /\ UNCHANGED runVars
    BY <1>1, <1>3 DEF Update, runVars
  <2> QED BY <1>1, <2>1, Typed, Leaves, LocalTypes DEF DesignTypes
<1> QED BY <1>2, <1>3

LEMMA CancelUpdateTypes ==
  ASSUME Types, NEW w \in Workers, NEW r \in cur[w], CancelUpdate(w, r) PROVE Types'
<1>1. /\ UNCHANGED <<world, owner, expired, snapshot, linked, report, accepting, stage, todo, faults>>
      /\ pc[w] = "cancel" /\ r \in Runs /\ "CANCELLED" \in Statuses
  BY Typed DEF CancelUpdate, Statuses
<1>2. CASE Owns(w, r)
  <2>1. status' = [status EXCEPT ![r] = "CANCELLED"] /\ EnterStage(w)
    BY <1>2 DEF CancelUpdate
  <2>2. RunTypes'
    BY <1>1, <2>1, Typed, StatusSet
  <2>3. WorkerTypes'
    BY <1>1, <2>1, Typed, Enters DEF BusyPlaces
  <2> QED BY <1>1, <2>2, <2>3, Typed DEF Types, world, design, DesignTypes, ReportTypes
<1>3. CASE ~Owns(w, r)
  <2>1. Leave(w) /\ UNCHANGED runVars
    BY <1>1, <1>3 DEF CancelUpdate, runVars
  <2> QED BY <1>1, <2>1, Typed, Leaves, LocalTypes DEF DesignTypes
<1> QED BY <1>2, <1>3

\* A handler ends, and the next stage is to be entered.
LEMMA NextStages ==
  ASSUME Types, NEW w \in Workers, pc[w] \in BusyPlaces, NEW s \in Stages, NextStage(w, s),
         NEW g \in Gots, got' = [got EXCEPT ![w] = g] \/ (got' = got /\ g = got[w]),
         s = "ANALYZING" => {"rows", "mark", "links"} \subseteq DOMAIN g, UNCHANGED <<todo, cur>>
  PROVE  WorkerTypes'
<1>1. "check" \in Places
  BY DEF Places
<1>2. WorkerFits("check", s, cur[w], g)
  BY Typed DEF WorkerFits, BusyPlaces
<1> QED BY <1>1, <1>2, Typed, WorkerSteps DEF NextStage

LEMMA ReadEvidenceTypes ==
  ASSUME Types, NEW w \in Workers, NEW r \in cur[w], ReadEvidence(w, r) PROVE Types'
<1>1. UNCHANGED <<world, runVars, report, accepting, todo, cur, faults>> /\ pc[w] = "reading"
  BY DEF ReadEvidence
<1>2. WorkerTypes'
  <2>1. ASSUME NEW p \in {"rows", "mark"},
               got' = [got EXCEPT ![w] = Put(@, p, IF p = "rows" THEN rows ELSE catalog)],
               UNCHANGED <<pc, stage>>
        PROVE  WorkerTypes'
    <3> DEFINE g == Put(got[w], p, IF p = "rows" THEN rows ELSE catalog)
    <3>1. g \in Gots /\ got' = [got EXCEPT ![w] = g]
      BY <2>1, Typed, PutIsRead DEF DesignTypes, Parts
    <3> HIDE DEF g
    <3>2. WorkerFits(pc[w], stage[w], cur[w], g)
      BY <1>1, Typed DEF WorkerFits
    <3> QED BY <1>1, <2>1, <3>1, <3>2, Typed, WorkerSteps
  <2>2. ASSUME {"rows", "mark"} \subseteq DOMAIN got[w],
               got' = [got EXCEPT ![w] = Put(@, "links", EventsRead)], NextStage(w, "ANALYZING")
        PROVE  WorkerTypes'
    <3> DEFINE g == Put(got[w], "links", EventsRead)
    <3>1. EventsRead \in Nat
      BY Typed, AssessmentAssumption DEF EventsRead, DesignTypes
    <3>2. g \in Gots /\ DOMAIN g = DOMAIN got[w] \cup {"links"} /\ got' = [got EXCEPT ![w] = g]
      BY <2>2, <3>1, Typed, PutIsRead DEF Parts
    <3> HIDE DEF g
    <3> QED BY <1>1, <2>2, <3>2, NextStages DEF BusyPlaces, Stages
  <2> QED BY <2>1, <2>2 DEF ReadEvidence
<1> QED BY <1>1, <1>2, Typed, LocalTypes DEF DesignTypes

LEMMA ThrowsTypes ==
  ASSUME Types, NEW w \in Workers, pc[w] \in BusyPlaces, pc' = [pc EXCEPT ![w] = "failed"],
         UNCHANGED <<stage, todo, cur, got>>
  PROVE  WorkerTypes'
BY Typed, Moves DEF Places, BusyPlaces

LEMMA EvaluateTypes == ASSUME Types, NEW w \in Workers, NEW r \in cur[w], Evaluate(w, r) PROVE Types'
<1>1. /\ UNCHANGED <<world, runVars, accepting, todo, cur, got, faults>> /\ pc[w] \in BusyPlaces
      /\ r \in Runs
  BY Typed DEF Evaluate, BusyPlaces
<1>2. CASE snapshot[r] = {}
  <2>1. pc' = [pc EXCEPT ![w] = "failed"] /\ UNCHANGED <<stage, report>>
    BY <1>2 DEF Evaluate, Throw
  <2> QED BY <1>1, <2>1, Typed, ThrowsTypes, LocalTypes DEF DesignTypes
<1>3. CASE snapshot[r] # {}
  <2>1. PICK b \in BOOLEAN :
          report' = [report EXCEPT ![r] =
            [lifecycle |-> "ASSESSED", blocked |-> b, basis |-> snapshot[r],
             reason |-> report[r].reason, acceptance |-> {}]]
    BY <1>3 DEF Evaluate
  <2> DEFINE v == [lifecycle |-> "ASSESSED", blocked |-> b, basis |-> snapshot[r],
             reason |-> report[r].reason, acceptance |-> {}]
  <2>2. v \in Reports
    BY <1>1, Typed DEF Reports, Lifecycles, RunTypes, ReportTypes
  <2> HIDE DEF v
  <2>3. report' \in [Runs -> Reports]
    BY <2>1, <2>2, Typed DEF v, ReportTypes
  <2>4. NextStage(w, "REVIEWING") /\ "REVIEWING" \in Stages
    BY <1>3 DEF Evaluate, Stages
  <2>5. WorkerTypes'
    BY <1>1, <2>4, Typed, NextStages
  <2> QED BY <1>1, <2>3, <2>5, Typed DEF Types, world, design, DesignTypes, runVars, RunTypes, ReportTypes
<1> QED BY <1>2, <1>3

LEMMA ReviewTypes == ASSUME Types, NEW w \in Workers, NEW r \in cur[w], Review(w, r) PROVE Types'
<1>1. /\ UNCHANGED <<world, runVars, accepting, todo, cur, got, faults>> /\ pc[w] \in BusyPlaces
      /\ r \in Runs
  BY Typed DEF Review, BusyPlaces
<1>2. CASE ~Reviewable(r)
  <2>1. pc' = [pc EXCEPT ![w] = "failed"] /\ UNCHANGED <<stage, report>>
    BY <1>2 DEF Review, Throw
  <2> QED BY <1>1, <2>1, Typed, ThrowsTypes, LocalTypes DEF DesignTypes
<1>3. CASE Reviewable(r)
  <2>1. report' = [report EXCEPT ![r].lifecycle = "REVIEWED"] /\ NextStage(w, "COMPLETE")
    BY <1>3 DEF Review
  <2>2. "REVIEWED" \in Lifecycles /\ "COMPLETE" \in Stages
    BY DEF Lifecycles, Stages
  <2>3. report' \in [Runs -> Reports]
    BY <1>1, <2>1, <2>2, Typed, Relabelled DEF ReportTypes
  <2>4. WorkerTypes'
    BY <1>1, <2>1, <2>2, Typed, NextStages
  <2> QED BY <1>1, <2>3, <2>4, Typed DEF Types, world, design, DesignTypes, runVars, RunTypes, ReportTypes
<1> QED BY <1>2, <1>3

LEMMA FailRunTypes == ASSUME Types, NEW w \in Workers, NEW r \in cur[w], FailRun(w, r) PROVE Types'
<1>1. r \in Runs /\ "FAILED" \in Statuses
  BY Typed DEF Statuses
<1>2. RunTypes'
  BY <1>1, Typed DEF FailRun, RunTypes
<1>3. WorkerTypes'
  BY Typed, Leaves DEF FailRun
<1> QED BY <1>2, <1>3, Typed DEF FailRun, Types, world, design, DesignTypes, ReportTypes

LEMMA StopsTypes ==
  ASSUME Types, NEW w \in Workers, StatementFails(w) \/ Crash(w) PROVE Types'
<1>1. faults' \in 0 .. MaxFaults
  BY Typed, AssessmentAssumption DEF StatementFails, Crash, DesignTypes
<1>2. CASE StatementFails(w)
  BY <1>1, <1>2, ThrowsTypes, LocalTypes DEF StatementFails, BusyPlaces
<1>3. CASE Crash(w)
  <2>1. "idle" \in Places /\ stage[w] \in Stages /\ WorkerFits("idle", stage[w], {}, Nothing)
    BY Typed DEF Places, WorkerFits, BusyPlaces
  <2>2. /\ pc' = [pc EXCEPT ![w] = "idle"] /\ todo' = [todo EXCEPT ![w] = {}]
        /\ cur' = [cur EXCEPT ![w] = {}] /\ got' = [got EXCEPT ![w] = Nothing]
        /\ UNCHANGED stage /\ Nothing \in Gots
    BY <1>3, NothingIsRead DEF Crash
  <2> HIDE DEF Nothing
  <2>3. WorkerTypes'
    BY <2>1, <2>2, Typed, WorkerSteps
  <2> QED BY <1>1, <1>3, <2>3, LocalTypes DEF Crash
<1> QED BY <1>2, <1>3

LEMMA TypesNext == ASSUME Types, [Next]_vars PROVE Types'
<1>1. ASSUME NEW w \in Workers, Tick(w) PROVE Types'
  <2>1. CASE StartTick(w) \/ ReadForScan(w) \/ ListRuns(w) \/ EndTick(w)
    BY <2>1, StartTickTypes, ReadForScanTypes, ListRunsTypes, EndTickTypes
  <2>2. CASE \E r \in todo[w] : CheckReport(w, r) \/ Look(w, r)
    BY <2>2, CheckReportTypes, LookTypes
  <2>3. CASE \E r \in cur[w] : Claim(w, r) \/ FencedRead(w, r) \/ Update(w, r) \/ CancelUpdate(w, r)
    BY <2>3, ClaimTypes, FencedReadTypes, UpdateTypes, CancelUpdateTypes
  <2>4. CASE \E r \in cur[w] : ReadEvidence(w, r) \/ Evaluate(w, r) \/ Review(w, r) \/ FailRun(w, r)
    BY <2>4, ReadEvidenceTypes, EvaluateTypes, ReviewTypes, FailRunTypes
  <2> QED BY <1>1, <2>1, <2>2, <2>3, <2>4 DEF Tick
<1>2. CASE UNCHANGED vars
  <2>1. UNCHANGED <<world, runVars, report, accepting, workerVars, faults>>
    BY <1>2 DEF vars
  <2> QED BY <2>1, Typed, WorkersRest, LocalTypes DEF DesignTypes
<1> QED BY <1>1, <1>2, ClientTypes, WorldChangesTypes, LeaseExpiresTypes, HeartbeatTypes, StopsTypes
     DEF Next

LEMMA TypesHold == Spec => []Types
<1> QED BY TypesInit, TypesNext, PTL DEF Spec

LEMMA TypesFollow == ASSUME Types PROVE TypeOK
<1>1. ASSUME NEW r \in Runs PROVE snapshot[r] \subseteq Evidence /\ Cardinality(snapshot[r]) <= 1
  <2>1. CASE snapshot[r] = {}
    BY <2>1, FS_EmptySet
  <2>2. CASE \E e \in Evidence : snapshot[r] = {e}
    <3>1. PICK e \in Evidence : snapshot[r] = {e}
      BY <2>2
    <3>2. Cardinality(snapshot[r]) = 1
      BY <3>1, FS_Singleton
    <3> QED BY <3>1, <3>2
  <2> QED BY <2>1, <2>2, Typed DEF RunTypes
<1>2. ASSUME NEW w \in Workers PROVE Cardinality(cur[w]) = IF Busy(w) THEN 1 ELSE 0
  <2>1. Busy(w) <=> pc[w] \in BusyPlaces
    BY DEF Busy, Executing, BusyPlaces
  <2>2. CASE Busy(w)
    <3>1. PICK r \in Runs : cur[w] = {r}
      BY <2>1, <2>2, Typed DEF WorkerFits
    <3>2. Cardinality(cur[w]) = 1
      BY <3>1, FS_Singleton
    <3> QED BY <3>2, <2>2
  <2>3. CASE ~Busy(w)
    <3>1. cur[w] = {}
      BY <2>1, <2>3, Typed DEF WorkerFits
    <3>2. Cardinality(cur[w]) = 0
      BY <3>1, FS_EmptySet
    <3> QED BY <3>2, <2>3
  <2> QED BY <2>2, <2>3
<1>3. ASSUME NEW w \in Workers PROVE DOMAIN got[w] \subseteq Parts
  <2>1. got[w] \in Gots
    BY Typed
  <2> QED BY <2>1 DEF Gots
<1> QED BY <1>1, <1>2, <1>3, Typed DEF TypeOK, DesignTypes, RunTypes, ReportTypes, WorkerTypes

\* The rows of runs and reports, and what a worker has read, keep their types,
\* for any number of workers, clients and failures.
THEOREM AssessmentTypesAreKept == Spec => []TypeOK
<1>1. Types => TypeOK
  BY TypesFollow
<1> QED BY <1>1, TypesHold, PTL

-----------------------------------------------------------------------------
(* One worker                                                              *)

OneWorker == \A v, w \in Workers : v = w

\* Nothing has been written or accepted for the run.
Fresh(r) == report[r].lifecycle = "NONE" /\ \A k \in Calls : <<r, k>> \notin accepting

Written(r) == report[r].basis = snapshot[r] /\ snapshot[r] # {}

Unstarted == \A r \in Runs : status[r] \in {"NONE", "QUEUED"} => Fresh(r)

\* A worker checks reports that are there, and works on runs that it has not
\* taken up before.
ListFits(place, listed, held) ==
  \A r \in listed :
    IF place \in {"idle", "scanning", "checking"} THEN report[r].lifecycle # "NONE"
    ELSE Fresh(r) /\ r \notin held

\* What a worker has done for its run by the stage it is in
RunFits(place, stg, r) ==
  /\ IF place = "claiming" THEN Fresh(r) ELSE status[r] \notin {"NONE", "QUEUED", "COMPLETE"}
  /\ place = "reading" => stg = "RESOLVING_EVIDENCE"
  /\ place = "evaluating" => stg = "ANALYZING"
  /\ place = "reviewing" => stg = "REVIEWING"
  /\ place \notin {"claiming", "failed"} =>
       /\ stg \in {"RESOLVING_EVIDENCE", "ANALYZING"} => Fresh(r)
       /\ stg = "REVIEWING" => Written(r) /\ report[r].lifecycle = "ASSESSED"
       /\ stg = "COMPLETE" =>
            r \in linked /\ Written(r) /\ report[r].lifecycle \in {"REVIEWED", "ACCEPTED"}

WorkFits ==
  \A w \in Workers :
    /\ ListFits(pc[w], todo[w], cur[w])
    /\ \A r \in cur[w] : RunFits(pc[w], stage[w], r)

\* Who has read a report as acceptable still finds it reviewed.
AcceptanceFits ==
  \A r \in Runs :
    /\ \A k \in Calls : <<r, k>> \in accepting =>
         report[r].lifecycle \in {"REVIEWED", "ACCEPTED", "STALE"} /\ ~report[r].blocked
    /\ report[r].lifecycle = "ACCEPTED" => ~report[r].blocked

RowsFit == Unstarted /\ AcceptanceFits /\ CompletedIsReviewed

One == Types /\ WorkFits /\ RowsFit

LEMMA OneInit == Init => One
<1> SUFFICES ASSUME Init PROVE One
  OBVIOUS
<1>1. \A r \in Runs : report[r].lifecycle = "NONE"
  BY DEF Init, NoReport
<1>2. WorkFits
  BY DEF Init, WorkFits, ListFits
<1>3. RowsFit
  BY <1>1 DEF Init, RowsFit, Unstarted, AcceptanceFits, CompletedIsReviewed, Fresh
<1> QED BY <1>2, <1>3, TypesInit DEF One

\* The one worker decides.
LEMMA WorkerFollows ==
  ASSUME OneWorker, NEW w \in Workers, ListFits(pc[w], todo[w], cur[w])',
         \A r \in cur'[w] : RunFits(pc[w], stage[w], r)'
  PROVE  WorkFits'
BY DEF OneWorker, WorkFits

LEMMA Held ==
  ASSUME One, NEW w \in Workers
  PROVE  /\ Types /\ RowsFit /\ ListFits(pc[w], todo[w], cur[w])
         /\ \A r \in cur[w] : RunFits(pc[w], stage[w], r)
         /\ pc \in [Workers -> Places] /\ stage \in [Workers -> Stages]
         /\ todo \in [Workers -> SUBSET Runs] /\ cur \in [Workers -> SUBSET Runs]
         /\ \A r \in cur[w] : r \in Runs /\ cur[w] = {r}
         /\ pc[w] \notin BusyPlaces => cur[w] = {}
BY Typed DEF One, WorkFits, WorkerTypes, WorkerFits

LEMMA RowsRest ==
  ASSUME RowsFit, UNCHANGED <<status, snapshot, linked, report, accepting>>
  PROVE  RowsFit'
BY DEF RowsFit, Unstarted, AcceptanceFits, CompletedIsReviewed, Fresh

-----------------------------------------------------------------------------
(* Clients                                                                 *)

LEMMA CreateOne == ASSUME One, NEW r \in Runs, Create(r) PROVE WorkFits' /\ RowsFit'
<1>1. status \in [Runs -> Statuses]
  BY Typed DEF One, RunTypes
<1>2. \A q \in Runs : status'[q] = IF q = r THEN "QUEUED" ELSE status[q]
  BY <1>1 DEF Create
<1>3. UNCHANGED <<snapshot, linked, report, accepting, pc, stage, todo, cur>>
  BY DEF Create, workerVars
<1>4. RowsFit'
  BY <1>2, <1>3 DEF Create, One, RowsFit, Unstarted, AcceptanceFits, CompletedIsReviewed, Fresh
<1>5. ASSUME NEW w \in Workers, NEW q \in cur[w] PROVE RunFits(pc[w], stage[w], q)'
  BY <1>2, <1>3, <1>5, Held DEF Create, RunFits, Fresh, Written
<1>6. WorkFits'
  BY <1>3, <1>5 DEF One, WorkFits, ListFits, Fresh
<1> QED BY <1>4, <1>6

LEMMA CancelOne == ASSUME One, NEW r \in Runs, Cancel(r) PROVE WorkFits' /\ RowsFit'
<1>1. status \in [Runs -> Statuses]
  BY Typed DEF One, RunTypes
<1>2. \A q \in Runs : status'[q] = IF q = r THEN "CANCELLATION_REQUESTED" ELSE status[q]
  BY <1>1 DEF Cancel
<1>3. UNCHANGED <<snapshot, linked, report, accepting, pc, stage, todo, cur>>
  BY DEF Cancel, workerVars
<1>4. RowsFit'
  BY <1>2, <1>3 DEF One, RowsFit, Unstarted, AcceptanceFits, CompletedIsReviewed, Fresh
<1>5. ASSUME NEW w \in Workers, NEW q \in cur[w] PROVE RunFits(pc[w], stage[w], q)'
  BY <1>2, <1>3, <1>5, Held DEF RunFits, Fresh, Written
<1>6. WorkFits'
  BY <1>3, <1>5 DEF One, WorkFits, ListFits, Fresh
<1> QED BY <1>4, <1>6

LEMMA ReadForAcceptanceOne ==
  ASSUME One, NEW r \in Runs, NEW k \in Calls, ReadForAcceptance(r, k) PROVE WorkFits' /\ RowsFit'
<1>1. UNCHANGED <<status, snapshot, linked, report, pc, stage, todo, cur>>
  BY DEF ReadForAcceptance, workerVars, runVars
<1>2. accepting' = accepting \cup {<<r, k>>} /\ report[r].lifecycle = "REVIEWED" /\ ~report[r].blocked
  BY DEF ReadForAcceptance, Acceptable
<1>3. RowsFit'
  BY <1>1, <1>2 DEF One, RowsFit, Unstarted, AcceptanceFits, CompletedIsReviewed, Fresh
<1>4. ASSUME NEW w \in Workers, NEW q \in cur[w] PROVE RunFits(pc[w], stage[w], q)'
  BY <1>1, <1>2, <1>4, Held DEF RunFits, Fresh, Written
<1>5. WorkFits'
  BY <1>1, <1>2, <1>4 DEF One, WorkFits, ListFits, Fresh
<1> QED BY <1>3, <1>5

LEMMA AcceptOne ==
  ASSUME One, NEW r \in Runs, NEW k \in Calls, Accept(r, k) PROVE WorkFits' /\ RowsFit'
<1>1. UNCHANGED <<status, snapshot, linked, pc, stage, todo, cur>>
  BY DEF Accept, workerVars, runVars
<1>2. /\ accepting' = accepting \ {<<r, k>>} /\ report[r].lifecycle \in {"REVIEWED", "ACCEPTED", "STALE"}
      /\ ~report[r].blocked
  BY DEF Accept, One, RowsFit, AcceptanceFits
<1>3. /\ report'[r].lifecycle = "ACCEPTED" /\ report'[r].blocked = report[r].blocked
      /\ report'[r].basis = report[r].basis
      /\ \A q \in Runs : q # r => report'[q] = report[q]
  <2>1. report \in [Runs -> Reports]
    BY Typed DEF One, ReportTypes
  <2> QED BY <2>1, Accepted
<1>4. RowsFit'
  BY <1>1, <1>2, <1>3 DEF One, RowsFit, Unstarted, AcceptanceFits, CompletedIsReviewed, Fresh
<1>5. ASSUME NEW w \in Workers, NEW q \in cur[w] PROVE RunFits(pc[w], stage[w], q)'
  <2>1. q \in Runs /\ RunFits(pc[w], stage[w], q)
    BY <1>5, Held
  <2>2. CASE q # r
    BY <1>1, <1>2, <1>3, <2>1, <2>2 DEF RunFits, Fresh, Written
  <2>3. CASE q = r
    BY <1>1, <1>2, <1>3, <2>1, <2>3 DEF RunFits, Fresh, Written, Accept
  <2> QED BY <2>2, <2>3
<1>6. ASSUME NEW w \in Workers PROVE ListFits(pc[w], todo[w], cur[w])'
  BY <1>1, <1>2, <1>3, Held DEF ListFits, Fresh
<1>7. WorkFits'
  BY <1>1, <1>5, <1>6 DEF WorkFits
<1> QED BY <1>4, <1>7

-----------------------------------------------------------------------------
(* The worker                                                              *)

\* A step of the worker that writes no row
LEMMA LocalOne ==
  ASSUME One, OneWorker, NEW w \in Workers, UNCHANGED <<status, snapshot, linked, report, accepting>>,
         \A r \in todo'[w] :
           IF pc'[w] \in {"idle", "scanning", "checking"} THEN report[r].lifecycle # "NONE"
           ELSE Fresh(r) /\ r \notin cur'[w],
         \A r \in cur'[w] : RunFits(pc'[w], stage'[w], r)
  PROVE  WorkFits' /\ RowsFit'
<1>1. ListFits(pc[w], todo[w], cur[w])'
  BY DEF ListFits, Fresh
<1>2. \A r \in cur'[w] : RunFits(pc[w], stage[w], r)'
  BY DEF RunFits, Fresh, Written
<1> QED BY <1>1, <1>2, Held, WorkerFollows, RowsRest

LEMMA ScansOne ==
  ASSUME One, OneWorker, NEW w \in Workers,
         StartTick(w) \/ ReadForScan(w) \/ ListRuns(w) \/ EndTick(w)
  PROVE  WorkFits' /\ RowsFit'
<1>1. UNCHANGED <<status, snapshot, linked, report, accepting, cur>> /\ cur[w] = {}
  BY Held DEF StartTick, ReadForScan, ListRuns, EndTick, runVars, BusyPlaces
<1>2. CASE StartTick(w)
  <2>1. pc[w] = "idle" /\ pc'[w] = "scanning" /\ todo' = todo
    BY <1>2, Held DEF StartTick
  <2> QED BY <1>1, <2>1, Held, LocalOne DEF ListFits
<1>3. CASE ReadForScan(w)
  <2>1. pc[w] = "scanning" /\ pc'[w] \in {"scanning", "checking"}
    BY <1>3, Held DEF ReadForScan
  <2>2. todo'[w] = todo[w] \/ todo'[w] \subseteq LiveRuns
    BY <1>3, Held DEF ReadForScan, Listed
  <2>3. \A r \in todo'[w] : report[r].lifecycle # "NONE"
    BY <2>1, <2>2, Held DEF ListFits, LiveRuns, Live
  <2> QED BY <1>1, <2>1, <2>3, LocalOne
<1>4. CASE ListRuns(w)
  <2>1. pc'[w] = "listed" /\ todo'[w] = {r \in Runs : status[r] = "QUEUED"}
    BY <1>4, Held DEF ListRuns, Runnable
  <2>2. \A r \in todo'[w] : Fresh(r)
    BY <2>1, Held DEF RowsFit, Unstarted
  <2> QED BY <1>1, <2>1, <2>2, LocalOne
<1>5. CASE EndTick(w)
  <2>1. pc'[w] = "idle" /\ todo'[w] = {}
    BY <1>5, Held DEF EndTick
  <2> QED BY <1>1, <2>1, LocalOne
<1> QED BY <1>2, <1>3, <1>4, <1>5

\* A report that is there goes stale, or does not.
LEMMA CheckReportOne ==
  ASSUME One, OneWorker, NEW w \in Workers, NEW r \in todo[w], CheckReport(w, r)
  PROVE  WorkFits' /\ RowsFit'
<1>1. /\ UNCHANGED <<status, snapshot, linked, accepting, pc, stage, cur>>
      /\ pc[w] = "checking" /\ cur[w] = {} /\ r \in Runs /\ report[r].lifecycle # "NONE"
  BY Held DEF CheckReport, runVars, BusyPlaces, ListFits
<1>2. /\ report'[r].lifecycle \in {report[r].lifecycle, "STALE"}
      /\ report'[r].blocked = report[r].blocked /\ report'[r].basis = report[r].basis
      /\ \A q \in Runs : q # r => report'[q] = report[q]
  <2>1. report \in [Runs -> Reports]
    BY Typed DEF One, ReportTypes
  <2> QED BY <1>1, <2>1, Staled
<1>3. RowsFit'
  BY <1>1, <1>2 DEF One, RowsFit, Unstarted, AcceptanceFits, CompletedIsReviewed, Fresh
<1>4. todo'[w] \subseteq todo[w] /\ todo'[w] \subseteq Runs
  BY Held DEF CheckReport
<1>5. ListFits(pc[w], todo[w], cur[w])'
  BY <1>1, <1>2, <1>4, Held DEF ListFits
<1> QED BY <1>1, <1>3, <1>5, WorkerFollows

LEMMA LookOne ==
  ASSUME One, OneWorker, NEW w \in Workers, NEW r \in todo[w], Look(w, r)
  PROVE  WorkFits' /\ RowsFit'
<1>1. /\ UNCHANGED <<status, snapshot, linked, report, accepting, stage>> /\ pc[w] = "listed"
      /\ todo'[w] = todo[w] \ {r} /\ cur[w] = {}
  BY Held DEF Look, runVars, BusyPlaces
<1>2. \A q \in todo[w] : Fresh(q)
  BY <1>1, Held DEF ListFits
<1>3. (pc'[w] = "claiming" /\ cur'[w] = {r}) \/ (pc'[w] = "listed" /\ cur'[w] = {})
  BY <1>1, Held DEF Look
<1>4. \A q \in cur'[w] : RunFits(pc'[w], stage'[w], q)
  BY <1>2, <1>3 DEF RunFits
<1> QED BY <1>1, <1>2, <1>3, <1>4, LocalOne

LEMMA StopsOne ==
  ASSUME One, OneWorker, NEW w \in Workers, StatementFails(w) \/ Crash(w)
  PROVE  WorkFits' /\ RowsFit'
<1>1. UNCHANGED <<status, snapshot, linked, report, accepting, stage>>
  BY DEF StatementFails, Crash, runVars
<1>2. CASE StatementFails(w)
  <2>1. /\ pc'[w] = "failed" /\ UNCHANGED <<todo, cur>>
        /\ pc[w] \notin {"idle", "scanning", "checking", "claiming", "failed"}
    BY <1>2, Held DEF StatementFails
  <2>2. \A r \in cur'[w] : RunFits(pc'[w], stage'[w], r)
    BY <1>1, <2>1, Held DEF RunFits
  <2> QED BY <1>1, <2>1, <2>2, Held, LocalOne DEF ListFits
<1>3. CASE Crash(w)
  <2>1. todo'[w] = {} /\ cur'[w] = {}
    BY <1>3, Held DEF Crash
  <2> QED BY <1>1, <2>1, LocalOne
<1> QED BY <1>2, <1>3

\* The worker is done with its run.
LEMMA LeaveOne ==
  ASSUME One, OneWorker, NEW w \in Workers, pc[w] \in BusyPlaces, Leave(w), UNCHANGED todo,
         UNCHANGED <<report, accepting>>
  PROVE  WorkFits'
<1>1. pc'[w] = "listed" /\ cur'[w] = {}
  BY Held DEF Leave
<1>2. \A r \in todo[w] : Fresh(r)
  BY Held DEF ListFits, BusyPlaces
<1>3. ListFits(pc[w], todo[w], cur[w])'
  BY <1>1, <1>2 DEF ListFits, Fresh
<1> QED BY <1>1, <1>3, WorkerFollows

\* A step of the worker on the run it has
LEMMA BusyOne ==
  ASSUME One, OneWorker, NEW w \in Workers, NEW r \in cur[w], pc[w] \in BusyPlaces, pc'[w] \in BusyPlaces,
         UNCHANGED <<todo, cur, accepting>>, RunFits(pc[w], stage[w], r)',
         \A q \in Runs : q # r => report'[q] = report[q]
  PROVE  WorkFits'
<1>1. cur[w] = {r} /\ r \in Runs /\ todo[w] \subseteq Runs
  BY Held
<1>2. \A q \in todo[w] : Fresh(q) /\ q # r
  BY <1>1, Held DEF ListFits, BusyPlaces
<1>3. ListFits(pc[w], todo[w], cur[w])'
  BY <1>1, <1>2 DEF ListFits, Fresh, BusyPlaces
<1>4. \A q \in cur'[w] : RunFits(pc[w], stage[w], q)'
  BY <1>1
<1> QED BY <1>3, <1>4, WorkerFollows

LEMMA ClaimOne ==
  ASSUME One, OneWorker, NEW w \in Workers, NEW r \in cur[w], Claim(w, r)
  PROVE  WorkFits' /\ RowsFit'
<1>1. /\ UNCHANGED <<snapshot, linked, report, accepting, todo, cur>> /\ pc[w] = "claiming"
      /\ pc'[w] = "check" /\ stage'[w] = "RESOLVING_EVIDENCE" /\ r \in Runs
  BY Held DEF Claim
<1>2. \A q \in Runs : status'[q] = IF q = r THEN "RUNNING" ELSE status[q]
  BY <1>1, Typed DEF Claim, One, RunTypes
<1>3. Fresh(r)
  BY <1>1, Held DEF RunFits
<1>4. RowsFit'
  BY <1>1, <1>2 DEF One, RowsFit, Unstarted, AcceptanceFits, CompletedIsReviewed, Fresh
<1>5. RunFits(pc[w], stage[w], r)'
  BY <1>1, <1>2, <1>3 DEF RunFits, Fresh
<1> QED BY <1>1, <1>4, <1>5, BusyOne DEF BusyPlaces

LEMMA FencedReadOne ==
  ASSUME One, OneWorker, NEW w \in Workers, NEW r \in cur[w], FencedRead(w, r)
  PROVE  WorkFits' /\ RowsFit'
<1>1. UNCHANGED <<status, snapshot, linked, report, accepting, todo, stage>> /\ pc[w] = "check"
  BY DEF FencedRead, runVars
<1>2. RowsFit'
  BY <1>1, Held, RowsRest
<1>3. CASE status[r] = "CANCELLED"
  BY <1>1, <1>2, <1>3, LeaveOne DEF FencedRead, BusyPlaces
<1>4. CASE status[r] # "CANCELLED"
  <2>1. pc'[w] \in {"cancel", "update"} /\ UNCHANGED cur
    BY <1>4, Held DEF FencedRead
  <2>2. RunFits(pc[w], stage[w], r)'
    BY <1>1, <2>1, Held DEF RunFits, Fresh, Written
  <2> QED BY <1>1, <1>2, <2>1, <2>2, BusyOne DEF BusyPlaces
<1> QED BY <1>3, <1>4

\* The stage is entered as it was left before it.
LEMMA EntersOne ==
  ASSUME One, OneWorker, NEW w \in Workers, NEW r \in cur[w], pc[w] \in {"update", "cancel"},
         EnterStage(w), UNCHANGED <<report, accepting, stage, todo>>,
         stage[w] # "COMPLETE" => status'[r] \notin {"NONE", "QUEUED", "COMPLETE"},
         stage[w] = "REVIEWING" => snapshot'[r] = snapshot[r]
  PROVE  WorkFits'
<1>1. CASE stage[w] = "COMPLETE"
  BY <1>1, LeaveOne DEF EnterStage, BusyPlaces
<1>2. CASE stage[w] # "COMPLETE"
  <2>1. stage[w] \in {"RESOLVING_EVIDENCE", "ANALYZING", "REVIEWING"}
    BY <1>2, Held DEF Stages
  <2>2. /\ pc'[w] \in {"reading", "evaluating", "reviewing"} /\ UNCHANGED cur
        /\ pc'[w] = "reading" => stage[w] = "RESOLVING_EVIDENCE"
        /\ pc'[w] = "evaluating" => stage[w] = "ANALYZING"
        /\ pc'[w] = "reviewing" => stage[w] = "REVIEWING"
    BY <1>2, <2>1, Held DEF EnterStage
  <2>3. RunFits(pc[w], stage[w], r)'
    BY <1>2, <2>1, <2>2, Held DEF RunFits, Fresh, Written
  <2> QED BY <2>2, <2>3, BusyOne DEF BusyPlaces
<1> QED BY <1>1, <1>2

LEMMA UpdateOne ==
  ASSUME One, OneWorker, NEW w \in Workers, NEW r \in cur[w], Update(w, r)
  PROVE  WorkFits' /\ RowsFit'
<1>1. /\ UNCHANGED <<report, accepting, stage, todo>> /\ pc[w] = "update" /\ r \in Runs
      /\ stage[w] \in Stages
  BY Held DEF Update
<1>2. RunFits("update", stage[w], r)
  BY <1>1, Held
<1>3. CASE Owns(w, r)
  <2>1. EnterStage(w)
    BY <1>3 DEF Update
  <2>2. \A q \in Runs : status'[q] = IF q = r THEN stage[w] ELSE status[q]
    BY <1>1, <1>3, Typed DEF Update, One, RunTypes
  <2>3. /\ stage[w] # "ANALYZING" => snapshot' = snapshot
        /\ \A q \in Runs : q # r => snapshot'[q] = snapshot[q]
    BY <1>1, <1>3, Typed DEF Update, One, RunTypes
  <2>4. linked \subseteq linked'
    BY <1>3 DEF Update
  <2>5. WorkFits'
    <3>1. stage[w] # "COMPLETE" => status'[r] \notin {"NONE", "QUEUED", "COMPLETE"}
      BY <1>1, <2>2 DEF Stages
    <3> QED BY <1>1, <2>1, <2>3, <3>1, EntersOne
  <2>6. CompletedIsReviewed'
    <3> SUFFICES ASSUME NEW q \in Runs, status'[q] = "COMPLETE"
                 PROVE  /\ q \in linked'
                        /\ report[q].basis = snapshot'[q] /\ snapshot'[q] # {}
                        /\ report[q].lifecycle \in {"REVIEWED", "ACCEPTED", "STALE"}
      BY <1>1 DEF CompletedIsReviewed
    <3>1. CASE q = r
      <4>1. stage[w] = "COMPLETE"
        BY <2>2, <3>1
      <4>2. /\ r \in linked /\ Written(r) /\ report[r].lifecycle \in {"REVIEWED", "ACCEPTED"}
            /\ snapshot' = snapshot
        BY <1>2, <2>3, <4>1 DEF RunFits
      <4> QED BY <2>4, <3>1, <4>2 DEF Written
    <3>2. CASE q # r
      BY <2>2, <2>3, <2>4, <3>2 DEF One, RowsFit, CompletedIsReviewed
    <3> QED BY <3>1, <3>2
  <2>7. Unstarted' /\ AcceptanceFits'
    BY <1>1, <2>2, Held DEF RowsFit, Unstarted, AcceptanceFits, Fresh, Stages
  <2> QED BY <2>5, <2>6, <2>7 DEF RowsFit
<1>4. CASE ~Owns(w, r)
  BY <1>1, <1>4, LeaveOne, RowsRest, Held DEF Update, BusyPlaces
<1> QED BY <1>3, <1>4

LEMMA CancelUpdateOne ==
  ASSUME One, OneWorker, NEW w \in Workers, NEW r \in cur[w], CancelUpdate(w, r)
  PROVE  WorkFits' /\ RowsFit'
<1>1. /\ UNCHANGED <<snapshot, linked, report, accepting, stage, todo>> /\ pc[w] = "cancel" /\ r \in Runs
  BY Held DEF CancelUpdate
<1>2. CASE Owns(w, r)
  <2>1. EnterStage(w)
    BY <1>2 DEF CancelUpdate
  <2>2. \A q \in Runs : status'[q] = IF q = r THEN "CANCELLED" ELSE status[q]
    BY <1>1, <1>2, Typed DEF CancelUpdate, One, RunTypes
  <2>3. WorkFits'
    BY <1>1, <2>1, <2>2, EntersOne
  <2>4. RowsFit'
    BY <1>1, <2>2 DEF One, RowsFit, Unstarted, AcceptanceFits, CompletedIsReviewed, Fresh
  <2> QED BY <2>3, <2>4
<1>3. CASE ~Owns(w, r)
  BY <1>1, <1>3, LeaveOne, RowsRest, Held DEF CancelUpdate, BusyPlaces
<1> QED BY <1>2, <1>3

LEMMA ReadEvidenceOne ==
  ASSUME One, OneWorker, NEW w \in Workers, NEW r \in cur[w], ReadEvidence(w, r)
  PROVE  WorkFits' /\ RowsFit'
<1>1. UNCHANGED <<status, snapshot, linked, report, accepting, todo, cur>> /\ pc[w] = "reading"
  BY DEF ReadEvidence, runVars
<1>2. \/ pc' = pc /\ stage' = stage
      \/ pc'[w] = "check" /\ stage'[w] = "ANALYZING"
  BY Held DEF ReadEvidence, NextStage
<1>3. RunFits(pc[w], stage[w], r)'
  BY <1>1, <1>2, Held DEF RunFits, Fresh
<1> QED BY <1>1, <1>2, <1>3, Held, RowsRest, BusyOne DEF BusyPlaces

\* A handler that throws
LEMMA ThrowOne ==
  ASSUME One, OneWorker, NEW w \in Workers, NEW r \in cur[w], pc[w] \in {"evaluating", "reviewing"},
         Throw(w), UNCHANGED <<status, snapshot, linked, report, accepting, todo, cur>>
  PROVE  WorkFits' /\ RowsFit'
<1>1. pc'[w] = "failed" /\ stage' = stage
  BY Held DEF Throw
<1>2. RunFits(pc[w], stage[w], r)'
  BY <1>1, Held DEF RunFits
<1> QED BY <1>1, <1>2, Held, RowsRest, BusyOne DEF BusyPlaces

LEMMA EvaluateOne ==
  ASSUME One, OneWorker, NEW w \in Workers, NEW r \in cur[w], Evaluate(w, r)
  PROVE  WorkFits' /\ RowsFit'
<1>1. /\ UNCHANGED <<status, snapshot, linked, accepting, todo, cur>> /\ pc[w] = "evaluating" /\ r \in Runs
  BY Held DEF Evaluate, runVars
<1>2. CASE snapshot[r] = {}
  BY <1>1, <1>2, ThrowOne DEF Evaluate
<1>3. CASE snapshot[r] # {}
  <2>1. PICK b \in BOOLEAN :
          report' = [report EXCEPT ![r] =
            [lifecycle |-> "ASSESSED", blocked |-> b, basis |-> snapshot[r],
             reason |-> report[r].reason, acceptance |-> {}]]
    BY <1>3 DEF Evaluate
  <2>2. /\ report'[r].lifecycle = "ASSESSED" /\ report'[r].basis = snapshot[r]
        /\ \A q \in Runs : q # r => report'[q] = report[q]
    BY <1>1, <2>1, Typed DEF One, ReportTypes
  <2>3. pc'[w] = "check" /\ stage'[w] = "REVIEWING"
    BY <1>3, Held DEF Evaluate, NextStage
  <2>4. Fresh(r) /\ status[r] \notin {"NONE", "QUEUED", "COMPLETE"}
    BY <1>1, Held DEF RunFits
  <2>5. RowsFit'
    BY <1>1, <2>2, <2>4 DEF One, RowsFit, Unstarted, AcceptanceFits, CompletedIsReviewed, Fresh
  <2>6. RunFits(pc[w], stage[w], r)'
    BY <1>1, <1>3, <2>2, <2>3, <2>4 DEF RunFits, Written
  <2> QED BY <1>1, <2>2, <2>3, <2>5, <2>6, BusyOne DEF BusyPlaces
<1> QED BY <1>2, <1>3

LEMMA ReviewOne ==
  ASSUME One, OneWorker, NEW w \in Workers, NEW r \in cur[w], Review(w, r)
  PROVE  WorkFits' /\ RowsFit'
<1>1. /\ UNCHANGED <<status, snapshot, linked, accepting, todo, cur>> /\ pc[w] = "reviewing" /\ r \in Runs
  BY Held DEF Review, runVars
<1>2. CASE ~Reviewable(r)
  BY <1>1, <1>2, ThrowOne DEF Review
<1>3. CASE Reviewable(r)
  <2>1. /\ report'[r].lifecycle = "REVIEWED" /\ report'[r].blocked = report[r].blocked
        /\ report'[r].basis = report[r].basis
        /\ \A q \in Runs : q # r => report'[q] = report[q]
    <3>1. "REVIEWED" \in Lifecycles /\ report \in [Runs -> Reports]
      BY Typed DEF Lifecycles, One, ReportTypes
    <3> QED BY <1>1, <1>3, <3>1, Relabelled DEF Review
  <2>2. pc'[w] = "check" /\ stage'[w] = "COMPLETE"
    BY <1>3, Held DEF Review, NextStage
  <2>3. /\ Written(r) /\ report[r].lifecycle = "ASSESSED" /\ r \in linked
        /\ status[r] \notin {"NONE", "QUEUED", "COMPLETE"}
    BY <1>1, <1>3, Held DEF RunFits, Reviewable
  <2>4. RowsFit'
    BY <1>1, <2>1, <2>3 DEF One, RowsFit, Unstarted, AcceptanceFits, CompletedIsReviewed, Fresh
  <2>5. RunFits(pc[w], stage[w], r)'
    BY <1>1, <2>1, <2>2, <2>3 DEF RunFits, Written
  <2> QED BY <1>1, <2>1, <2>2, <2>4, <2>5, BusyOne DEF BusyPlaces
<1> QED BY <1>2, <1>3

LEMMA FailRunOne ==
  ASSUME One, OneWorker, NEW w \in Workers, NEW r \in cur[w], FailRun(w, r)
  PROVE  WorkFits' /\ RowsFit'
<1>1. /\ UNCHANGED <<snapshot, linked, report, accepting, todo>> /\ pc[w] = "failed" /\ Leave(w)
      /\ r \in Runs
  BY Held DEF FailRun
<1>2. \A q \in Runs : status'[q] = status[q] \/ status'[q] = "FAILED"
  BY <1>1, Typed DEF FailRun, One, RunTypes
<1>3. RowsFit'
  BY <1>1, <1>2 DEF One, RowsFit, Unstarted, AcceptanceFits, CompletedIsReviewed, Fresh
<1> QED BY <1>1, <1>3, LeaveOne DEF BusyPlaces

\* Nothing that matters here moves.
LEMMA RestOne ==
  ASSUME One, UNCHANGED <<status, snapshot, linked, report, accepting, pc, stage, todo, cur>>
  PROVE  WorkFits' /\ RowsFit'
<1>1. RowsFit'
  BY RowsRest DEF One
<1>2. WorkFits'
  BY DEF One, WorkFits, ListFits, RunFits, Fresh, Written
<1> QED BY <1>1, <1>2

LEMMA OneNext == ASSUME OneWorker, One, [Next]_vars PROVE One'
<1>1. Types'
  BY TypesNext DEF One
<1>2. ASSUME NEW r \in Runs, Client(r) PROVE WorkFits' /\ RowsFit'
  BY <1>2, CreateOne, CancelOne, ReadForAcceptanceOne, AcceptOne DEF Client
<1>3. ASSUME NEW w \in Workers, Tick(w) PROVE WorkFits' /\ RowsFit'
  <2>1. CASE StartTick(w) \/ ReadForScan(w) \/ ListRuns(w) \/ EndTick(w)
    BY <2>1, ScansOne
  <2>2. CASE \E r \in todo[w] : CheckReport(w, r) \/ Look(w, r)
    BY <2>2, CheckReportOne, LookOne
  <2>3. CASE \E r \in cur[w] : Claim(w, r) \/ FencedRead(w, r) \/ Update(w, r) \/ CancelUpdate(w, r)
    BY <2>3, ClaimOne, FencedReadOne, UpdateOne, CancelUpdateOne
  <2>4. CASE \E r \in cur[w] : ReadEvidence(w, r) \/ Evaluate(w, r) \/ Review(w, r) \/ FailRun(w, r)
    BY <2>4, ReadEvidenceOne, EvaluateOne, ReviewOne, FailRunOne
  <2> QED BY <1>3, <2>1, <2>2, <2>3, <2>4 DEF Tick
<1>4. ASSUME NEW w \in Workers, StatementFails(w) \/ Crash(w) PROVE WorkFits' /\ RowsFit'
  BY <1>4, StopsOne
<1>5. ASSUME \/ ChangeDesign \/ ChangeOthers \/ \E r \in Runs : LeaseExpires(r)
             \/ \E w \in Workers : Restart(w) \/ \E r \in cur[w] : Heartbeat(w, r)
             \/ UNCHANGED vars
      PROVE  WorkFits' /\ RowsFit'
  <2>1. UNCHANGED <<status, snapshot, linked, report, accepting, pc, stage, todo, cur>>
    BY <1>5 DEF ChangeDesign, ChangeOthers, Restart, LeaseExpires, Heartbeat, vars, runVars, workerVars
  <2> QED BY <2>1, RestOne
<1>6. WorkFits' /\ RowsFit'
  BY <1>2, <1>3, <1>4, <1>5 DEF Next
<1> QED BY <1>1, <1>6 DEF One

LEMMA OneHolds == ASSUME OneWorker PROVE Spec => []One
<1>1. One /\ [Next]_vars => One'
  BY OneNext
<1> QED BY OneInit, <1>1, PTL DEF Spec

\* With one worker, a run is COMPLETE only when its report rests on its
\* snapshot and was reviewed, for any runs, cancellations, crashes and changes.
THEOREM CompleteRunsAreReviewed == ASSUME OneWorker PROVE Spec => []CompletedIsReviewed
<1>1. One => CompletedIsReviewed
  BY DEF One, RowsFit
<1> QED BY <1>1, OneHolds, PTL

\* With one worker, no report that blocks acceptance is accepted, also when it
\* is accepted by its key after it was read.
THEOREM AcceptedReportsAreUnblocked == ASSUME OneWorker PROVE Spec => []AcceptedIsUnblocked
<1>1. One => AcceptedIsUnblocked
  BY DEF One, RowsFit, AcceptanceFits, AcceptedIsUnblocked
<1> QED BY <1>1, OneHolds, PTL

-----------------------------------------------------------------------------
(* Decisions that stand                                                    *)

\* What may become of an accepted report
Stands(r) ==
  /\ report'[r].basis = report[r].basis /\ report'[r].blocked = report[r].blocked
  /\ report'[r].lifecycle \in {"ACCEPTED", "STALE"}
  /\ \/ report'[r].acceptance = report[r].acceptance
     \/ \E k \in Calls : <<r, k>> \in accepting /\ report'[r].acceptance = {k}

\* With one worker nothing rewrites the evidence or the verdict of an accepted
\* report: a run that is evaluated has none, and a run that is reviewed has one
\* that is only assessed.  Its acceptance is replaced only by a call that read
\* the report before it was accepted.
THEOREM AcceptedReportsStand == ASSUME OneWorker PROVE Spec => AcceptedIsImmutable
<1>1. ASSUME One, [Next]_vars
      PROVE  [\A r \in Runs : report[r].lifecycle = "ACCEPTED" => Stands(r)]_vars
  <2> SUFFICES ASSUME NEW r \in Runs, report[r].lifecycle = "ACCEPTED" PROVE Stands(r)
    OBVIOUS
  <2>0. report \in [Runs -> Reports]
    BY <1>1, Typed DEF One, ReportTypes
  <2>4. ASSUME report'[r] = report[r] PROVE Stands(r)
    BY <2>4 DEF Stands
  <2>1. ASSUME NEW q \in Runs, NEW k \in Calls, Accept(q, k) PROVE Stands(r)
    <3>1. CASE q # r
      BY <2>0, <2>1, <2>4, <3>1, Accepted
    <3>2. CASE q = r
      <4>1. <<r, k>> \in accepting
        BY <2>1, <3>2 DEF Accept
      <4> QED BY <2>0, <2>1, <3>2, <4>1, Accepted DEF Stands
    <3> QED BY <3>1, <3>2
  <2>2. ASSUME NEW w \in Workers, NEW q \in todo[w], CheckReport(w, q) PROVE Stands(r)
    <3>1. q \in Runs
      BY <1>1, Held
    <3> QED BY <2>0, <2>2, <2>4, <3>1, Staled DEF Stands
  <2>3. ASSUME NEW w \in Workers, NEW q \in cur[w], Evaluate(w, q) \/ Review(w, q)
        PROVE  report'[r] = report[r]
    <3>1. q \in Runs /\ RunFits(pc[w], stage[w], q)
      BY <1>1, Held
    <3>2. CASE q # r
      BY <2>0, <2>3, <3>2 DEF Evaluate, Review
    <3>3. CASE q = r
      <4>1. CASE Evaluate(w, q)
        BY <2>0, <3>1, <3>3, <4>1 DEF Evaluate, RunFits, Fresh
      <4>2. CASE Review(w, q)
        BY <2>0, <3>3, <4>2 DEF Review, Reviewable
      <4> QED BY <2>3, <4>1, <4>2
    <3> QED BY <3>2, <3>3
  <2>5. CASE \E w \in Workers : Tick(w)
    <3> PICK w \in Workers : Tick(w)
      BY <2>5
    <3>1. \/ \E q \in todo[w] : CheckReport(w, q)
          \/ \E q \in cur[w] : Evaluate(w, q) \/ Review(w, q)
          \/ report' = report
      BY DEF Tick, StartTick, ReadForScan, ListRuns, EndTick, Look, Claim, FencedRead, Update,
             CancelUpdate, ReadEvidence, FailRun
    <3> QED BY <2>2, <2>3, <2>4, <3>1
  <2>6. CASE \E q \in Runs : Client(q) \/ LeaseExpires(q)
    <3>1. (\E q \in Runs, k \in Calls : Accept(q, k)) \/ report' = report
      BY <2>6 DEF Client, Create, Cancel, ReadForAcceptance, LeaseExpires
    <3> QED BY <2>1, <2>4, <3>1
  <2>7. CASE \/ ChangeDesign \/ ChangeOthers \/ UNCHANGED vars
             \/ \E w \in Workers :
                  StatementFails(w) \/ Crash(w) \/ Restart(w) \/ \E q \in cur[w] : Heartbeat(w, q)
    <3>1. report' = report
      BY <2>7 DEF ChangeDesign, ChangeOthers, Restart, StatementFails, Crash, Heartbeat, vars
    <3> QED BY <2>4, <3>1
  <2> QED BY <1>1, <2>5, <2>6, <2>7 DEF Next
<1>2. One /\ [Next]_vars => One'
  BY OneNext
<1> QED BY <1>1, <1>2, OneInit, PTL DEF Spec, AcceptedIsImmutable, Stands

-----------------------------------------------------------------------------
(* What is assessed after the last change stays fresh                      *)

\* A run that was not created has no snapshot and is with no worker.
Unbegun ==
  \A r \in Runs : status[r] = "NONE" => snapshot[r] = {} /\ \A w \in Workers : r \notin cur[w]

\* A report rests on evidence.
Based == \A r \in Runs : report[r].lifecycle = "NONE" <=> report[r].basis = {}

\* A scan compares what it has read itself, and evidence is read anew for a run.
ReadsFit ==
  \A w \in Workers :
    /\ pc[w] \in {"idle", "listed", "claiming"} => DOMAIN got[w] = {}
    /\ pc[w] = "checking" => {"mark", "links"} \subseteq DOMAIN got[w]

Begun == Unbegun /\ Based /\ ReadsFit

LEMMA BegunInit == Init => Begun
BY NothingIsRead DEF Init, Begun, Unbegun, Based, ReadsFit, NoReport

\* Runs begin with their creation, and get a worker and a snapshot after it.
LEMMA UnbegunStep == ASSUME OneWorker, One, Begun, [Next]_vars PROVE Unbegun'
<1>0. status \in [Runs -> Statuses] /\ snapshot \in [Runs -> SUBSET Evidence]
  BY Typed DEF One, RunTypes
<1>1. ASSUME \A r \in Runs :
               /\ status'[r] = "NONE" => status[r] = "NONE" /\ snapshot'[r] = snapshot[r]
               /\ \A w \in Workers : r \in cur'[w] => r \in cur[w] \/ status[r] # "NONE"
      PROVE  Unbegun'
  BY <1>1 DEF Begun, Unbegun
<1>2. CASE UNCHANGED <<status, snapshot, cur>>
  BY <1>2 DEF Begun, Unbegun
<1>3. ASSUME NEW r \in Runs, Create(r) \/ Cancel(r) PROVE Unbegun'
  <2>1. UNCHANGED <<snapshot, cur>> /\ \A q \in Runs : status'[q] = "NONE" => status[q] = "NONE"
    BY <1>0, <1>3 DEF Create, Cancel, workerVars
  <2> QED BY <1>1, <2>1
<1>4. ASSUME NEW w \in Workers, NEW r \in todo[w], Look(w, r) PROVE Unbegun'
  <2>1. UNCHANGED <<status, snapshot>>
    BY <1>4 DEF Look, runVars
  <2>2. cur' = cur \/ (status[r] # "NONE" /\ cur' = [cur EXCEPT ![w] = {r}])
    BY <1>4 DEF Look, Claimable
  <2>3. cur \in [Workers -> SUBSET Runs]
    BY Held
  <2>4. \A q \in Runs, v \in Workers : q \in cur'[v] => q \in cur[v] \/ status[q] # "NONE"
    BY <2>2, <2>3
  <2> QED BY <1>1, <2>1, <2>4
<1>5. ASSUME NEW w \in Workers, NEW r \in cur[w], Claim(w, r) PROVE Unbegun'
  <2>1. UNCHANGED <<snapshot, cur>> /\ \A q \in Runs : status'[q] = "NONE" => status[q] = "NONE"
    BY <1>0, <1>5 DEF Claim
  <2> QED BY <1>1, <2>1
<1>6. ASSUME NEW w \in Workers, Leave(w) \/ cur' = cur
      PROVE  \A q \in Runs, v \in Workers : q \in cur'[v] => q \in cur[v]
  <2>1. cur \in [Workers -> SUBSET Runs]
    BY Held
  <2> QED BY <1>6, <2>1 DEF Leave
<1>7. ASSUME NEW w \in Workers, NEW r \in cur[w],
             FencedRead(w, r) \/ Update(w, r) \/ CancelUpdate(w, r) \/ FailRun(w, r)
      PROVE  Unbegun'
  <2>1. \A q \in Runs, v \in Workers : q \in cur'[v] => q \in cur[v]
    BY <1>6, <1>7 DEF FencedRead, Update, CancelUpdate, FailRun, EnterStage
  <2>2. status[r] # "NONE" /\ r \in Runs /\ stage[w] \in Stages
    BY <1>7, Held DEF FencedRead, Update, CancelUpdate, FailRun, RunFits, Begun, Unbegun
  <2>3. \A q \in Runs : q # r => status'[q] = status[q] /\ snapshot'[q] = snapshot[q]
    BY <1>0, <1>7 DEF FencedRead, Update, CancelUpdate, FailRun, runVars
  <2>4. status'[r] # "NONE"
    BY <1>0, <1>7, <2>2 DEF FencedRead, Update, CancelUpdate, FailRun, runVars, Stages
  <2> QED BY <1>1, <2>1, <2>3, <2>4
<1>8. ASSUME NEW w \in Workers,
             \/ StartTick(w) \/ ReadForScan(w) \/ ListRuns(w) \/ EndTick(w)
             \/ \E r \in todo[w] : CheckReport(w, r)
             \/ \E r \in cur[w] : ReadEvidence(w, r) \/ Evaluate(w, r) \/ Review(w, r) \/ Heartbeat(w, r)
             \/ StatementFails(w)
      PROVE  Unbegun'
  BY <1>2, <1>8 DEF StartTick, ReadForScan, ListRuns, EndTick, CheckReport, ReadEvidence, Evaluate,
                    Review, Heartbeat, StatementFails, runVars, workerVars
<1>9. ASSUME NEW w \in Workers, Crash(w) PROVE Unbegun'
  <2>1. UNCHANGED <<status, snapshot>> /\ cur' = [cur EXCEPT ![w] = {}]
    BY <1>9 DEF Crash, runVars
  <2>2. \A q \in Runs, v \in Workers : q \in cur'[v] => q \in cur[v]
    BY <2>1, Held
  <2> QED BY <1>1, <2>1, <2>2
<1>10. CASE ChangeDesign \/ ChangeOthers \/ (\E w \in Workers : Restart(w)) \/ UNCHANGED vars
  BY <1>2, <1>10 DEF ChangeDesign, ChangeOthers, Restart, vars, runVars, workerVars
<1>11. ASSUME NEW r \in Runs,
              LeaseExpires(r) \/ \E k \in Calls : ReadForAcceptance(r, k) \/ Accept(r, k)
       PROVE  Unbegun'
  BY <1>2, <1>11 DEF ReadForAcceptance, Accept, LeaseExpires, runVars, workerVars
<1>12. ASSUME NEW w \in Workers, Tick(w) PROVE Unbegun'
  BY <1>4, <1>5, <1>7, <1>8, <1>12 DEF Tick
<1> QED BY <1>3, <1>8, <1>9, <1>10, <1>11, <1>12 DEF Next, Client

\* Reports are written with evidence, and keep it.
LEMMA BasedStep == ASSUME OneWorker, One, Begun, [Next]_vars PROVE Based'
<1>0. report \in [Runs -> Reports]
  BY Typed DEF One, ReportTypes
<1>1. CASE report' = report
  BY <1>1 DEF Begun, Based
<1>2. ASSUME NEW r \in Runs, NEW l \in Lifecycles \ {"NONE"}, report[r].lifecycle # "NONE",
             report' = [report EXCEPT ![r].lifecycle = l]
      PROVE  Based'
  <2>1. /\ report'[r].lifecycle = l /\ report'[r].basis = report[r].basis
        /\ \A q \in Runs : q # r => report'[q] = report[q]
    BY <1>0, <1>2, Relabelled
  <2> QED BY <1>2, <2>1 DEF Begun, Based
<1>3. ASSUME NEW r \in Runs, NEW k \in Calls, Accept(r, k) PROVE Based'
  <2>1. report[r].lifecycle \in {"REVIEWED", "ACCEPTED", "STALE"}
    BY <1>3 DEF Accept, One, RowsFit, AcceptanceFits
  <2> QED BY <1>0, <1>3, <2>1, Accepted DEF Begun, Based
<1>4. ASSUME NEW w \in Workers, NEW r \in todo[w], CheckReport(w, r) PROVE Based'
  <2>1. r \in Runs /\ report[r].lifecycle # "NONE"
    BY <1>4, Held DEF CheckReport, ListFits
  <2> QED BY <1>0, <1>1, <1>4, <2>1, Staled DEF Begun, Based
<1>5. ASSUME NEW w \in Workers, NEW r \in cur[w], Evaluate(w, r) PROVE Based'
  <2>1. r \in Runs
    BY Held
  <2>2. CASE snapshot[r] # {}
    <3> PICK b \in BOOLEAN : report' = [report EXCEPT ![r] =
               [lifecycle |-> "ASSESSED", blocked |-> b, basis |-> snapshot[r],
             reason |-> report[r].reason, acceptance |-> {}]]
      BY <1>5, <2>2 DEF Evaluate
    <3>1. /\ report'[r].lifecycle = "ASSESSED" /\ report'[r].basis = snapshot[r]
          /\ \A q \in Runs : q # r => report'[q] = report[q]
      BY <1>0, <2>1
    <3> QED BY <2>2, <3>1 DEF Begun, Based
  <2> QED BY <1>1, <1>5, <2>2 DEF Evaluate
<1>6. ASSUME NEW w \in Workers, NEW r \in cur[w], Review(w, r) PROVE Based'
  <2>1. r \in Runs
    BY Held
  <2> QED BY <1>1, <1>2, <1>6, <2>1 DEF Review, Reviewable, Lifecycles
<1>7. ASSUME NEW w \in Workers, Tick(w) PROVE Based'
  <2>1. \/ \E q \in todo[w] : CheckReport(w, q)
        \/ \E q \in cur[w] : Evaluate(w, q) \/ Review(w, q)
        \/ report' = report
    BY <1>7 DEF Tick, StartTick, ReadForScan, ListRuns, EndTick, Look, Claim, FencedRead, Update,
           CancelUpdate, ReadEvidence, FailRun
  <2> QED BY <1>1, <1>4, <1>5, <1>6, <2>1
<1>8. CASE \E q \in Runs : Client(q) \/ LeaseExpires(q)
  <2>1. (\E q \in Runs, k \in Calls : Accept(q, k)) \/ report' = report
    BY <1>8 DEF Client, Create, Cancel, ReadForAcceptance, LeaseExpires
  <2> QED BY <1>1, <1>3, <2>1
<1>9. CASE \/ ChangeDesign \/ ChangeOthers \/ UNCHANGED vars
           \/ \E w \in Workers : StatementFails(w) \/ Crash(w) \/ Restart(w) \/ \E q \in cur[w] : Heartbeat(w, q)
  BY <1>1, <1>9 DEF ChangeDesign, ChangeOthers, Restart, StatementFails, Crash, Heartbeat, vars
<1> QED BY <1>7, <1>8, <1>9 DEF Next

\* What a worker has read, step by step.
LEMMA ReadsFitStep == ASSUME OneWorker, One, Begun, [Next]_vars PROVE ReadsFit'
<1>0. /\ pc \in [Workers -> Places] /\ got \in [Workers -> Gots]
  BY Typed DEF One, WorkerTypes
<1>1. CASE UNCHANGED <<pc, got>>
  BY <1>1 DEF Begun, ReadsFit
<1>2. ASSUME NEW w \in Workers,
             /\ pc'[w] \in {"idle", "listed", "claiming"} => DOMAIN got'[w] = {}
             /\ pc'[w] = "checking" => {"mark", "links"} \subseteq DOMAIN got'[w]
      PROVE  ReadsFit'
  BY <1>2 DEF OneWorker, ReadsFit
<1>3. ASSUME NEW w \in Workers, pc'[w] \notin {"idle", "listed", "claiming", "checking"}
      PROVE  ReadsFit'
  BY <1>2, <1>3
<1>4. ASSUME NEW w \in Workers, got'[w] = Nothing, pc'[w] # "checking" PROVE ReadsFit'
  BY <1>2, <1>4, NothingIsRead
<1>5. ASSUME NEW w \in Workers, Leave(w) PROVE ReadsFit'
  BY <1>0, <1>4, <1>5 DEF Leave
<1>6. ASSUME NEW w \in Workers, StartTick(w) PROVE ReadsFit'
  BY <1>0, <1>3, <1>6 DEF StartTick
<1>7. ASSUME NEW w \in Workers, ReadForScan(w) PROVE ReadsFit'
  <2> PICK p \in {"list", "mark", "links"} :
        /\ got' = [got EXCEPT ![w] = Put(@, p,
             CASE p = "mark" -> catalog [] p = "links" -> links [] OTHER -> 0)]
        /\ pc' = [pc EXCEPT ![w] =
             IF {"list", "mark", "links"} \subseteq DOMAIN got[w] \cup {p}
             THEN "checking" ELSE "scanning"]
    BY <1>7 DEF ReadForScan
  <2>1. \E v : got'[w] = Put(got[w], p, v)
    BY <1>0
  <2>2. DOMAIN got'[w] = DOMAIN got[w] \cup {p}
    BY <2>1 DEF Put
  <2>3. pc'[w] = IF {"list", "mark", "links"} \subseteq DOMAIN got[w] \cup {p}
                 THEN "checking" ELSE "scanning"
    BY <1>0
  <2> QED BY <1>2, <2>2, <2>3
<1>8. ASSUME NEW w \in Workers, NEW r \in todo[w], CheckReport(w, r) PROVE ReadsFit'
  BY <1>1, <1>8 DEF CheckReport
<1>9. ASSUME NEW w \in Workers, ListRuns(w) PROVE ReadsFit'
  BY <1>0, <1>4, <1>9 DEF ListRuns
<1>10. ASSUME NEW w \in Workers, EndTick(w) PROVE ReadsFit'
  BY <1>0, <1>2, <1>10 DEF EndTick, Begun, ReadsFit
<1>11. ASSUME NEW w \in Workers, NEW r \in todo[w], Look(w, r) PROVE ReadsFit'
  BY <1>0, <1>2, <1>11 DEF Look, Begun, ReadsFit
<1>12. ASSUME NEW w \in Workers, EnterStage(w) PROVE ReadsFit'
  <2>1. Leave(w) \/ pc'[w] \in {"reading", "evaluating", "reviewing"}
    BY <1>0, <1>12 DEF EnterStage
  <2> QED BY <1>3, <1>5, <2>1
<1>13. ASSUME NEW w \in Workers, NEW r \in cur[w],
              Claim(w, r) \/ FencedRead(w, r) \/ Update(w, r) \/ CancelUpdate(w, r) \/ FailRun(w, r)
       PROVE  ReadsFit'
  <2>1. Leave(w) \/ EnterStage(w) \/ pc'[w] \in {"check", "cancel", "update"}
    BY <1>0, <1>13 DEF Claim, FencedRead, Update, CancelUpdate, FailRun
  <2> QED BY <1>3, <1>5, <1>12, <2>1
<1>14. ASSUME NEW w \in Workers, NEW r \in cur[w], ReadEvidence(w, r) \/ Evaluate(w, r) \/ Review(w, r)
       PROVE  ReadsFit'
  <2>1. pc'[w] \in {"reading", "check", "failed"}
    BY <1>0, <1>14 DEF ReadEvidence, Evaluate, Review, NextStage, Throw
  <2> QED BY <1>3, <2>1
<1>15. ASSUME NEW w \in Workers, StatementFails(w) \/ Crash(w) PROVE ReadsFit'
  BY <1>0, <1>3, <1>4, <1>15 DEF StatementFails, Crash
<1>16. ASSUME NEW w \in Workers, Tick(w) PROVE ReadsFit'
  BY <1>6, <1>7, <1>8, <1>9, <1>10, <1>11, <1>13, <1>14, <1>16 DEF Tick
<1>17. CASE \/ ChangeDesign \/ ChangeOthers \/ UNCHANGED vars
            \/ \E r \in Runs : Client(r) \/ LeaseExpires(r)
            \/ \E w \in Workers : Restart(w) \/ \E r \in cur[w] : Heartbeat(w, r)
  BY <1>1, <1>17 DEF ChangeDesign, ChangeOthers, Restart, vars, Client, Create, Cancel, ReadForAcceptance, Accept,
                     LeaseExpires, Heartbeat, workerVars
<1> QED BY <1>15, <1>16, <1>17 DEF Next

LEMMA BegunHolds == ASSUME OneWorker PROVE Spec => [](One /\ Begun)
<1>1. One /\ Begun /\ [Next]_vars => (One /\ Begun)'
  <2>1. ASSUME One, Begun, [Next]_vars PROVE One' /\ Unbegun' /\ Based' /\ ReadsFit'
    BY <2>1, OneNext, UnbegunStep, BasedStep, ReadsFitStep
  <2> QED BY <2>1 DEF Begun
<1> QED BY <1>1, OneInit, BegunInit, PTL DEF Spec

\* Evidence that shows the design as it is
Shows(e) == e.mark = catalog /\ e.links = links

\* What a worker has read so far shows the design as it is.
ReadsShow(g) ==
  /\ "mark" \in DOMAIN g => g["mark"] = catalog
  /\ "links" \in DOMAIN g => g["links"] = links

\* The evidence is not why the report is stale, if it is.
Excused(v) == v.lifecycle = "STALE" => v.reason = "RECONCILIATION_NOT_CONVERGED"

\* The design is settled, and whatever was or is being read for run r, or
\* compared with its report, shows the settled design.
Settled(r) ==
  /\ Quiet
  /\ Excused(report[r]) /\ \A e \in report[r].basis : Shows(e)
  /\ \A e \in snapshot[r] : Shows(e)
  /\ \A w \in Workers :
       r \in cur[w] \/ (pc[w] \in {"scanning", "checking"} /\ report[r].lifecycle # "NONE")
         => ReadsShow(got[w])

LEMMA SettledBegins ==
  ASSUME One, Begun, NEW r \in Runs, Quiet, status[r] = "NONE"
  PROVE  Settled(r)
<1>1. report[r].lifecycle = "NONE" /\ report[r].basis = {}
  BY DEF One, RowsFit, Unstarted, Fresh, Begun, Based
<1>2. snapshot[r] = {} /\ \A w \in Workers : r \notin cur[w]
  BY DEF Begun, Unbegun
<1> QED BY <1>1, <1>2 DEF Settled, Excused

\* The settled design does not change.
LEMMA DesignRests ==
  ASSUME Types, Quiet, [Next]_vars
  PROVE  Quiet' /\ UNCHANGED <<catalog, links>>
<1>1. ~ChangeDesign
  BY AssessmentAssumption, Typed DEF ChangeDesign, Quiet, DesignTypes
<1>2. ASSUME NEW w \in Workers, Tick(w) PROVE UNCHANGED design
  BY <1>2 DEF world, Tick, StartTick, ReadForScan, ListRuns, EndTick, CheckReport, Look, Claim, FencedRead,
              Update, CancelUpdate, ReadEvidence, Evaluate, Review, FailRun
<1>3. ASSUME NEW q \in Runs, Client(q) \/ LeaseExpires(q) PROVE UNCHANGED design
  BY <1>3 DEF world, Client, Create, Cancel, ReadForAcceptance, Accept, LeaseExpires
<1>4. ASSUME NEW w \in Workers, StatementFails(w) \/ Crash(w) \/ Restart(w) \/ \E q \in cur[w] : Heartbeat(w, q)
      PROVE  UNCHANGED design
  BY <1>4 DEF world, StatementFails, Crash, Restart, Heartbeat
<1>5. UNCHANGED design
  BY <1>1, <1>2, <1>3, <1>4 DEF Next, ChangeOthers, vars, world
<1> QED BY <1>5 DEF design, Quiet

LEMMA PutShows ==
  ASSUME NEW g, ReadsShow(g), NEW p, NEW v, p = "mark" => v = catalog, p = "links" => v = links
  PROVE  ReadsShow(Put(g, p, v))
BY DEF Put, ReadsShow

\* A whole page of events is all of them, while there are no more than a page.
LEMMA EventsAreRead ==
  ASSUME Types, Quiet, MaxChanges <= EvidenceLimit
  PROVE  EventsRead = links
BY Typed, AssessmentAssumption DEF EventsRead, Quiet, DesignTypes

\* The report of the run is written from evidence that shows the design, and is
\* not found outdated.
LEMMA SettledReport ==
  ASSUME OneWorker, One, Begun, NEW r \in Runs, Settled(r), [Next]_vars, UNCHANGED <<catalog, links>>
  PROVE  Excused(report'[r]) /\ \A e \in report'[r].basis : Shows(e)
<1>0. report \in [Runs -> Reports]
  BY Typed DEF One, ReportTypes
<1>1. CASE report'[r] = report[r]
  BY <1>1 DEF Settled
<1>2. ASSUME NEW l \in Lifecycles \ {"STALE"}, report' = [report EXCEPT ![r].lifecycle = l]
      PROVE  Excused(report'[r]) /\ \A e \in report'[r].basis : Shows(e)
  BY <1>0, <1>2, Relabelled DEF Settled, Excused
<1>3. ASSUME NEW w \in Workers, CheckReport(w, r), r \in todo[w]
      PROVE  Excused(report'[r]) /\ \A e \in report'[r].basis : Shows(e)
  <2>1. pc[w] = "checking" /\ report[r].lifecycle # "NONE"
    BY <1>3, Held DEF CheckReport, ListFits
  <2>2. got[w]["mark"] = catalog /\ got[w]["links"] = links
    BY <2>1 DEF Begun, ReadsFit, Settled, ReadsShow
  <2>3. ~Outdated(report[r].basis, got[w]["mark"], got[w]["links"])
    BY <2>1, <2>2 DEF Outdated, Begun, Based, Settled, Shows
  <2>4. report'[r] = report[r] \/ report'[r].reason = "RECONCILIATION_NOT_CONVERGED"
    BY <1>0, <1>3, <2>3, Staled DEF InvalidationReason
  <2>5. report'[r].basis = report[r].basis
    BY <1>0, <1>3, Staled
  <2> QED BY <2>4, <2>5 DEF Settled, Excused
<1>4. ASSUME NEW w \in Workers, Evaluate(w, r), r \in cur[w]
      PROVE  Excused(report'[r]) /\ \A e \in report'[r].basis : Shows(e)
  <2>1. CASE snapshot[r] = {}
    BY <1>1, <1>4, <2>1 DEF Evaluate
  <2>2. CASE snapshot[r] # {}
    <3> PICK b \in BOOLEAN : report' = [report EXCEPT ![r] =
               [lifecycle |-> "ASSESSED", blocked |-> b, basis |-> snapshot[r],
             reason |-> report[r].reason, acceptance |-> {}]]
      BY <1>4, <2>2 DEF Evaluate
    <3>1. report'[r].lifecycle = "ASSESSED" /\ report'[r].basis = snapshot[r]
      BY <1>0
    <3> QED BY <3>1 DEF Settled, Excused
  <2> QED BY <2>1, <2>2
<1>5. ASSUME NEW w \in Workers, Tick(w)
      PROVE  Excused(report'[r]) /\ \A e \in report'[r].basis : Shows(e)
  <2>1. \/ \E q \in todo[w] : CheckReport(w, q)
        \/ \E q \in cur[w] : Evaluate(w, q) \/ Review(w, q)
        \/ report' = report
    BY <1>5 DEF Tick, StartTick, ReadForScan, ListRuns, EndTick, Look, Claim, FencedRead, Update,
           CancelUpdate, ReadEvidence, FailRun
  <2>2. ASSUME NEW q \in todo[w], CheckReport(w, q)
        PROVE  Excused(report'[r]) /\ \A e \in report'[r].basis : Shows(e)
    <3>1. CASE q = r
      BY <1>3, <2>2, <3>1
    <3>2. CASE q # r
      BY <1>0, <1>1, <2>2, <3>2, Held, Staled
    <3> QED BY <3>1, <3>2
  <2>3. ASSUME NEW q \in cur[w], Evaluate(w, q)
        PROVE  Excused(report'[r]) /\ \A e \in report'[r].basis : Shows(e)
    <3>1. CASE q = r
      BY <1>4, <2>3, <3>1
    <3>2. CASE q # r
      BY <1>0, <1>1, <2>3, <3>2 DEF Evaluate
    <3> QED BY <3>1, <3>2
  <2>4. ASSUME NEW q \in cur[w], Review(w, q)
        PROVE  Excused(report'[r]) /\ \A e \in report'[r].basis : Shows(e)
    <3>1. report' = report \/ report' = [report EXCEPT ![q].lifecycle = "REVIEWED"]
      BY <2>4 DEF Review
    <3>2. CASE q = r
      BY <1>1, <1>2, <3>1, <3>2 DEF Lifecycles
    <3>3. CASE q # r
      BY <1>0, <1>1, <3>1, <3>3
    <3> QED BY <3>2, <3>3
  <2> QED BY <1>1, <2>1, <2>2, <2>3, <2>4
<1>6. CASE \E q \in Runs : Client(q) \/ LeaseExpires(q)
  <2>1. (\E q \in Runs, k \in Calls : Accept(q, k)) \/ report' = report
    BY <1>6 DEF Client, Create, Cancel, ReadForAcceptance, LeaseExpires
  <2>2. ASSUME NEW q \in Runs, NEW k \in Calls, Accept(q, k)
        PROVE  Excused(report'[r]) /\ \A e \in report'[r].basis : Shows(e)
    <3>1. CASE q = r
      BY <1>0, <2>2, <3>1, Accepted DEF Settled, Excused
    <3>2. CASE q # r
      BY <1>0, <1>1, <2>2, <3>2, Accepted
    <3> QED BY <3>1, <3>2
  <2> QED BY <1>1, <2>1, <2>2
<1>7. CASE \/ ChangeDesign \/ ChangeOthers \/ UNCHANGED vars
           \/ \E w \in Workers : StatementFails(w) \/ Crash(w) \/ Restart(w) \/ \E q \in cur[w] : Heartbeat(w, q)
  BY <1>1, <1>7 DEF ChangeDesign, ChangeOthers, Restart, StatementFails, Crash, Heartbeat, vars
<1> QED BY <1>5, <1>6, <1>7 DEF Next

\* A snapshot that is saved shows the design.
LEMMA SettledSnapshot ==
  ASSUME One, NEW r \in Runs, Settled(r), [Next]_vars
  PROVE  \A e \in snapshot'[r] : Shows(e)
<1>0. snapshot \in [Runs -> SUBSET Evidence]
  BY Typed DEF One, RunTypes
<1>1. CASE snapshot'[r] = snapshot[r]
  BY <1>1 DEF Settled
<1>2. ASSUME NEW w \in Workers, NEW q \in cur[w], Update(w, q) PROVE \A e \in snapshot'[r] : Shows(e)
  <2>1. CASE q = r /\ Owns(w, r) /\ stage[w] = "ANALYZING"
    <3>1. snapshot'[r] = Read(w)
      BY <1>0, <1>2, <2>1 DEF Update
    <3>2. {"rows", "mark", "links"} \subseteq DOMAIN got[w]
      BY <1>2, <2>1, Typed DEF One, Update, WorkerFits
    <3>3. ReadsShow(got[w])
      BY <2>1 DEF Settled
    <3> QED BY <3>1, <3>2, <3>3 DEF Read, ReadsShow, Shows
  <2>2. CASE ~(q = r /\ Owns(w, r) /\ stage[w] = "ANALYZING")
    BY <1>0, <1>1, <1>2, <2>2 DEF Update
  <2> QED BY <2>1, <2>2
<1>3. CASE snapshot' = snapshot
  BY <1>1, <1>3
<1>4. ASSUME NEW w \in Workers, Tick(w) PROVE \A e \in snapshot'[r] : Shows(e)
  <2>1. (\E q \in cur[w] : Update(w, q)) \/ snapshot' = snapshot
    BY <1>4 DEF Tick, StartTick, ReadForScan, ListRuns, EndTick, CheckReport, Look, Claim, FencedRead,
                CancelUpdate, ReadEvidence, Evaluate, Review, FailRun, runVars
  <2> QED BY <1>2, <1>3, <2>1
<1>5. CASE \E q \in Runs : Client(q) \/ LeaseExpires(q)
  BY <1>3, <1>5 DEF Client, Create, Cancel, ReadForAcceptance, Accept, LeaseExpires, runVars
<1>6. CASE \/ ChangeDesign \/ ChangeOthers \/ UNCHANGED vars
           \/ \E w \in Workers : StatementFails(w) \/ Crash(w) \/ Restart(w) \/ \E q \in cur[w] : Heartbeat(w, q)
  BY <1>3, <1>6 DEF ChangeDesign, ChangeOthers, Restart, StatementFails, Crash, Heartbeat, vars, runVars
<1> QED BY <1>4, <1>5, <1>6 DEF Next

\* What the worker reads for the run, or compares with its report, shows the design.
LEMMA SettledReads ==
  ASSUME OneWorker, MaxChanges <= EvidenceLimit, One, Begun, NEW r \in Runs, Settled(r), [Next]_vars,
         NEW v \in Workers,
         r \in cur'[v] \/ (pc'[v] \in {"scanning", "checking"} /\ report'[r].lifecycle # "NONE")
  PROVE  ReadsShow(got'[v])
<1>0. /\ pc \in [Workers -> Places] /\ got \in [Workers -> Gots] /\ report \in [Runs -> Reports]
      /\ cur \in [Workers -> SUBSET Runs] /\ Types
  BY Typed DEF One, WorkerTypes, ReportTypes
<1>1. ASSUME DOMAIN got'[v] = {} PROVE ReadsShow(got'[v])
  BY <1>1 DEF ReadsShow
<1>2. ASSUME got'[v] = Nothing PROVE ReadsShow(got'[v])
  BY <1>1, <1>2, NothingIsRead
<1>3. ASSUME got'[v] = got[v], r \in cur'[v] => r \in cur[v],
             pc'[v] \in {"scanning", "checking"} => pc[v] = pc'[v],
             report'[r].lifecycle # "NONE" /\ pc'[v] \in {"scanning", "checking"} => report[r].lifecycle # "NONE"
      PROVE  ReadsShow(got'[v])
  BY <1>3 DEF Settled
<1>4. ASSUME StartTick(v) \/ EndTick(v) PROVE ReadsShow(got'[v])
  <2>1. cur[v] = {} /\ cur' = cur /\ got' = got
    BY <1>4, Held DEF StartTick, EndTick, BusyPlaces
  <2>2. DOMAIN got[v] = {}
    BY <1>4 DEF StartTick, EndTick, Begun, ReadsFit
  <2> QED BY <1>1, <2>1, <2>2
<1>5. ASSUME ReadForScan(v) PROVE ReadsShow(got'[v])
  <2> PICK p \in {"list", "mark", "links"} :
        got' = [got EXCEPT ![v] = Put(@, p,
             CASE p = "mark" -> catalog [] p = "links" -> links [] OTHER -> 0)]
    BY <1>5 DEF ReadForScan
  <2>1. ReadsShow(got[v])
    BY <1>5, Held DEF ReadForScan, Settled, BusyPlaces
  <2> PICK x : x = CASE p = "mark" -> catalog [] p = "links" -> links [] OTHER -> 0
    OBVIOUS
  <2>2. p = "mark" => x = catalog
    OBVIOUS
  <2>3. p = "links" => x = links
    OBVIOUS
  <2>4. got'[v] = Put(got[v], p, x)
    BY <1>0
  <2> QED BY <2>1, <2>2, <2>3, <2>4, PutShows
<1>6. ASSUME NEW q \in todo[v], CheckReport(v, q) PROVE ReadsShow(got'[v])
  <2>1. UNCHANGED <<pc, cur, got>> /\ pc[v] = "checking"
    BY <1>6 DEF CheckReport
  <2>2. report[q].lifecycle # "NONE"
    BY <1>6, <2>1, Held DEF ListFits
  <2>3. report[r].lifecycle = "NONE" => report'[r] = report[r]
    BY <1>0, <1>6, <2>2, Held, Staled
  <2> QED BY <1>3, <2>1, <2>3
<1>7. ASSUME ListRuns(v) \/ Crash(v) \/ Leave(v) PROVE ReadsShow(got'[v])
  BY <1>0, <1>2, <1>7 DEF ListRuns, Crash, Leave
<1>8. ASSUME NEW q \in todo[v], Look(v, q) PROVE ReadsShow(got'[v])
  <2>1. DOMAIN got[v] = {} /\ got' = got
    BY <1>8 DEF Look, Begun, ReadsFit
  <2> QED BY <1>1, <2>1
<1>9. ASSUME NEW q \in cur[v], Claim(v, q) PROVE ReadsShow(got'[v])
  <2>1. DOMAIN got[v] = {} /\ got' = got
    BY <1>9 DEF Claim, Begun, ReadsFit
  <2> QED BY <1>1, <2>1
<1>10. ASSUME UNCHANGED <<cur, got>>, pc'[v] \notin {"scanning", "checking"} PROVE ReadsShow(got'[v])
  BY <1>3, <1>10
<1>11. ASSUME EnterStage(v) PROVE ReadsShow(got'[v])
  <2>1. Leave(v) \/ (UNCHANGED <<cur, got>> /\ pc'[v] \in {"reading", "evaluating", "reviewing"})
    BY <1>0, <1>11 DEF EnterStage
  <2> QED BY <1>7, <1>10, <2>1
<1>12. ASSUME NEW q \in cur[v], FencedRead(v, q) \/ Update(v, q) \/ CancelUpdate(v, q) \/ FailRun(v, q)
       PROVE  ReadsShow(got'[v])
  <2>1. Leave(v) \/ EnterStage(v) \/ (UNCHANGED <<cur, got>> /\ pc'[v] \in {"cancel", "update"})
    BY <1>0, <1>12 DEF FencedRead, Update, CancelUpdate, FailRun
  <2> QED BY <1>7, <1>10, <1>11, <2>1
<1>13. ASSUME NEW q \in cur[v], Evaluate(v, q) \/ Review(v, q) PROVE ReadsShow(got'[v])
  <2>1. UNCHANGED <<cur, got>> /\ pc'[v] \in {"check", "failed"}
    BY <1>0, <1>13 DEF Evaluate, Review, NextStage, Throw
  <2> QED BY <1>10, <2>1
<1>14. ASSUME NEW q \in cur[v], ReadEvidence(v, q) PROVE ReadsShow(got'[v])
  <2>1. cur' = cur /\ pc[v] = "reading" /\ pc'[v] \in {"reading", "check"}
    BY <1>0, <1>14 DEF ReadEvidence, NextStage
  <2>2. ReadsShow(got[v])
    BY <2>1 DEF Settled
  <2>3. EventsRead = links
    BY <1>0, EventsAreRead DEF Settled
  <2>4. \/ \E p \in {"rows", "mark"} : got'[v] = Put(got[v], p, IF p = "rows" THEN rows ELSE catalog)
        \/ got'[v] = Put(got[v], "links", links)
    BY <1>0, <1>14, <2>3 DEF ReadEvidence
  <2> QED BY <2>2, <2>4, PutShows
<1>15. ASSUME StatementFails(v) PROVE ReadsShow(got'[v])
  BY <1>0, <1>10, <1>15 DEF StatementFails
<1>16. CASE UNCHANGED <<pc, cur, got, report>>
  BY <1>3, <1>16
<1>17. ASSUME NEW q \in Runs, NEW k \in Calls, Accept(q, k) PROVE ReadsShow(got'[v])
  <2>1. report[q].lifecycle # "NONE" /\ UNCHANGED <<pc, cur, got>>
    BY <1>17 DEF Accept, One, RowsFit, AcceptanceFits, workerVars
  <2>2. report[r].lifecycle = "NONE" => report'[r] = report[r]
    BY <1>0, <1>17, <2>1, Accepted
  <2> QED BY <1>3, <2>1, <2>2
<1>18. ASSUME Tick(v) PROVE ReadsShow(got'[v])
  BY <1>4, <1>5, <1>6, <1>7, <1>8, <1>9, <1>12, <1>13, <1>14, <1>18 DEF Tick
<1>19. ASSUME NEW w \in Workers, Tick(w) \/ StatementFails(w) \/ Crash(w) PROVE ReadsShow(got'[v])
  <2>1. w = v
    BY DEF OneWorker
  <2> QED BY <1>7, <1>15, <1>18, <1>19, <2>1
<1>20. ASSUME NEW q \in Runs, Client(q) \/ LeaseExpires(q) PROVE ReadsShow(got'[v])
  <2>1. (\E k \in Calls : Accept(q, k)) \/ UNCHANGED <<pc, cur, got, report>>
    BY <1>20 DEF Client, Create, Cancel, ReadForAcceptance, LeaseExpires, workerVars
  <2> QED BY <1>16, <1>17, <2>1
<1>21. CASE \/ ChangeDesign \/ ChangeOthers \/ UNCHANGED vars
            \/ \E w \in Workers : Restart(w) \/ \E q \in cur[w] : Heartbeat(w, q)
  BY <1>16, <1>21 DEF ChangeDesign, ChangeOthers, Restart, Heartbeat, vars, workerVars
<1> QED BY <1>19, <1>20, <1>21 DEF Next

LEMMA SettledStep ==
  ASSUME OneWorker, MaxChanges <= EvidenceLimit, One, Begun, NEW r \in Runs, Settled(r), [Next]_vars
  PROVE  Settled(r)'
<1>1. Quiet' /\ catalog' = catalog /\ links' = links
  BY DesignRests DEF One, Settled
<1>2. Excused(report'[r]) /\ \A e \in report'[r].basis : Shows(e)
  BY <1>1, SettledReport
<1>3. \A e \in snapshot'[r] : Shows(e)
  BY SettledSnapshot
<1>4. ASSUME NEW v \in Workers,
             r \in cur'[v] \/ (pc'[v] \in {"scanning", "checking"} /\ report'[r].lifecycle # "NONE")
      PROVE  ReadsShow(got'[v])
  BY <1>4, SettledReads
<1> QED BY <1>1, <1>2, <1>3, <1>4 DEF Settled, Shows, ReadsShow

\* With one worker, and no more relationship events than a snapshot reads, a run
\* created after the last change of the design gets a report that never goes
\* stale because the evidence changed: neither a scan that began before the
\* change nor an acceptance, a cancellation, a failure, a crash or a restart in
\* between makes it so.
THEOREM FreshReportsStayFresh ==
  ASSUME OneWorker, MaxChanges <= EvidenceLimit PROVE Spec => StaleOnlyWhenChanged
<1>1. ASSUME NEW r \in Runs
      PROVE  Spec => [](Quiet /\ status[r] = "NONE" => []Excused(report[r]))
  <2>1. One /\ Begun /\ Quiet /\ status[r] = "NONE" => Settled(r)
    BY SettledBegins
  <2>2. One /\ Begun /\ Settled(r) /\ [Next]_vars => Settled(r)'
    BY SettledStep
  <2>3. Settled(r) => Excused(report[r])
    BY DEF Settled
  <2> QED BY <2>1, <2>2, <2>3, BegunHolds, PTL DEF Spec
<1> QED BY <1>1 DEF StaleOnlyWhenChanged, Excused
=============================================================================
