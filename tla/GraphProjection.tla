-------------------------- MODULE GraphProjection --------------------------
(***************************************************************************)
(* Delivery of the relationship outbox to the derived graph:               *)
(*   apps/graph-projector   claim / project / complete / retry / dead      *)
(*                          letter, on PostgreSQL rows with leases         *)
(*   apps/graph-gateway     the Go gateway that executes one projection as *)
(*                          a sequence of NebulaGraph statements           *)
(*   apps/mcp-server        the commands that append outbox rows, and the  *)
(*                          archival of verification scopes                *)
(*                                                                         *)
(* An event is one row of "RelationshipOutbox".  Its scope, the graph      *)
(* element it describes and whether the projector supports its type are    *)
(* data of the row and therefore constants; everything the code updates is *)
(* a variable.                                                             *)
(***************************************************************************)
EXTENDS Integers, FiniteSets

CONSTANTS
  Scopes,              \* exact architecture scopes
  Events,              \* outbox rows that may be written
  Elements,            \* graph elements (logical edges and nodes)
  Workers,             \* projector processes
  NoWorker,            \* leaseOwner IS NULL
  ScopeOf,             \* the scope of each event
  ElementOf,           \* the graph element each event carries
  Unsupported,         \* events of a type projectionPayload rejects
  VerificationScopes,  \* scopes whose outbox may be archived
  SnapshotScopes,      \* scopes in which SERIALIZABLE commands run too
  BatchSize,           \* LIMIT of the claim
  MaxAttempts,         \* attempts before a failure dead-letters the row
  MaxFaults            \* bound: failures, timeouts, crashes, early expiries

ASSUME ConstantsAssumption ==
  /\ ScopeOf \in [Events -> Scopes]
  /\ ElementOf \in [Events -> Elements]
  /\ Unsupported \subseteq Events
  /\ VerificationScopes \subseteq Scopes
  /\ SnapshotScopes \subseteq Scopes
  /\ NoWorker \notin Workers
  /\ BatchSize \in Nat \ {0}
  /\ MaxAttempts \in Nat \ {0}
  /\ MaxFaults \in Nat

VARIABLES
  head,               \* highest graphVersion of a RelationshipEvent, per scope
  version,            \* graphVersion of each row, 0 while it does not exist
  status,             \* status column of each row
  owner,              \* leaseOwner column
  attempts,           \* attemptCount column
  due,                \* availableAt (PENDING) or leaseExpiresAt (DELIVERING)
                      \* has been reached
  checkpoint,         \* ProjectionCheckpoint.projectionVersion, 0 if no row
  pc,                 \* where each worker is inside processOnce
  batch,              \* claimed rows the worker has still to process
  cur,                \* the claimed row the worker is processing
  requests,           \* projections the gateway is executing
  graph,              \* NebulaGraph: version last written to each element
  graphCheckpoint,    \* NebulaGraph: the specforge_checkpoint vertex
  applied,            \* events whose projection ran to its end at least once
  late,               \* history: rows written at a version already in use
  covered,            \* history: those written at or below the checkpoint
  faults              \* failures so far, at most MaxFaults

historyVars == <<late, covered>>
rowVars     == <<head, version, status, owner, attempts, due, historyVars>>
workerVars  == <<pc, batch, cur>>
gatewayVars == <<requests, graph, graphCheckpoint, applied>>
vars == <<rowVars, checkpoint, workerVars, gatewayVars, faults>>

-----------------------------------------------------------------------------

Statuses == {"ABSENT", "PENDING", "DELIVERING", "COMPLETED", "DEAD_LETTER", "ARCHIVED"}

\* A claimed row as processOnce holds it: attempt is the attemptCount that
\* the claim returned, not the one the table holds later.
Claims == [event : Events, attempt : Nat]

Stages == {"sent", "written", "done", "error"}

Requests == [claim : Claims, stage : Stages]

Places == {"ready", "projecting", "acked", "failed"}

TypeOK ==
  /\ head \in [Scopes -> Nat]
  /\ version \in [Events -> Nat]
  /\ status \in [Events -> Statuses]
  /\ owner \in [Events -> Workers \cup {NoWorker}]
  /\ attempts \in [Events -> Nat]
  /\ due \in [Events -> BOOLEAN]
  /\ checkpoint \in [Scopes -> Nat]
  /\ pc \in [Workers -> Places]
  /\ batch \in [Workers -> SUBSET Claims]
  /\ cur \in [Workers -> SUBSET Claims]
  /\ requests \in SUBSET Requests
  /\ graph \in [Elements -> Nat]
  /\ graphCheckpoint \in [Scopes -> Nat]
  /\ applied \in SUBSET Events
  /\ late \in SUBSET Events
  /\ covered \in SUBSET Events
  /\ faults \in 0 .. MaxFaults

\* Nothing has been authored.
Init ==
  /\ head = [s \in Scopes |-> 0]
  /\ version = [e \in Events |-> 0]
  /\ status = [e \in Events |-> "ABSENT"]
  /\ owner = [e \in Events |-> NoWorker]
  /\ attempts = [e \in Events |-> 0]
  /\ due = [e \in Events |-> FALSE]
  /\ checkpoint = [s \in Scopes |-> 0]
  /\ pc = [w \in Workers |-> "ready"]
  /\ batch = [w \in Workers |-> {}]
  /\ cur = [w \in Workers |-> {}]
  /\ requests = {}
  /\ graph = [x \in Elements |-> 0]
  /\ graphCheckpoint = [s \in Scopes |-> 0]
  /\ applied = {}
  /\ late = {}
  /\ covered = {}
  /\ faults = 0

-----------------------------------------------------------------------------
(* Helpers                                                                 *)

\* status NOT IN ('COMPLETED', 'ARCHIVED') is what blocks a scope.
SettledIn(st, e) == st[e] \in {"COMPLETED", "ARCHIVED"}
Settled(e) == SettledIn(status, e)

\* f is a row of e's scope with a smaller graph version.
Earlier(f, e) ==
  /\ status[f] # "ABSENT"
  /\ ScopeOf[f] = ScopeOf[e]
  /\ version[f] < version[e]

\* Fault: the update names the row only.
OwnsMutant(w, e) == status[e] # "ABSENT"

\* ownershipWhere: the fence of complete, retry and deadLetter.  It does not
\* look at leaseExpiresAt.
Owns(w, e) == status[e] = "DELIVERING" /\ owner[e] = w

\* A worker still waits for the reply to the projection of claim c.
Awaited(c) == \E w \in Workers : pc[w] = "projecting" /\ cur[w] = {c}

\* Some worker still has the current claim of e in its hands.
Held(e) ==
  \E w \in Workers :
    /\ owner[e] = w
    /\ \E c \in batch[w] \cup cur[w] : c.event = e /\ c.attempt = attempts[e]

\* Fault: the claim forgets the rows of smaller versions.
ClaimableMutantUnordered(e) ==
  /\ status[e] \in {"PENDING", "DELIVERING"}
  /\ due[e]

\* Fault: expired leases are not recovered.
ClaimableMutantNoRecovery(e) ==
  /\ status[e] = "PENDING"
  /\ due[e]
  /\ \A f \in Events : Earlier(f, e) => Settled(f)

\* Rows the claim may take: due, and no unsettled row of a smaller version.
Claimable(e) ==
  /\ status[e] \in {"PENDING", "DELIVERING"}
  /\ due[e]
  /\ \A f \in Events : Earlier(f, e) => Settled(f)

\* Fault: rows of the same version are not required to be settled.
ContiguousVersionsMutant(s, st) ==
  {version[e] : e \in {d \in Events :
     /\ ScopeOf[d] = s
     /\ st[d] = "COMPLETED"
     /\ \A f \in Events :
          /\ st[f] # "ABSENT"
          /\ ScopeOf[f] = s
          /\ version[f] < version[d]
          => SettledIn(st, f)}}

\* Versions of COMPLETED rows of s with every row up to them settled.
ContiguousVersions(s, st) ==
  {version[e] : e \in {d \in Events :
     /\ ScopeOf[d] = s
     /\ st[d] = "COMPLETED"
     /\ \A f \in Events :
          /\ st[f] # "ABSENT"
          /\ ScopeOf[f] = s
          /\ version[f] <= version[d]
          => SettledIn(st, f)}}

\* contiguousProjectedVersion and CHECKPOINT_SQL after the statuses became st:
\* no qualifying version leaves the checkpoint, otherwise GREATEST(old, max).
AdvanceCheckpoint(s, st) ==
  LET C == ContiguousVersions(s, st)
  IN  \/ C = {} /\ UNCHANGED checkpoint
      \/ \E v \in C :
           /\ \A u \in C : u <= v
           /\ checkpoint' = [checkpoint EXCEPT ![s] = IF v > @ THEN v ELSE @]

-----------------------------------------------------------------------------
(* The authoring side: persistChanges appends the rows of one command,     *)
(* under the scope lock, with the version that reserveNextGraphVersion     *)
(* finds to be the next.                                                   *)

\* The rows E of a command that takes version v.
Append(s, E, v) ==
  /\ E # {}
  /\ \A e \in E : ScopeOf[e] = s /\ status[e] = "ABSENT"
  /\ head' = [head EXCEPT ![s] = IF v > @ THEN v ELSE @]
  /\ version' = [e \in Events |-> IF e \in E THEN v ELSE version[e]]
  /\ status' = [e \in Events |-> IF e \in E THEN "PENDING" ELSE status[e]]
  /\ due' = [e \in Events |-> IF e \in E THEN TRUE ELSE due[e]]
  /\ late' = IF v <= head[s] THEN late \cup E ELSE late
  /\ covered' = IF v <= checkpoint[s] THEN covered \cup E ELSE covered
  /\ UNCHANGED <<owner, attempts, checkpoint, workerVars, gatewayVars, faults>>

\* A READ COMMITTED command looks for the highest version after it got the lock.
Publish(s, E) == Append(s, E, head[s] + 1)

\* A SERIALIZABLE command (a promotion, a feature change) took its snapshot
\* before it waited for the lock: the next version in that snapshot may be one
\* that READ COMMITTED commands have used since, which PostgreSQL does not
\* count as a conflict.
PublishFromSnapshot(s, E, v) ==
  /\ s \in SnapshotScopes
  /\ v \in 1 .. head[s]
  /\ Append(s, E, v)

\* archiveSeedGraphOutbox: every row of a verification scope that is not
\* completed becomes history, whoever holds it.
Archive(s) ==
  LET rows == {e \in Events : /\ ScopeOf[e] = s
                              /\ status[e] \in {"PENDING", "DELIVERING", "DEAD_LETTER"}}
  IN  /\ s \in VerificationScopes
      /\ rows # {}
      /\ status' = [e \in Events |-> IF e \in rows THEN "ARCHIVED" ELSE status[e]]
      /\ owner' = [e \in Events |-> IF e \in rows THEN NoWorker ELSE owner[e]]
      /\ due' = [e \in Events |-> IF e \in rows THEN FALSE ELSE due[e]]
      /\ UNCHANGED <<head, version, attempts, historyVars, checkpoint, workerVars, gatewayVars, faults>>

-----------------------------------------------------------------------------
(* The projector: one pass of processOnce                                  *)

\* CLAIM_SQL.  SKIP LOCKED and LIMIT make it some of the claimable rows.  The
\* runtime starts a pass only when the previous one has ended.
Claim(w, S) ==
  /\ pc[w] = "ready" /\ batch[w] = {}
  /\ S # {} /\ Cardinality(S) <= BatchSize
  /\ \A e \in S : Claimable(e)
  /\ status' = [e \in Events |-> IF e \in S THEN "DELIVERING" ELSE status[e]]
  /\ owner' = [e \in Events |-> IF e \in S THEN w ELSE owner[e]]
  /\ attempts' = [e \in Events |-> IF e \in S THEN attempts[e] + 1 ELSE attempts[e]]
  /\ due' = [e \in Events |-> IF e \in S THEN FALSE ELSE due[e]]
  /\ batch' = [batch EXCEPT ![w] = {[event |-> e, attempt |-> attempts[e] + 1] : e \in S}]
  /\ UNCHANGED <<head, version, historyVars, checkpoint, pc, cur, gatewayVars, faults>>

\* gateway.project(event): projectionPayload rejects an unsupported row before
\* anything is sent; otherwise the request is posted.  No lease is looked at.
Send(w, c) ==
  /\ pc[w] = "ready" /\ c \in batch[w]
  /\ batch' = [batch EXCEPT ![w] = @ \ {c}]
  /\ cur' = [cur EXCEPT ![w] = {c}]
  /\ IF c.event \in Unsupported
     THEN pc' = [pc EXCEPT ![w] = "failed"] /\ UNCHANGED requests
     ELSE /\ pc' = [pc EXCEPT ![w] = "projecting"]
          /\ requests' = requests \cup {[claim |-> c, stage |-> "sent"]}
  /\ UNCHANGED <<rowVars, checkpoint, graph, graphCheckpoint, applied, faults>>

\* The reply arrives: a valid receipt, or an error status.
Reply(w, c) ==
  /\ pc[w] = "projecting" /\ cur[w] = {c}
  /\ \E r \in requests :
       /\ r.claim = c /\ r.stage \in {"done", "error"}
       /\ requests' = requests \ {r}
       /\ pc' = [pc EXCEPT ![w] = IF r.stage = "done" THEN "acked" ELSE "failed"]
  /\ UNCHANGED <<rowVars, checkpoint, batch, cur, graph, graphCheckpoint, applied, faults>>

\* requestTimeoutMs elapses.  A request the gateway has not finished goes on
\* without anybody waiting for it; a reply on its way is lost.
Timeout(w, c) ==
  /\ pc[w] = "projecting" /\ cur[w] = {c}
  /\ faults < MaxFaults /\ faults' = faults + 1
  /\ pc' = [pc EXCEPT ![w] = "failed"]
  /\ requests' = {r \in requests : ~(r.claim = c /\ r.stage \in {"done", "error"})}
  /\ UNCHANGED <<rowVars, checkpoint, batch, cur, graph, graphCheckpoint, applied>>

\* Fault: the row gets a status no reader knows.
CompletedMutant(e) == [status EXCEPT ![e] = "SENT"]

Completed(e) == [status EXCEPT ![e] = "COMPLETED"]

\* repository.complete: the fenced update and the checkpoint, one transaction
\* under the scope lock.  A row the worker no longer owns is left alone.
CompleteRow(w, e) ==
  IF Owns(w, e)
  THEN /\ status' = Completed(e)
       /\ owner' = [owner EXCEPT ![e] = NoWorker]
       /\ due' = [due EXCEPT ![e] = FALSE]
       /\ AdvanceCheckpoint(ScopeOf[e], Completed(e))
  ELSE UNCHANGED <<status, owner, due, checkpoint>>

Complete(w, c) ==
  /\ pc[w] = "acked" /\ cur[w] = {c}
  /\ CompleteRow(w, c.event)
  /\ pc' = [pc EXCEPT ![w] = "ready"]
  /\ cur' = [cur EXCEPT ![w] = {}]
  /\ UNCHANGED <<head, version, attempts, historyVars, batch, gatewayVars, faults>>

\* The completion transaction throws: rolled back, or committed with the
\* connection lost before the answer.  Either way the catch block runs.
CompleteThrows(w, c) ==
  /\ pc[w] = "acked" /\ cur[w] = {c}
  /\ faults < MaxFaults /\ faults' = faults + 1
  /\ UNCHANGED <<status, owner, due, checkpoint>> \/ CompleteRow(w, c.event)
  /\ pc' = [pc EXCEPT ![w] = "failed"]
  /\ UNCHANGED <<head, version, attempts, historyVars, batch, cur, gatewayVars>>

LastAttempt(c) == c.attempt >= MaxAttempts

\* The catch block: the scope is blocked for the rest of the pass (its rows
\* keep their lease), and the row is rescheduled, or dead-lettered when the
\* claim was its last attempt.  Both updates are fenced.
RetryOrDeadLetter(w, c) ==
  LET e == c.event
  IN  /\ pc[w] = "failed" /\ cur[w] = {c}
      /\ IF Owns(w, e)
         THEN /\ status' = [status EXCEPT ![e] =
                   IF LastAttempt(c) THEN "DEAD_LETTER" ELSE "PENDING"]
              /\ owner' = [owner EXCEPT ![e] = NoWorker]
              /\ due' = [due EXCEPT ![e] = FALSE]
         ELSE UNCHANGED <<status, owner, due>>
      /\ pc' = [pc EXCEPT ![w] = "ready"]
      /\ cur' = [cur EXCEPT ![w] = {}]
      /\ batch' = [batch EXCEPT ![w] = {d \in @ : ScopeOf[d.event] # ScopeOf[e]}]
      /\ UNCHANGED <<head, version, attempts, historyVars, checkpoint, gatewayVars, faults>>

\* The process stops, or a fenced update throws out of processOnce: the rest
\* of the batch is forgotten and every lease is left to expire.
Abort(w) ==
  /\ batch[w] \cup cur[w] # {}
  /\ faults < MaxFaults /\ faults' = faults + 1
  /\ pc' = [pc EXCEPT ![w] = "ready"]
  /\ batch' = [batch EXCEPT ![w] = {}]
  /\ cur' = [cur EXCEPT ![w] = {}]
  /\ requests' = {r \in requests : ~(r.claim \in cur[w] /\ r.stage \in {"done", "error"})}
  /\ UNCHANGED <<rowVars, checkpoint, graph, graphCheckpoint, applied>>

\* The backoff of a PENDING row ends, or the lease of a DELIVERING row does.
\* The whole batch is leased when it is claimed, so a lease may end while its
\* worker is still busy: that is counted as a fault.
TimePasses(e) ==
  /\ ~due[e]
  /\ status[e] \in {"PENDING", "DELIVERING"}
  /\ due' = [due EXCEPT ![e] = TRUE]
  /\ IF status[e] = "DELIVERING" /\ Held(e)
     THEN faults < MaxFaults /\ faults' = faults + 1
     ELSE UNCHANGED faults
  /\ UNCHANGED <<head, version, status, owner, attempts, historyVars, checkpoint,
                 workerVars, gatewayVars>>

-----------------------------------------------------------------------------
(* The gateway: Project runs the element statements, then the checkpoint   *)
(* statement.  None of them compares versions.                             *)

\* A request nobody waits for leaves no reply behind.
Finish(r, stage) ==
  requests' = (requests \ {r})
                \cup (IF Awaited(r.claim) THEN {[claim |-> r.claim, stage |-> stage]} ELSE {})

WriteElements(r) ==
  /\ r.stage = "sent"
  /\ graph' = [graph EXCEPT ![ElementOf[r.claim.event]] = version[r.claim.event]]
  /\ requests' = (requests \ {r}) \cup {[claim |-> r.claim, stage |-> "written"]}
  /\ UNCHANGED <<rowVars, checkpoint, workerVars, graphCheckpoint, applied, faults>>

WriteCheckpoint(r) ==
  LET e == r.claim.event
  IN  /\ r.stage = "written"
      /\ graphCheckpoint' = [graphCheckpoint EXCEPT ![ScopeOf[e]] = version[e]]
      /\ applied' = applied \cup {e}
      /\ Finish(r, "done")
      /\ UNCHANGED <<rowVars, checkpoint, workerVars, graph, faults>>

\* A statement fails: what was written before it stays.  The context of an
\* abandoned request is cancelled, which also ends it here.
StatementFails(r) ==
  /\ r.stage \in {"sent", "written"}
  /\ IF Awaited(r.claim)
     THEN faults < MaxFaults /\ faults' = faults + 1
     ELSE UNCHANGED faults
  /\ Finish(r, "error")
  /\ UNCHANGED <<rowVars, checkpoint, workerVars, graph, graphCheckpoint, applied>>

-----------------------------------------------------------------------------

WorkerStep(w) ==
  \/ \E S \in SUBSET Events : Claim(w, S)
  \/ \E c \in batch[w] : Send(w, c)
  \/ \E c \in cur[w] : Reply(w, c) \/ Complete(w, c) \/ RetryOrDeadLetter(w, c)

WorkerFault(w) ==
  \/ \E c \in cur[w] : Timeout(w, c) \/ CompleteThrows(w, c)
  \/ Abort(w)

GatewayStep(r) == WriteElements(r) \/ WriteCheckpoint(r)

Next ==
  \/ \E s \in Scopes, E \in SUBSET Events :
       \/ Publish(s, E)
       \/ \E v \in 1 .. head[s] : PublishFromSnapshot(s, E, v)
  \/ \E s \in Scopes : Archive(s)
  \/ \E w \in Workers : WorkerStep(w) \/ WorkerFault(w)
  \/ \E e \in Events : TimePasses(e)
  \/ \E r \in requests : GatewayStep(r) \/ StatementFails(r)

Spec == Init /\ [][Next]_vars

\* Every worker keeps polling and its awaits return, a request the gateway
\* has accepted is executed or cancelled, time passes.  Failures need not.
Fairness ==
  /\ \A w \in Workers : WF_vars(WorkerStep(w))
  /\ \A e \in Events : WF_vars(TimePasses(e))
  /\ WF_vars(\E r \in requests : GatewayStep(r))

FairSpec == Spec /\ Fairness

-----------------------------------------------------------------------------
(* Safety                                                                  *)

\* "A checkpoint cannot advance until the corresponding projection is
\* acknowledged": a COMPLETED row has been executed by the gateway to its end,
\* and every row up to a scope's checkpoint is settled, but for the rows that
\* a command with an old snapshot wrote under a checkpoint already there.
CheckpointIsSound ==
  \A e \in Events :
    /\ status[e] = "COMPLETED" => e \in applied
    /\ /\ status[e] # "ABSENT"
       /\ version[e] <= checkpoint[ScopeOf[e]]
       => Settled(e) \/ e \in covered

\* Every row of a smaller version in the scope of e is settled, or was written
\* when that version was already in use.
InOrder(e) == \A f \in Events : Earlier(f, e) => Settled(f) \/ f \in late

\* "A failed lower graph version cannot be skipped by a later successful
\* event": whatever a worker holds or the gateway executes, even under a lease
\* that has expired, every row of a smaller version of its scope is settled,
\* unless it was written late.
NoOvertaking ==
  /\ \A w \in Workers : \A c \in batch[w] \cup cur[w] : InOrder(c.event)
  /\ \A r \in requests : InOrder(r.claim.event)

\* Retries are bounded: a row goes back to PENDING only with attempts left and
\* is dead-lettered only after MaxAttempts claims.
RetryBudget ==
  \A e \in Events :
    /\ status[e] = "PENDING" => attempts[e] < MaxAttempts
    /\ status[e] = "DEAD_LETTER" => attempts[e] >= MaxAttempts

\* What a worker does under a lease it has lost never undoes a terminal row:
\* COMPLETED and ARCHIVED are final and DEAD_LETTER can only be archived.
TerminalIsFinal ==
  [][\A e \in Events :
       /\ Settled(e) => status'[e] = status[e]
       /\ status[e] = "DEAD_LETTER" => status'[e] \in {"DEAD_LETTER", "ARCHIVED"}]_vars

\* The checkpoint of a scope moves only when one of its rows completes, only
\* forward, and only over rows that are settled, those written late included.
CheckpointFollowsCompletion ==
  [][\A s \in Scopes :
       checkpoint'[s] # checkpoint[s] =>
         /\ checkpoint'[s] > checkpoint[s]
         /\ \E e \in Events :
              ScopeOf[e] = s /\ status[e] = "DELIVERING" /\ status'[e] = "COMPLETED"
         /\ \A f \in Events :
              status[f] # "ABSENT" /\ ScopeOf[f] = s /\ version[f] <= checkpoint'[s]
              => SettledIn(status', f)]_vars

(* Refinement                                                              *)

Ordered == INSTANCE OrderedDelivery WITH
  latest <- head,
  published <- version,
  belated <- late,
  settled <- {e \in Events : Settled(e)},
  watermark <- checkpoint

\* The projector keeps the promise of OrderedDelivery whatever expires, stops,
\* times out or is delivered twice.
ImplementsOrderedDelivery == Ordered!Spec

(* Liveness                                                                *)

Failed(e) == \E f \in Events : /\ ScopeOf[f] = ScopeOf[e]
                               /\ version[f] <= version[e]
                               /\ status[f] = "DEAD_LETTER"

\* Every authored row is eventually delivered or archived, or stands behind a
\* dead letter of its scope: no crash, lost lease or lost reply strands it.
EventuallySettledOrBlocked ==
  \A e \in Events : status[e] = "PENDING" ~> (Settled(e) \/ Failed(e))

-----------------------------------------------------------------------------
(* What the documents say and the code does not do                         *)

\* "Idempotent graph writes and checkpoint ordering produce effective once-only
\* graph state per event version": when every row is completed and the gateway
\* is idle, each element shows the newest version authored for it.
GraphConverges ==
  (/\ \A e \in Events : status[e] = "COMPLETED"
   /\ requests = {}
   /\ \A w \in Workers : batch[w] \cup cur[w] = {})
  => \A e \in Events : graph[ElementOf[e]] >= version[e]
=============================================================================
