# SpecForge in TLA+

SpecForge keeps the design knowledge of an enterprise — assets, typed
relationships between them, assessments of requirements against them — in
PostgreSQL, behind one write boundary (the MCP server), and derives from it a
graph in NebulaGraph and several read models. This directory holds TLA+ models
of the protocols between its processes, the TLC runs that check them on small
instances, and proofs, checked by TLAPS, of their main properties for every
instance. Paths are relative to the root of the repository.

## 1. The system

### Components, their state and their operations

| component | state | operations | hard behaviour |
|---|---|---|---|
| relationship commands (`apps/mcp-server/src/relationships`) | `AssetNode`, `RelationshipCurrent`, `RelationshipEvent`, `RelationshipOutbox`, `RelationshipCommandReceipt` | upsert and delete of links, upsert and retirement of the graph of an asset | concurrent callers, two isolation levels under one advisory lock, retries with the same key, lost answers |
| feature change sets, promotions (`features/service.ts`, `knowledge/promotion.ts`) | the same tables | the same commands inside SERIALIZABLE transactions | snapshot taken before the lock is granted |
| authored catalog (`persistence.ts`, `knowledge/catalog-revision.ts`, `data-models/change-set.ts`) | `DesignAsset`, `AuthoredCatalogCursor`, `AuthoredAssetRevision`, search rows | upsert, change sets, delete, seed cleanup, bootstrap | lock order, content-hash keys, stale search rows |
| graph projector (`apps/graph-projector`) | leases, attempts and statuses of outbox rows; `ProjectionCheckpoint` | claim, project, complete, retry, dead-letter | leases that end early, timeouts, crashes, order of versions |
| graph gateway (`apps/graph-gateway`) | NebulaGraph vertices, edges, checkpoint vertex | one projection = a sequence of statements | a request outlives its client; no version is compared |
| graph generations (`apps/graph-projector/src/generation-repository.ts`) | manifests and the active generation | create, validate, publish, roll back, retire | builds that fail, readers of a retired generation |
| requirement assessment (`apps/requirement-assessment-worker`, `apps/mcp-server/src/requirement-assessment`) | runs, snapshots, reports | create, cancel, claim, stages, accept, mark stale | no transaction spans two statements |
| impact worker (`apps/impact-worker`, `packages/graph-store`) | impact runs, their result nodes and frontier | run, resume, retry; a traversal with limits of depth, nodes, paths and time | updates without a fence, budgets that end an expansion anywhere |
| connector worker (`apps/connector-worker`, `apps/mcp-server/src/connectors`) | connector runs, the lease and the cursor of a stream, batches, observations | create, pause, resume, claim, heartbeat, submit, finalize, record a failure | a lease that ends while pages are submitted |
| knowledge governance (`apps/mcp-server/src/knowledge`) | review bundles, decisions, assertions, change sets, baselines | review, promote, reconcile, publish | decisions read without a lock, assertions that change hands |
| knowledge projector (`apps/knowledge-projector`) | builds, rows of their generations, manifests | request, claim, batch, units, publish | leases, restarts between batches, a baseline that changes during a build |
| scanner (`apps/mcp-server/src/scanner`, `apps/specforge-cli`) | sessions, batches, local spool | open, upload, seal, replay | repeated and reordered uploads |
| federation (`apps/mcp-server/src/federation`) | imported catalogues | import, reconcile | SERIALIZABLE retries |
| identity, readiness, queries, web, extractors | — | short transactions, pure functions, reads | none of these |

### How they interact

    MCP clients ──calls──> MCP server ──transactions──> PostgreSQL
                                                           │ RelationshipOutbox
                            graph projector <──claims──────┤
                                  │ HTTP                   │ design, runs, builds
                                  v                        v
                            graph gateway      assessment, impact and connector
                                  │ nGQL       workers, knowledge projector
                                  v
                              NebulaGraph

The impact worker waits for the checkpoint the graph projector leaves. The
connector worker runs the transactions of the MCP server's connector modules.
The knowledge projector builds what baselines the governance commands published.

The only shared memory is PostgreSQL. The MCP server serialises the commands of
a scope with `pg_advisory_xact_lock`; workers exclude each other with lease
columns; the projector and the gateway talk over HTTP with a timeout. Nothing
else synchronises anything.

### What makes each component correct

- *commands*: a key is executed once and answered one way; the event log is a
  complete, ordered history of every row; its graph version is a waterline that
  readers may rely on; links follow the asset that declares them.
- *projector*: a scope's rows are delivered in order, whatever times out or is
  delivered twice; the checkpoint covers only what was delivered; retries are
  bounded; nothing is stranded.
- *gateway*: the graph ends as the log says.
- *assessments*: a complete run has a reviewed report; an accepted report is a
  record; an outdated one is found out; a cancelled or interrupted run ends.
- *catalog*: dense versions, a log in the order of the writes that explains the
  rows, transactions that end although their lock orders differ.
- *connector*: the pages of a run are accepted in the order of the source, by
  whichever worker; a deletion is inferred from complete snapshots only; a run
  that delivered its source does not fail.
- *impact*: what a run found and its frontier lead to everything it can reach,
  and to nothing else, however often it is resumed; its graph was as new as
  required; cancellation is honoured.
- *knowledge*: a published projection shows all of its baseline and nothing it was
  not reviewed with; a build ends, restarts notwithstanding.
- *impact, knowledge*: what a worker does after losing its lease does not change
  what its successor did.

## 2. Modules

| module | stands for |
|---|---|
| `OrderedDelivery` | abstract: what the delivery of the outbox promises |
| `GraphProjection` | projector, gateway, outbox rows, archival |
| `GraphProjectionProofs` | its theorems |
| `IdempotentLedger` | abstract: a log of commands by key with versions |
| `RelationshipCommands` | the command service and its transactions |
| `RelationshipCommandsProofs` | its theorems |
| `AssessmentRun` | runs, reports and freshness of requirement assessments |
| `AuthoredCatalog` | rows, revisions and cursor of the authored catalog |
| `AuthoredCatalogProofs` | its theorems |
| `ConnectorStream` | one stream of continuous observations: runs, lease, batches |
| `InventoryDelivery` | what a stream promises of the inventories it delivers; `ConnectorStream` implements it |
| `BoundedTraversal` | one bounded breadth-first traversal, as values |
| `ImpactRun` | an impact analysis run and the calls that work on it; EXTENDS `BoundedTraversal` |
| `KnowledgeBaselines` | review, promotion and publication of baselines |
| `ProjectionBuild` | builds of the projections of baselines; EXTENDS `KnowledgeBaselines` |
| `PublishedProjections` | what readers of projections are promised; `ProjectionBuild` implements it |
| `AssessmentRunProofs` | theorems of `AssessmentRun` |
| `ConnectorStreamProofs` | theorems of `ConnectorStream` |
| `ImpactRunProofs` | theorems of `ImpactRun` |
| `ProjectionBuildProofs` | types, publication and lost builds of `ProjectionBuild` |
| `PublicationProofs` | a published projection is whole, and readers see it so: the refinement of `PublishedProjections`; EXTENDS `ProjectionBuildProofs` |
| `MC…` | instances for TLC: small constants, symmetry |

A definition whose comment begins with "Fault:" is a mutation of the definition
after it that a plausible bug would make; it is used by no specification and
shows, substituted for the original, that the property of the same run notices.

### GraphProjection

One row of `RelationshipOutbox` is an event `e`; `ScopeOf`, `ElementOf` and
`Unsupported` are its immutable columns. `status`, `owner`, `attempts` are the
columns of that meaning. The clock is one bit per row: `due[e]` says that
`availableAt` (PENDING) or `leaseExpiresAt` (DELIVERING) has been reached.
`pc`, `batch` and `cur` are the local state of `processOnce`: a claimed row is
remembered with the `attemptCount` the claim returned, because the decision to
dead-letter uses that copy.

| action | code |
|---|---|
| `Publish` | the rows one command appends, all with the next graph version |
| `Claim` | `CLAIM_SQL`: any part of the claimable rows (`SKIP LOCKED`, `LIMIT`) |
| `Send`, `Reply`, `Timeout` | `HttpGraphGateway.project`; a row the payload resolver rejects fails before anything is sent |
| `Complete`, `CompleteThrows` | the fenced update with `CHECKPOINT_SQL`; the transaction may fail, or commit and lose its answer |
| `RetryOrDeadLetter` | the catch block, which also blocks the scope for the rest of the pass |
| `Abort` | the process stops, or an update of the catch block throws |
| `TimePasses` | a backoff or a lease ends |
| `WriteElements`, `WriteCheckpoint`, `StatementFails` | the statements of `OfficialClient.Project` |
| `Archive` | `archiveSeedGraphOutbox` |

Simplifications: one projection name (the default one, so one checkpoint per
scope); the statements that write the elements of one event are one step, since
events here carry one element (a failure between them is a failure before the
step); reading the endpoints of a link for the payload is part of `Send`.
`EnsureSchema`, validation and the health endpoint change nothing here.

### RelationshipCommands

A command is a transaction: `Submit` and `Begin` (the lock is granted), `Execute`
(receipt looked up, rows read, changes decided), then `Commit` or
`EndWithoutEffect`, and `Answer`. The command service's loops over nodes and
links are sets of changes: `Declared`, `Withdrawn`, `Stubs`, `ChangesOf`. An
asset stands for its root node. Its entity and field nodes are written with it
and have events of their own in the code; they are left out because they follow
the root in everything the properties speak of.

`SnapshotCommands` run at SERIALIZABLE, through a feature change set or a
promotion. PostgreSQL takes the snapshot of such a transaction at its first
statement, and here that is the one that waits for the advisory lock. So their
plan is made when the call opens (`Opened`), and at commit `Conflicts` rejects it
if a row it writes has changed; `Doomed` is what serializable snapshot isolation
rejects on top of that: two SERIALIZABLE commands that both read the largest
version, and two asset commands that both took a version of the catalog cursor.
A SERIALIZABLE command against a READ COMMITTED one is not rejected: PostgreSQL
tracks read dependencies among SERIALIZABLE transactions only.

### AssessmentRun

Neither worker nor tools open a transaction, so every statement is a step:
`Look` and `Claim` are the two halves of `claimRun`, `FencedRead` and `Update` (or
`CancelUpdate`) those of `fencedUpdate`, `ReadForAcceptance` and `Accept` those of
`acceptRequirementAssessment`. `got` holds the parts of the design a worker has
read: `rows`, the cursor `mark` and the number of events `links` come from
different statements. Statements of one `Promise.all` are taken in any order.
`retry` has no caller and is left out. A statement that commits although its
answer is lost is taken as one that fails before it.

### AuthoredCatalog

Every operation is one transaction, written as the sequence of its steps in
`After`: which lock it asks for, when it reads, writes, logs and commits.

| operation | code | order of its locks |
|---|---|---|
| `upsert` | `upsertDesignAsset` | row, cursor (only if it logs), scope |
| `change` | `applyDataModelChangeSet` with a model (`persistDataModel`) | scope, row, cursor |
| `remove` | the same with a deletion (`deleteDataModel`) | scope, row, cursor |
| `feature` | `applyFeatureChangeSet` (`persistFeature`), SERIALIZABLE | scope, row, cursor |
| `purge` | `deletePersistedDesignData`, the cleanup of a seed | scope, cursor, row |
| `bootstrap` | `bootstrapAuthoredCatalog` | cursor, for each row it read |

| action | code |
|---|---|
| `Begin` | `$transaction`; a feature change set also takes its snapshot (`seen`, `since`) |
| `LockScope` | `lockScope`, or, of an upsert, the one inside `upsertAssetGraph` |
| `Read` | the `findMany`/`findUnique` that decides what is deleted or logged |
| `WriteRow` | upsert or delete of the row, which stays locked |
| `LookUpKey` | the `findUnique` of `appendAuthoredAssetRevision` |
| `AppendRevision` | increment of the cursor and insertion of the revision |
| `AllLogged` | the loop over the rows to log ends |
| `Rejected` | the unique index on the key, or a SERIALIZABLE update of what has changed |
| `RollBack`, `DeadlockVictim` | a refused request, a failed statement, a timeout; deadlock detection |

`locks` is what PostgreSQL grants; a lock is held until the transaction ends.
`Key` is the idempotency key of a revision by what it distinguishes: the content
written (`upsert`, `change`), the content deleted (`remove`), nothing but the asset
(`purge`, `bootstrap`), the request (`feature`). The insert of a revision whose key
was committed since it was looked up violates the unique index; PostgreSQL has
then aborted the transaction, so the lookup in the `catch` block fails as well
and the transaction rolls back. A transaction writes one asset (a change set may
hold several in the code: they take their row locks in the order of the request).
Proposals and context packs are written by code of the same form. Links, search
rows and receipts of change sets are left out.

### ConnectorStream

The runs of one connector and source namespace share one row of
`ConnectorLease` and one numbering of accepted batches. `status`, `token`,
`accepted` and `position` are the columns of a run; `lease` is the lease row and
`late` says that it has ended; `log` holds the batches, `observed` the observations
derived from them, `finals` the snapshots that were finalized. A batch stands for
its digest. `job[w]` is what the scheduler of worker `w` remembers of the run it
works on: a token from the claim, sequence and source cursor from
`getConnectorRun`.

| action | code |
|---|---|
| `List`, `EndTick` | `runOnce`: the queued runs, up to its limit |
| `ReadRun`, `Claim` | `claimConnectorRun`: what it reads before, and what it does under, the lock of the stream |
| `Describe` | `getConnectorRun` |
| `Submit` | poll and `submitContinuousObservationBatchV2`; a batch that is there already is a retry |
| `Heartbeat` | `heartbeatConnectorLease` |
| `Finalize` | `finalizeContinuousSnapshot` with its tombstones |
| `RecordFailure` | the catch block: by the key of the run alone |
| `Create`, `Ask`, `SetStatus`, `Push` | the MCP tools; pause and resume read the run first and write its status later |
| `CallFails`, `Crash`, `LeaseExpires` | any call refused or failing; the process stops; the lease ends |

`InventoryDelivery` is the promise of lines 245 and 246 of the design
(`docs/superpowers/specs/2026-08-17-enterprise-continuous-inbound-connectors-design.md`)
without workers, leases, tokens, sequences and cursors: after each page of a run
comes its next one, and what one complete snapshot has and the next one of its
boundary lacks is deleted. The mapping is `ConnectorStream!Inventory`:
pages are those of the log without token and mark of the last, snapshots are the runs of `finals`,
facts are the observations. A batch accepted in `Submit` or `Push` is `Deliver`,
`Finalize` is `Complete`, and everything else, retries among it, stutters.

Left out: TOMBSTONE operations of a delta, the local repository of the first
version, dead letters (only a tool writes them) and the content of observations.
A page is any set of identities. Transactions of the stream are one step each:
they begin with its advisory lock; `claim` does not and is two steps.

### BoundedTraversal and ImpactRun

`Starts` and `Hops` give the values a walk may take: `paths` found, the `queue`
that is still to be expanded, the `frontier`. Depth, nodes, paths and time end a
walk as the code ends it: at its start, before a query, between two rows of one,
or with the row that the query returns beyond the room for paths. `Candidates`
follows a relationship in the direction in which it propagates; between two
nodes there is at most one. Which rows come first is left open.

`ImpactRun` is one run in the database and the calls of `run`, `resume` and `retry`
on it, each statement a step: `ReadCheckpoint`, `Stamp` and `Wait` are the
statements with which `execute` compares the projection with what is required,
`Begin` and `Hop` the traversal, `Complete`, `Fail` and `Missed` what follows it. All
of them but `Cancel` and `Requeue` are fenced by status, owner and lease
(`Holds`). `Look` is `isCancellationRequested`, before the claim, before the
traversal and after it. `mixed` is a history variable for one race: `resume` has
read the frontier, then another worker completes the run with fewer results, and
then `resume` reads the results.

### KnowledgeBaselines and ProjectionBuild

`KnowledgeBaselines` has one action per command of the governed path: a decision
is `ReadForDecision` and `RecordDecision`, for its transaction is READ COMMITTED and
locks nothing; promotions are SERIALIZABLE and one step. An assertion row names
one change set, the last that promoted it (`changeSetOf`), and a baseline names a
change set, so what a projection reads of a baseline (`Content`) may shrink, and
`Reviewed` is what its change set was promoted with. Candidates, reviewer policy,
several streams and change sets committed by hand are left out.

`ProjectionBuild` adds the builds. Each transaction of `processNext` is a step:
`Renew` (before each of the others), `LoadPage`, `LoadRelationships`, `WriteBatch`,
`WriteUnits`, `CheckPublication` and `CommitPublication`. The last two are one
transaction in the code, which locks no row before it writes by the key of the
build; `Fail` is the fenced failure. Each attempt is a generation of its own.
Coverage builds (one batch, the same steps), the analysis that is derived after
publication and the initial build at installation are left out.

`PublishedProjections` is the promise of `docs/adr/0022-3a-architecture-navigation-workspace.md`
(lines 23 and 42) without batches, leases and workers: baselines are published and may
lose assertions, builds are requested, and a build is shown in one step, whole with respect to
what its baseline holds then, and never otherwise afterwards. The mapping is
`ProjectionBuild!Readers`: a build shows its rows once its manifest is there.
`CommitPublication` is `Show`, or a stutter when another worker committed before;
`PublishBaseline` and `Request` are themselves, all else of the governed path is
`Withdraw`, and every other step of a worker stutters.

## 3. Runs

Every `cfg` gives the constants; the bounds are the sizes of the sets,
`MaxFaults` (failures, timeouts, crashes, lost answers, leases that end while
their holder works), `MaxOutside` (in `ConnectorStream` those and the calls of
clients, in `KnowledgeBaselines` commands of others on the graph), `MaxChanges`
(changes of the design), `MaxAttempts`, `MaxCalls` (of run, resume and retry),
`MaxJobs` and `MaxBaselines`, `EvidenceLimit` (the 500 events of the code) and
`MaxVersion` (no transaction of the catalog begins once the cursor is there).

| run | instance | shows |
|---|---|---|
| `projection_safety` | 2 workers, 3 rows of 2 scopes of which one is of an unsupported type, 2 attempts, 1 fault, archival at any time | types, sound checkpoints, terminal rows are final, refinement of `OrderedDelivery`; every row is settled or stands behind a dead letter of its scope |
| `commands_log` | 2 clients, 3 keys, 7 commands on 3 assets, all READ COMMITTED | the log is an ordered, complete history; parsed links follow content; retirement isolates; graph versions are a stable waterline; refinement of `IdempotentLedger` |
| `commands_retries` | 2 clients that share 1 key, some commands SERIALIZABLE, 1 fault | types; every answer of a key agrees; a call ends |
| `catalog_safety` | 2 transactions of any kinds, a data model older than the log and a feature, 2 contents, version 2 | rows are logged, the newest write last; transactions end, deadlocks included |
| `assessment` | 1 worker, 1 run, 2 changes, limit 2, 1 fault | complete runs are reviewed, accepted reports are records, outdated reports are found, fresh ones stay, and without a fault every run ends |
| `connector_safety` | 2 workers, 2 snapshot runs of 2 and 1 pages, 1 identity, 2 client calls or faults | pages come in order, snapshots are complete, deletions are inferred, refinement of `InventoryDelivery` |
| `impact_safety` | 2 workers, 5 nodes with a cycle, depth 1, 3 nodes, 3 paths, 4 calls, 1 fault | results and frontier belong together, nothing unreachable, projected as required, a lost lease is lost, cancellation is honoured |
| `knowledge_safety` | 2 workers, 2 assets and a link between them, batches of 2, 1 baseline, 2 builds, 2 faults | a published projection is whole, refinement of `PublishedProjections`, a lost build is lost, builds end |

Why these bounds are enough to be interesting. With two workers and one fault a
row is claimed, expires, is claimed again and completed while its first holder
still sends it, and three rows leave a row before one, and one in another scope.
Two attempts separate the retry from the last attempt, which the unsupported row
also reaches without a fault. Two clients of one scope are all that can
interleave under its lock; three keys allow two commands after the one that is
disturbed; one key makes every call a retry or a conflict. Two transactions make
every lock cycle there is between two kinds of operations, and those that begin
at version 1 see a log that another has written; contents can return, and a
deletion can be repeated. Two changes of the design put one before and one
inside the reading of a snapshot. The deployment runs one assessment worker, so
the assessment run has one; what a second would do is listed below. Two snapshot
runs of one boundary infer a deletion from each other, and the longer one has a
page between which workers change; two outside events are a lease that ends and
a client that pauses, or a pushed page and a crash. Depth 1 and three nodes cut
every traversal of the five-node graph, so that a run needs resumes to end; four
calls are a run, two resumes and one that races them. Three assertions in
batches of two are a first and a last batch, with the relationship in one and an
end of it in the other; two faults stop the first worker and its successor. The
proofs remove the bounds for the properties they cover.

With SERIALIZABLE commands in `commands_log` the waterline and retirement fail
(see below); the other properties of the log are proved for them too, and
`ParserLinksFollowContent` was checked with them once, on a larger instance that
takes too long to keep. With two assessment workers `StaleOnlyWhenChanged` fails.

Deadlock is not checked where the system really stops: in `projection_safety`
(its finite set of rows is eventually settled, or a dead letter blocks the
scope), `catalog_safety` (no transaction begins after `MaxVersion`; that none is
stuck is `TransactionsEnd`), and in the runs of impact and knowledge (a cancelled
run, builds that are all READY or FAILED; that none is stuck is `CancellationIsHonoured` and
`BuildsEnd`). It is checked in all others.

### Disagreements with the documents

Each of these runs checks one sentence of the documentation and finds a
behaviour of the code that contradicts it; `PROJECT.json` quotes the sentence.

| run | what happens |
|---|---|
| `projection_graph_diverge` | a row projected late by a worker that lost its lease leaves the older state of an element in the graph for good |
| `connector_delta` | the submission of the last page of a delta succeeds the run and deletes its lease; the heartbeat after it is refused, and the catch block marks the run FAILED |
| `impact_whole` | a node with more neighbours than there is room for paths is left half expanded and not on the frontier; a resumed run ends COMPLETE without the others |
| `knowledge_resume` | a build that is stopped twice after its last batch starts from the first row with the counts it had, and fails with a wrong count |

### Observations without a run

Met while the modules were written; each follows from the lines named.

- `projectionPayload` rejects delete and invalidate events
  (`apps/graph-projector/src/repository.ts:58`): each ends as a dead letter and
  blocks its scope. `Unsupported` rows stand for them.
- The checkpoint vertex of the graph is written without comparing versions
  (`apps/graph-gateway/internal/nebula/adapter.go:92`), so a late request moves it back.
- An outage of the gateway that lasts `maxAttempts` deliveries dead-letters the first
  row of every scope; nothing replays it (`apps/graph-projector/src/projector.ts:134`).
- A SERIALIZABLE command that waited for the scope lock computes its graph version
  from its snapshot (`apps/mcp-server/src/relationships/repository.ts:159`) and reuses
  one that was committed meanwhile; therefore `commands_log` and the theorems
  `WaterlineIsStable` and `LedgerRefinement` are about READ COMMITTED commands only.
- An upsert's graph command is keyed by its content as well
  (`apps/mcp-server/src/persistence.ts:996`): contents A, B, A leave the graph at B.
- A bootstrap logs what it read before it waited for the cursor
  (`apps/mcp-server/src/knowledge/catalog-revision.ts:124`): a row that was written
  and logged meanwhile gets an older revision after its newest one.
- Cancellation: `fencedUpdate` reads the status and then updates fenced by the owner
  only (`apps/requirement-assessment-worker/src/worker.ts:93`), so a run cancelled
  between the two, or while queued, need not become CANCELLED.
- Acceptance writes by key what it decided on an earlier read
  (`apps/mcp-server/src/requirement-assessment/tools.ts:83`): it can overwrite STALE.
- `claimRun` updates without the condition it read
  (`apps/requirement-assessment-worker/src/repository.ts:155`): two workers would both
  execute a run, and rewrite a report that was accepted in between.
- A snapshot's rows and waterline come from different statements, and its links are
  the first 500 events (`apps/requirement-assessment-worker/src/main.ts:91`): beyond
  them every report goes stale at once.
- A change set that retires a feature takes its snapshot before it waits for the
  scope lock (`apps/mcp-server/src/features/service.ts:151`) and misses a link that
  is committed meanwhile: the retired feature keeps it ACTIVE.
- A revision is keyed by its content (`apps/mcp-server/src/persistence.ts:1950`):
  contents A, B, A, or A written again after a deletion, are not logged a second
  time, and the newest revision of the asset is not what its row says.
- A stopped assessment worker leaves its run RUNNING and `listRunnableRuns` never returns it
  (`apps/requirement-assessment-worker/src/repository.ts:272`). So does a stopped
  connector worker (`apps/connector-worker/src/prisma-gateway.ts:12`).

Of the connectors (`apps/mcp-server/src/connectors/v2-persistence.ts`):

- Whoever loses a claim, or a call after it, marks the run FAILED by its key
  (`apps/connector-worker/src/scheduler.ts:70`): the winner's run, and one that has
  SUCCEEDED.
- The token of a claim is that of the lease plus one, or, when there is no lease,
  that of the run as read before the lock was granted (line 93): after a lease
  was deleted two claimants may hold one token. What fences a submission is the
  token of the run, not the lease.
- Pause and resume write a status they decided on earlier (line 283): a run that
  has ended is queued again and delivers its source again.
- A second run of a stream starts at the sequence after its own last batch, not
  after the stream's, and is refused until it was given pages by other means.
- The catalogue adapter reports one constant source version
  (`apps/connector-worker/src/adapters/postgres-schema.ts:62`): a deletion inferred
  under it has the key of the observation it deletes, and is skipped.

Of the impact worker (`apps/impact-worker/src/worker.ts`,
`packages/graph-store/src/postgres.ts`):

- Start nodes within the limits of nodes or paths are found and never expanded
  when there are more than the limit; a hub with more neighbours than a budget
  makes a resume end where it began.
- The graph may change between two hops, and a hop does not look at the
  lifecycle of nodes.
- `resume` and `retry` requeue by the key of the run: a run cancelled in between is
  revived. A crash between requeue and claim makes the next `run` start again from
  the roots.
- Two calls on one instance of the worker share the owner, so that the fence does
  not tell them apart; the model has one call per worker.

Of the knowledge path (`apps/mcp-server/src/knowledge`, `apps/knowledge-projector/src`):

- A promotion moves the rows of its assertions to its own change set: a projection
  built of the older baseline afterwards, or at the time, shows less than one built
  before. `Content` and `Reviewed` keep the two apart in `PublishedIsWhole`.
- A relationship whose end was promoted in another change set makes every build of
  its baseline fail with an unresolved endpoint.
- Publication reads the build without locking it and then sets it READY by key; a
  worker that takes over in between is overruled. Its rows are the same.
- The default name of a worker contains its process number only, and two
  containers may have the same.
- Two decisions on one bundle may both read it READY; a rejection does not look at
  its status and leaves assertions ACCEPTED.
- A batch that is not the last leaves its build to the end of the lease.
- A baseline of an older change set can be published after that of a newer one.

### Fairness

`GraphProjection!FairSpec`: the runtime polls with `setInterval` and every await of
a pass returns (requests have a timeout), so a worker that can step does; time
passes, so backoffs and leases end; the gateway runs a request it accepted to
its end or fails it. No fairness for faults, authoring and archival.
`RelationshipCommands!FairSpec`: PostgreSQL grants an advisory lock to waiters in
turn (strong fairness of `Begin`: the lock is free again and again, not all the
time) and an open transaction ends. Clients need not repeat a call.
`AuthoredCatalog!FairSpec`: statements end; PostgreSQL queues those who wait for a lock,
so a lock that is free again and again is granted (strong fairness of what waits
for one), and it looks for cycles of waits and ends one of their members.
`AssessmentRun!FairSpec`: the worker polls and its statements end. Clients,
changes and failures owe nothing.
`ImpactRun!FairSpec`: a call that has begun goes on; nobody owes one.
`ProjectionBuild!FairSpec`: workers poll for builds and go on with what they claimed,
and the clock moves, so a lease nobody renews ends. `ConnectorStream` states no
fairness: nothing promises that a run ends, and a run left by a stopped worker does
not.

## 4. Proofs

The proofs hold for all values of the constants that satisfy
`ConstantsAssumption`, `CommandsAssumption`, `CatalogAssumption`, `AssessmentAssumption`,
`ConnectorAssumption`, `TraversalAssumption`, `ImpactAssumption`, `GovernanceAssumption` and
`ProjectionAssumption`: any number of
scopes, rows, workers, clients, keys, assets, transactions, attempts and faults. These
assumptions are only that the constants have the types their comments say and
that names of states do not coincide.

**GraphProjection.** `CheckpointIsSound` is not inductive: that a row may be completed
at all without leaving a gap rests on what workers hold. `DeliveryInvariant`
strengthens it with: a claimed row, and every request in the gateway, stands
behind settled rows only (`NoOvertaking`); this is preserved because versions are
given out increasingly and settled rows stay settled; a worker that has been
acknowledged holds a row in `applied`; versions exist just for authored rows and
do not exceed `head`; attempts of claims are attempts of their row or less. From
it follow `CheckpointSoundness`, `NoOvertakingEver`, `RetriesAreBounded`, the action
properties `TerminalRowsAreFinal` and `CheckpointsFollowCompletion`, and
`Refinement`: `Complete` of an owned row is `OrderedDelivery!Settle`, `Archive` is
`WriteOff`, `Publish` is `Publish`, and every other step stutters.
`GraphConverges` is what the documents promise and `projection_graph_diverge` refutes.
`ConvergesWithoutLateWrites` proves it of the behaviours without a `LateWrite` (the gateway writes
an element for a row that has been settled meanwhile) where the rows of an element
belong to one scope, as the code forms them: `ElementsShow` (an element shows what
has been written or more) is kept because, by `NoOvertaking`, a row that is not
settled is the oldest of its scope. So late writes are the only
cause of the divergence.

**RelationshipCommands.** `CommandInvariant` is `TypeOK`, mutual exclusion of READ
COMMITTED plans by the lock (`Mutex`), `PlanInv` (what an open plan holds is what
its command does to some state of the tables, its graph version is above all
events of the subjects it writes, and at READ COMMITTED the tables have not
changed since), `LogInv` (rows, versions and events belong together) and
`AnswersAgree`. Uniqueness of row versions in the log is then the conflict check,
order in the log follows from the lock plus that check. `WaterlineIsStable` and
`LedgerRefinement` are proved under `SnapshotCommands = {}`: with
SERIALIZABLE commands they fail, as the observations above say.
`ParserLinksFollow` needs no such assumption: `PlansFollowContent` says of each open
plan that whatever tables it is committed to, the links it writes for an asset are
those of the content it writes, and a plan that writes only links of tools touches
no declared one. `RetirementIsolates` assumes `~RetiresAtSnapshot`, that no command that
retires an asset is SERIALIZABLE, while others may be: a retirement that reads under
the lock sees every link there is (`LockedPlanIsOfRows`). A retirement by a feature change
set does not, which is the observation about `features/service.ts` above.

**AuthoredCatalog.** `CatalogInv` consists of two facts about locks (`LocksExclude`:
no two transactions hold one; `KeysNameContents`: what a key of the log says is
what its revision left) and, for each transaction, `TransactionOK`: it is at a
step its operation has (`Placed`); the revisions it has not committed continue
the cursor it holds (`Numbered`); at SERIALIZABLE what it saw is still what is
there once it has passed the check (`Current`); when it comes to commit, what it
wrote is logged by itself or by an earlier revision (`ToBeCovered`); it logs its own
asset at most once (`LogsOnce`) and holds the lock of the row it has written
(`RowLocked`). `VersionsAreDense` then follows at a commit because the cursor was
locked since the first increment; `EveryRowLogged` from `ToBeCovered`;
`ExpectedVersionHolds` from `Current`; `LoggedWritesAreLatest` because the new
revision has the highest version.

**AssessmentRun.** Types are kept with any number of workers. The rest assumes
`OneWorker`, which is what is deployed: two would write one another's run. `One` adds to
the types, for the worker, what it has done by the stage it is in (`WorkFits`: a
run it has not begun has no report, in REVIEWING the report rests on the snapshot
the run names, in COMPLETE it is reviewed and linked), and, for the rows, that a report read
as acceptable is still reviewed and not blocked (`RowsFit`).
`CompleteRunsAreReviewed` and `AcceptedReportsAreUnblocked` follow, and
`AcceptedReportsStand`: a report is written while its run is evaluated or reviewed, and a
run has no accepted report then. `FreshReportsStayFresh` adds `Begun` (nothing rests
on evidence from the future, and a run not created has none) and, for a run
created when the design no longer changes, `Settled`: its report, its snapshot and
all that is being read for it show the design as it is. It assumes that all the
relationship events of the design fit in a snapshot (`MaxChanges <= EvidenceLimit`,
the 500 of the code); beyond, a report goes stale at once, as listed above.

**ConnectorStream.** `RunKnowsItsBatches` and `PagesInOrder` need each other and two facts
more: a batch says truly whether its page is the last (`BatchesSayLast`), and the
source cursor of a run is the page after that of its last batch (`PositionsFollow`).
What a worker submits comes from an earlier read; `JobsFollow` says that its page is
still the next one unless the run has accepted a batch since, and then the sequence
or the token refuses it. `PagesBefore` (a batch of a page has all pages
below it before it in the log) turns order into completeness: `SnapshotsHoldPages` holds
because finalization asks for a last page. `InferredDeletionsAreComplete` assumes
`VersionsDiffer`, a source version for each run: an identity that a finalization
infers is then either recorded as deleted by it, or was by an earlier one of
the same run, and never hidden by an observation of the run, for whatever was
observed is in a batch of it (`ObservationsWereSeen`). Without the assumption the theorem
fails, as the observation on the catalogue adapter says.
`StreamsDeliverInventories` is the refinement and needs no such assumption, for
`InventoryDelivery` keeps of an identity and a version what is heard first, as the
code does. By `PositionFollows` the source cursor of a run names the page that follows the
last one of it in the log, also where a run that has ended was queued again, and by
`JobsFollow` a page that is accepted is that one; `SnapshotsHoldPages` makes the
last batch of a run that is finalized the last page of its source.

**ImpactRun.** `ImpactInv` has a part for the row and one for the calls. Every set that
holds the roots and is closed under `Candidates` holds what the row lists (`RowWithin`)
and what a call carries (`JobWithin`): quantifying over closed sets says
reachability without recursion. That an ended run saw the projection it requires
rests on what a call knows after its wait (`JobFits`). `LostLeasesAreLost` is an action
property: the fence of each statement is evaluated in the statement.
`FrontiersBelong` and `CompleteRunsAreWhole` are about what is not lost. `WalkSound`
says, without recursion, that what a walk has found and what it owes (queue and
frontier, `Owed`) lead to all that its start nodes lead to (`Leads`); `JobCovers` carries
that over the calls that put the results of one walk to those of others. Where
it fails is known: `impact_whole` shows a hub that is cut off in mid-expansion. The
assumptions exclude the ways in which the code drops what it saw: the
budgets of nodes and paths are such that the one of paths is the tighter
(`createGraphTraversalPlan` makes them equal), the roots fit in what a plan admits as start
nodes, and a query leaves out no more than the row it shows (`Affordable`: a node
leads to at most two, or there is room for all paths of the graph). The instance
`impact_safety` satisfies them. Under them the documented claim of `impact_whole`,
that COMPLETE means exhausted, is a theorem.

**ProjectionBuild.** `BuildInv` is types and `ReadyIsPublished`; that a build becomes READY
only by `CommitPublication`, and never leaves it, gives `ReadyBuildsArePublished`, and the
fences give `LostBuildsAreLost`. `PublishedProjectionsAreWhole` needs much more,
`PublicationInv`. `MembersFit`: the assertions a change set has now were accepted and
promoted with it, so the content of a baseline only shrinks. `BuildFits`: what lies
behind the cursor of a build is written, the relationships were written with the first
batch, and no row was outside the review. `WorkerFits`: what each worker holds is
true of its build also when the build is no longer its own, because rows of a
build are only added. `TakeoverFits`: a worker that took a build over while another
is between check and commit of its publication writes nothing whose ends are
missing, so the closure that was checked still holds at the commit.
`ReadersSeeWholeProjections` is the refinement. It adds `EdgesFit` (neither the rows of a
build nor what a worker found hold an edge outside the review). `Leaves` says once
what any step of a worker does to the builds: it writes to one it holds, and a build that is
held is not READY, hence not published, so published rows never change.

Only model-checked: liveness, that is everything about fairness or ENABLED, which is
out of the prover's reach: `EventuallySettledOrBlocked`, `CallsEnd`, `TransactionsEnd`,
`OutdatedGoesStale` and `RunsEnd` of `AssessmentRun`, `CancellationIsHonoured` of `ImpactRun`,
and `BuildsEnd`. Every invariant and every action property of a passing run is
stated by a theorem. `NoOvertakingEver`,
`RetriesAreBounded`, `CheckpointsFollowCompletion`, `VersionsAreUnique`,
`CatalogVersionsAreDense`, `CatalogExpectedVersion`, `AcceptedReportsAreUnblocked`,
`ReadyBuildsArePublished` and `RunsKnowTheirBatches` state
properties that are proved and that no run checks any more.
`ConvergesWithoutLateWrites` and `CompleteRunsAreWhole` state the claims of two runs that
expect a violation, under the condition that separates the code from the claim.

## 5. Plan

Order of the modules, most important behaviour first:

1. `GraphProjection`, `OrderedDelivery` — done, proved.
2. `RelationshipCommands`, `IdempotentLedger` — done, proved.
3. `AssessmentRun` — done, proved for the one worker that is deployed.
4. `AuthoredCatalog` — done, proved. Could be added: search rows, which deletions
   leave and data model change sets do not refresh; change sets of several assets.
5. `BoundedTraversal`, `ImpactRun` — done, proved.
6. `ConnectorStream` — done, proved. Could be added: deltas with deletions.
7. `KnowledgeBaselines`, `ProjectionBuild` — done, proved.

## 6. Not modelled

Read paths (queries, scoped read models, web, readiness scoring) change no state.
Parsers, extractors and the ontology are data: the modules take their results as
constants. Identity and deployment have no protocol between processes. Scanner
sessions and federation accept batches by sequence and digest, or run commands at
SERIALIZABLE, in the form `ConnectorStream` and `RelationshipCommands` have. Graph
generations have no caller but their tests, so which processes run them, and
concurrently with what, cannot be read from the code. A deletion of all links of a
scope (`apps/mcp-server/src/persistence.ts:1396`) starts its graph versions again;
that a checkpoint then covers what it should not needs `RelationshipCommands` and
`GraphProjection` composed, beyond what a run can explore.
`PROJECT.json` lists every component with its status, and under `hazards` what is
still uncovered and why.
