--------------------------- MODULE AuthoredCatalog ---------------------------
(***************************************************************************)
(* The authored catalog of one scope: current rows of design assets, the   *)
(* log of revisions that is to explain them, and the cursor that numbers   *)
(* the revisions.  Rows are written by plain upserts, by data model change *)
(* sets, by feature change sets and by the cleanup of a seed; a bootstrap  *)
(* logs rows older than the log.  Each of these is one transaction, and    *)
(* takes locks one after the other: transactions meet between any two.     *)
(***************************************************************************)
EXTENDS Integers, Sequences, FiniteSets, Relation

CONSTANTS
  Writers,      \* concurrent transactions
  Models,       \* assets written by upserts and data model change sets
  Features,     \* assets written by feature change sets
  Contents,     \* what an asset can say
  Absent,       \* no row
  Legacy,       \* the rows when the log was introduced
  Ops,          \* the operations of this instance
  MaxVersion    \* bound: no transaction begins at this version

Assets == Models \cup Features

Values == Contents \cup {Absent}

ASSUME CatalogAssumption ==
  /\ Absent \notin Contents \cup Assets
  /\ {"scope", "cursor"} \cap Assets = {}
  /\ Legacy \in [Assets -> Values]
  /\ Ops \subseteq {"upsert", "change", "remove", "feature", "purge", "bootstrap"}
  /\ MaxVersion \in Nat

VARIABLES
  row,        \* DesignAsset, committed
  log,        \* AuthoredAssetRevision, committed
  cursor,     \* AuthoredCatalogCursor.nextVersion, committed: the last version
  call,       \* what a writer is doing: an operation, its asset, what it leaves
  at,         \* the step its transaction is at
  locks,      \* the locks the transaction holds
  seen,       \* rows it has read
  since,      \* the cursor when it began
  pending,    \* assets it has still to log
  cur,        \* the asset whose key it has looked up
  appended    \* revisions it has inserted, not yet committed

tables == <<row, log, cursor>>
local == <<seen, since, pending, cur, appended>>
vars == <<tables, call, at, locks, local>>

-----------------------------------------------------------------------------
(* Operations as sequences of steps                                        *)

NoCall == [op |-> "none", asset |-> Absent, content |-> Absent]

\* The step that follows a step: upsertDesignAsset, applyDataModelChangeSet
\* with a model or a deletion, applyFeatureChangeSet,
\* deletePersistedDesignData, bootstrapAuthoredCatalog.
After ==
  [upsert    |-> [idle |-> "row", row |-> "key", key |-> "scope", scope |-> "commit"],
   change    |-> [idle |-> "scope", scope |-> "row", row |-> "key", key |-> "commit"],
   remove    |-> [idle |-> "scope", scope |-> "read", read |-> "row", row |-> "key", key |-> "commit"],
   feature   |-> [idle |-> "scope", scope |-> "row", row |-> "append", append |-> "commit"],
   purge     |-> [idle |-> "scope", scope |-> "read", read |-> "key", key |-> "row", row |-> "commit"],
   bootstrap |-> [idle |-> "read", read |-> "key", key |-> "commit"]]

Goto(w, step) == at' = [at EXCEPT ![w] = step]

Advance(w) == Goto(w, After[call[w].op][at[w]])

-----------------------------------------------------------------------------
(* Locks                                                                   *)

Free(w, l) == \A u \in Writers \ {w} : l \notin locks[u]

Lock(w, l) == Free(w, l) /\ locks' = [locks EXCEPT ![w] = @ \cup {l}]

\* A deletion by id does not see, and so does not wait for, a row that another
\* transaction has inserted and not committed.
Deletes(w) == call[w].op \in {"remove", "purge"}

\* The lock the current step of a transaction asks for.
Wants(w, l) ==
  \/ at[w] = "scope" /\ l = "scope"
  \/ at[w] = "append" /\ l = "cursor"
  \/ at[w] = "row" /\ l = call[w].asset /\ ~(Deletes(w) /\ row[l] = Absent)

Waits == [u, v \in Writers |-> u # v /\ \E l \in locks[v] : Wants(u, l)]

\* PostgreSQL rolls back a transaction it finds waiting for itself.
Deadlocked(w) == TransitiveClosure(Waits, Writers)[w, w]

-----------------------------------------------------------------------------
(* Revisions                                                               *)

\* Idempotency keys.  A feature change set is a request of its own each time: n
\* tells its key from those of requests that began at another version.
\* Fault: the key of an upsert leaves out the content.
KeyMutant(w, a) ==
  [by |-> call[w].op, asset |-> a,
   n |-> IF call[w].op = "feature" THEN since[w] ELSE 0,
   content |-> IF call[w].op = "remove" THEN seen[w][a]
               ELSE IF call[w].op = "upsert" THEN Absent ELSE call[w].content]

\* authored-revision and data-model-change name the content written,
\* data-model-delete the content deleted, authored-delete and catalog-bootstrap
\* just the asset.
Key(w, a) ==
  [by |-> call[w].op, asset |-> a,
   n |-> IF call[w].op = "feature" THEN since[w] ELSE 0,
   content |-> IF call[w].op = "remove" THEN seen[w][a] ELSE call[w].content]

\* findUnique: what is committed.
Logged(key) == \E r \in log : r.key = key

\* Fault: a deletion is logged as an UPSERT of the row it deletes.
LeavesMutant(w, a) ==
  IF call[w].op \in {"remove", "purge", "bootstrap"} THEN seen[w][a] ELSE call[w].content

\* An UPSERT leaves its payload, a DELETE nothing; a bootstrap logs what it read.
Leaves(w, a) == IF call[w].op = "bootstrap" THEN seen[w][a] ELSE call[w].content

\* Fault: the revision gets the version before the increment.
RevisionMutantLow(w, a) ==
  [version |-> cursor + Len(appended[w]), asset |-> a,
   leaves |-> Leaves(w, a), key |-> Key(w, a)]

Revision(w, a) ==
  [version |-> cursor + Len(appended[w]) + 1, asset |-> a,
   leaves |-> Leaves(w, a), key |-> Key(w, a)]

\* The newest revision of an asset says what its row should be: latestAssets.
Revisions(a) == {r \in log : r.asset = a}
Latest(a) ==
  IF Revisions(a) = {} THEN Absent
  ELSE (CHOOSE r \in Revisions(a) : \A q \in Revisions(a) : q.version <= r.version).leaves

-----------------------------------------------------------------------------
(* States                                                                  *)

Steps == {"idle", "scope", "read", "row", "key", "append", "commit"}

Calls ==
  [op : {"upsert", "change"}, asset : Models, content : Contents]
    \cup [op : {"feature"}, asset : Features, content : Contents]
    \cup [op : {"remove"}, asset : Models, content : {Absent}]
    \cup [op : {"purge"}, asset : Assets, content : {Absent}]
    \cup [op : {"bootstrap"}, asset : {Absent}, content : {Absent}]

Keys == [by : {c.op : c \in Calls}, asset : Assets, n : Nat, content : Values]

AllRevisions == [version : Nat \ {0}, asset : Assets, leaves : Values, key : Keys]

NoRows == [a \in Assets |-> Absent]

TypeOK ==
  /\ row \in [Assets -> Values]
  /\ log \subseteq AllRevisions
  /\ cursor \in Nat
  /\ call \in [Writers -> Calls \cup {NoCall}]
  /\ at \in [Writers -> Steps]
  /\ locks \in [Writers -> SUBSET (Assets \cup {"scope", "cursor"})]
  /\ seen \in [Writers -> [Assets -> Values]]
  /\ since \in [Writers -> Nat]
  /\ pending \in [Writers -> SUBSET Assets]
  /\ cur \in [Writers -> Assets \cup {Absent}]
  /\ appended \in [Writers -> Seq(AllRevisions)]
  /\ \A w \in Writers : at[w] = "idle" <=> call[w] = NoCall

Init ==
  /\ row = Legacy
  /\ log = {}
  /\ cursor = 0
  /\ call = [w \in Writers |-> NoCall]
  /\ at = [w \in Writers |-> "idle"]
  /\ locks = [w \in Writers |-> {}]
  /\ seen = [w \in Writers |-> NoRows]
  /\ since = [w \in Writers |-> 0]
  /\ pending = [w \in Writers |-> {}]
  /\ cur = [w \in Writers |-> Absent]
  /\ appended = [w \in Writers |-> <<>>]

\* Fault: the lock of the scope is one of the session (pg_advisory_lock).
FinishMutant(w) ==
  /\ call' = [call EXCEPT ![w] = NoCall]
  /\ Goto(w, "idle")
  /\ locks' = [locks EXCEPT ![w] = @ \cap {"scope"}]
  /\ seen' = [seen EXCEPT ![w] = NoRows]
  /\ since' = [since EXCEPT ![w] = 0]
  /\ pending' = [pending EXCEPT ![w] = {}]
  /\ cur' = [cur EXCEPT ![w] = Absent]
  /\ appended' = [appended EXCEPT ![w] = <<>>]

\* The locks and all that a transaction knows go with it.
Finish(w) ==
  /\ call' = [call EXCEPT ![w] = NoCall]
  /\ Goto(w, "idle")
  /\ locks' = [locks EXCEPT ![w] = {}]
  /\ seen' = [seen EXCEPT ![w] = NoRows]
  /\ since' = [since EXCEPT ![w] = 0]
  /\ pending' = [pending EXCEPT ![w] = {}]
  /\ cur' = [cur EXCEPT ![w] = Absent]
  /\ appended' = [appended EXCEPT ![w] = <<>>]

-----------------------------------------------------------------------------
(* Actions                                                                 *)

\* $transaction.  A feature change set is SERIALIZABLE: its snapshot is that of
\* its first statement, the one that waits for the scope.  The version it was
\* told to expect is checked there and is the newest of the asset at `since`;
\* any other is refused (RollBack).
Begin(w, c) ==
  /\ at[w] = "idle" /\ c.op \in Ops /\ cursor < MaxVersion
  /\ call' = [call EXCEPT ![w] = c]
  /\ Goto(w, After[c.op].idle)
  /\ IF c.op = "feature"
       THEN /\ seen' = [seen EXCEPT ![w] = row]
            /\ since' = [since EXCEPT ![w] = cursor]
            /\ cur' = [cur EXCEPT ![w] = c.asset]
            /\ UNCHANGED pending
       ELSE /\ pending' = [pending EXCEPT ![w] = IF c.op \in {"upsert", "change"} THEN {c.asset} ELSE {}]
            /\ UNCHANGED <<seen, since, cur>>
  /\ UNCHANGED <<tables, locks, appended>>

\* lockScope; an upsert takes it last, when it comes to upsertAssetGraph.
LockScope(w) ==
  /\ at[w] = "scope"
  /\ Lock(w, "scope")
  /\ Advance(w)
  /\ UNCHANGED <<tables, call, local>>

\* Rows are read without a lock.  deleteDataModel returns when there is none.
Read(w) ==
  LET present == {a \in Assets : row[a] # Absent} IN
  /\ at[w] = "read"
  /\ seen' = [seen EXCEPT ![w] = row]
  /\ pending' = [pending EXCEPT ![w] =
       IF call[w].op = "bootstrap" THEN present ELSE present \cap {call[w].asset}]
  /\ IF call[w].op = "remove" /\ call[w].asset \notin present
       THEN Goto(w, "commit") ELSE Advance(w)
  /\ UNCHANGED <<tables, call, locks, since, cur, appended>>

Snapshot(w) == call[w].op = "feature"

\* The row is written, and stays locked until the transaction ends.
WriteRow(w) ==
  /\ at[w] = "row"
  /\ IF Wants(w, call[w].asset) THEN Lock(w, call[w].asset) ELSE UNCHANGED locks
  /\ Snapshot(w) => row[call[w].asset] = seen[w][call[w].asset]
  /\ Advance(w)
  /\ UNCHANGED <<tables, call, local>>

\* appendAuthoredAssetRevision: a key in the log ends it.
LookUpKey(w, a) ==
  /\ at[w] = "key" /\ a \in pending[w]
  /\ IF Logged(Key(w, a))
       THEN /\ pending' = [pending EXCEPT ![w] = @ \ {a}]
            /\ UNCHANGED <<at, cur>>
       ELSE /\ cur' = [cur EXCEPT ![w] = a]
            /\ Goto(w, "append")
            /\ UNCHANGED pending
  /\ UNCHANGED <<tables, call, locks, seen, since, appended>>

AllLogged(w) ==
  /\ at[w] = "key" /\ pending[w] = {}
  /\ Advance(w)
  /\ UNCHANGED <<tables, call, locks, local>>

\* The cursor is incremented, which locks it, and the revision is inserted.
AppendRevision(w) ==
  /\ at[w] = "append"
  /\ Lock(w, "cursor")
  /\ ~Logged(Key(w, cur[w]))
  /\ Snapshot(w) => cursor = since[w]
  /\ appended' = [appended EXCEPT ![w] = Append(@, Revision(w, cur[w]))]
  /\ pending' = [pending EXCEPT ![w] = @ \ {cur[w]}]
  /\ cur' = [cur EXCEPT ![w] = Absent]
  /\ IF call[w].op = "feature" THEN Advance(w) ELSE Goto(w, "key")
  /\ UNCHANGED <<tables, call, seen, since>>

\* A key that was logged since it was looked up violates the unique index, and
\* the lookup in the catch block fails in the aborted transaction.  A
\* SERIALIZABLE transaction may not update what changed since its snapshot.
Rejected(w) ==
  /\ \/ /\ at[w] = "append" /\ Free(w, "cursor")
        /\ Logged(Key(w, cur[w])) \/ (Snapshot(w) /\ cursor # since[w])
     \/ /\ at[w] = "row" /\ Free(w, call[w].asset)
        /\ Snapshot(w) /\ row[call[w].asset] # seen[w][call[w].asset]
  /\ Finish(w)
  /\ UNCHANGED tables

Commit(w) ==
  /\ at[w] = "commit"
  /\ row' = [a \in Assets |-> IF a \in locks[w] THEN call[w].content ELSE row[a]]
  /\ log' = log \cup {appended[w][i] : i \in 1..Len(appended[w])}
  /\ cursor' = cursor + Len(appended[w])
  /\ Finish(w)

\* A refused request, a statement that fails, a timeout of the transaction.
RollBack(w) == at[w] # "idle" /\ Finish(w) /\ UNCHANGED tables

DeadlockVictim(w) == Deadlocked(w) /\ Finish(w) /\ UNCHANGED tables

\* What needs no lock.
Step(w) ==
  \/ Read(w) \/ AllLogged(w) \/ Commit(w)
  \/ \E a \in Assets : LookUpKey(w, a)

\* What waits for one.
Locking(w) == LockScope(w) \/ WriteRow(w) \/ AppendRevision(w) \/ Rejected(w)

Next ==
  \E w \in Writers :
    \/ \E c \in Calls : Begin(w, c)
    \/ Step(w) \/ Locking(w) \/ RollBack(w) \/ DeadlockVictim(w)

Spec == Init /\ [][Next]_vars

\* Statements end, PostgreSQL grants locks in turn and detects deadlocks.
FairSpec ==
  /\ Spec
  /\ \A w \in Writers : WF_vars(Step(w)) /\ SF_vars(Locking(w)) /\ WF_vars(DeadlockVictim(w))

-----------------------------------------------------------------------------
(* Properties                                                              *)

\* A catalog version names one revision, and up to the cursor none is missing:
\* what a reader that pins the version has paged through stays what it was.
VersionsAreDense ==
  /\ {r.version : r \in log} = 1..cursor
  /\ \A r, q \in log : r.version = q.version => r = q

\* A row written since the log was introduced says what some revision logged.
EveryRowLogged ==
  \A a \in Assets : row[a] \notin {Absent, Legacy[a]} =>
    \E r \in Revisions(a) : r.leaves = row[a]

\* A write that logs a revision leaves it the newest of the asset: the order of
\* the log is the order of the writes.
LoggedWritesAreLatest ==
  [][\A a \in Assets : row'[a] # row[a] /\ Revisions(a)' # Revisions(a)
       => row'[a] = Latest(a)']_vars

\* The version a feature change set was told to expect is still the newest of
\* the asset when it commits.
ExpectedVersionHolds ==
  \A w \in Writers : call[w].op = "feature" /\ at[w] = "commit" =>
    \A r \in Revisions(call[w].asset) : r.version <= since[w]

\* Every transaction ends.
TransactionsEnd == \A w \in Writers : at[w] # "idle" ~> at[w] = "idle"

\* "Every MCP write ... and every supported deletion increments the Scope cursor,
\* appends one immutable revision, and updates the current-state table": the
\* newest revision of each asset says what its row is.
LogExplainsRows == \A a \in Assets : Latest(a) = row[a]
=============================================================================
