------------------------ MODULE RelationshipCommands ------------------------
(***************************************************************************)
(* The write side of the typed graph of one architecture scope:            *)
(*   apps/mcp-server/src/relationships/command-service.ts                  *)
(*   apps/mcp-server/src/relationships/repository.ts                       *)
(* A command is one PostgreSQL transaction under the advisory lock of the  *)
(* scope.  It leaves a receipt for its idempotency key, the new rows, and  *)
(* for every row it changes one RelationshipEvent and one outbox row, all  *)
(* with the next graph version of the scope.  Clients retry with the same  *)
(* key when they do not see the answer.                                    *)
(*                                                                         *)
(* The relationship tools run at READ COMMITTED and read after they have   *)
(* the lock.  Feature change sets and knowledge promotions run the same    *)
(* service at SERIALIZABLE (apps/mcp-server/src/features/service.ts,       *)
(* apps/mcp-server/src/knowledge/promotion.ts): the statement that waits   *)
(* for the lock has already taken the snapshot that everything is read     *)
(* from.                                                                   *)
(*                                                                         *)
(* Subjects of events are graph nodes and links.  An asset stands for its  *)
(* root node; the entity and field nodes below it change with it.  A link  *)
(* is identified by its ends and its source reference: the content of the  *)
(* asset that declares it, or "mcp" when a client authored it directly.    *)
(***************************************************************************)
EXTENDS Integers, FiniteSets

CONSTANTS
  Clients,     \* callers of the MCP tools
  NoClient,    \* nobody holds the advisory lock
  Keys,        \* idempotency keys
  Nodes,       \* graph nodes; an asset is its root node
  Contents,    \* contents an asset can be given
  Refs,        \* the nodes each content declares links to
  Retired,     \* contents with lifecycleStatus RETIRED
  Values,      \* confidence and metadata of a link
  Parsed,      \* the value of links the asset parser declares
  Commands,    \* commands clients submit
  SnapshotCommands, \* those that run at SERIALIZABLE
  MaxFaults    \* bound: lost answers and transactions rolled back

Links == [from : Nodes, to : Nodes, ref : Contents \cup {"mcp"}]

Subjects == Nodes \cup Links

CommandTypes ==
  [kind : {"upsertLink"}, from : Nodes, to : Nodes, value : Values,
   expected : Nat, create : BOOLEAN]
  \cup [kind : {"deleteLink"}, from : Nodes, to : Nodes, expected : Nat]
  \cup [kind : {"upsertAsset"}, asset : Nodes, content : Contents]

ASSUME CommandsAssumption ==
  /\ NoClient \notin Clients
  /\ Refs \in [Contents -> SUBSET Nodes]
  /\ Retired \subseteq Contents
  /\ Parsed \in Values
  /\ \A m \in Commands : m \in CommandTypes
  /\ SnapshotCommands \subseteq Commands
  /\ Nodes \cap Links = {}
  /\ "mcp" \notin Contents
  /\ Contents \cap (Values \cup {"NONE", "STUB", "DELETED", "INVALIDATED"}) = {}
  /\ Values \cap {"NONE", "STUB", "DELETED", "INVALIDATED"} = {}
  /\ MaxFaults \in Nat

VARIABLES
  row,        \* AssetNode and RelationshipCurrent rows: version and state
  events,     \* RelationshipEvent rows (each with its RelationshipOutbox row)
  receipts,   \* COMPLETED RelationshipCommandReceipt rows
  lock,       \* holder of pg_advisory_xact_lock(scope)
  pc,         \* where each client's call is
  task,       \* its key and command
  plan,       \* what its open transaction has written
  answers,    \* the successful answers clients have seen
  faults

tables == <<row, events, receipts>>
vars == <<tables, lock, pc, task, plan, answers, faults>>

-----------------------------------------------------------------------------
(* State of the rows.  A node is absent, created as the end of a link      *)
(* without an event of its own ("STUB"), or has the content of its asset.  *)
(* A link is absent, active with a value, deleted or invalidated.          *)

States == {"NONE", "STUB", "DELETED", "INVALIDATED"} \cup Contents \cup Values

Absent == [version |-> 0, state |-> "NONE"]

Changes == [subject : Subjects, prior : Nat, state : States]

Events == [subject : Subjects, version : Nat, state : States, graph : Nat, key : Keys]

Receipts == [key : Keys, command : Commands, graph : Nat]

Tasks == [key : Keys, command : Commands]

NoPlan == [outcome |-> "none", stubs |-> {}, changes |-> {}, graph |-> 0]

Failed == [NoPlan EXCEPT !.outcome = "failed"]

Outcomes == {"none", "failed", "conflict", "replayed", "done"}

TypeOK ==
  /\ row \in [Subjects -> [version : Nat, state : States]]
  /\ \A s \in Subjects : row[s].version = 0 <=> row[s].state = "NONE"
  /\ events \subseteq Events
  /\ receipts \subseteq Receipts
  /\ lock \in Clients \cup {NoClient}
  /\ pc \in [Clients -> {"idle", "waiting", "reading", "writing", "ended", "failed"}]
  /\ task \in [Clients -> SUBSET Tasks]
  /\ plan \in [Clients -> [outcome : Outcomes, stubs : SUBSET Nodes,
                           changes : SUBSET Changes, graph : Nat]]
  /\ answers \subseteq Receipts
  /\ faults \in 0 .. MaxFaults

Init ==
  /\ row = [s \in Subjects |-> Absent]
  /\ events = {}
  /\ receipts = {}
  /\ lock = NoClient
  /\ pc = [c \in Clients |-> "idle"]
  /\ task = [c \in Clients |-> {}]
  /\ plan = [c \in Clients |-> NoPlan]
  /\ answers = {}
  /\ faults = 0

-----------------------------------------------------------------------------
(* Reading the tables                                                      *)

Exists(n) == row[n].state # "NONE"

Active(l) == row[l].state \in Values

\* currentGraphVersion: the largest version of an event, 0 without events.
CurrentGraphVersion ==
  IF events = {} THEN 0
  ELSE CHOOSE v \in {e.graph : e \in events} : \A e \in events : e.graph <= v

\* Fault: the version is taken from the receipts, which no-ops share.
NextGraphVersionMutant == Cardinality(receipts) + 1

\* Fault: the version is not incremented.
NextGraphVersionMutantStale == IF events = {} THEN 1 ELSE CurrentGraphVersion

\* reserveNextGraphVersion
NextGraphVersion == CurrentGraphVersion + 1

Change(s, state) == [subject |-> s, prior |-> row[s].version, state |-> state]

\* isEffectiveRelationshipChange, isEffectiveNodeChange: writing what a row
\* already says is no change.
Effective(s, state) == IF row[s].state = state THEN {} ELSE {Change(s, state)}

\* deleteRelationshipInternal: an absent or deleted link is left alone.
Deletion(l) == IF row[l].state \in {"NONE", "DELETED"} THEN {} ELSE {Change(l, "DELETED")}

\* Links the content of asset a declares.
Declared(a, content) == {[from |-> a, to |-> b, ref |-> content] : b \in Refs[content]}

\* Fault: retirement looks at the links the asset itself declared.
WithdrawnMutantRetire(a, content) ==
  {l \in Links : Active(l) /\ l.from = a /\ l.ref # "mcp"
                 /\ (content \in Retired \/ l \notin Declared(a, content))}

\* Fault: links that the new content does not declare are kept.
WithdrawnMutantKeep(a, content) ==
  IF content \in Retired THEN {l \in Links : Active(l) /\ a \in {l.from, l.to}} ELSE {}

\* Links that giving a this content invalidates: a retired asset loses every
\* active link, any other the parsed links it no longer declares.
Withdrawn(a, content) ==
  IF content \in Retired
  THEN {l \in Links : Active(l) /\ a \in {l.from, l.to}}
  ELSE {l \in Links : Active(l) /\ l.from = a /\ l.ref # "mcp"
                      /\ l \notin Declared(a, content)}

\* Fault: the end of a legacy link is written without looking whether it exists.
StubsMutant(m) ==
  {n \in Nodes :
     \/ m.kind = "upsertLink" /\ m.create /\ n \in {m.from, m.to}
     \/ /\ m.kind = "upsertAsset" /\ m.content \notin Retired
        /\ n \in Refs[m.content] \ {m.asset} /\ ~Exists(n)}

\* Nodes a command creates without an event: the ends of a link from the
\* legacy tools, and nodes of other assets that a content refers to.
Stubs(m) ==
  {n \in Nodes :
     /\ ~Exists(n)
     /\ \/ m.kind = "upsertLink" /\ m.create /\ n \in {m.from, m.to}
        \/ /\ m.kind = "upsertAsset" /\ m.content \notin Retired
           /\ n \in Refs[m.content] \ {m.asset}}

\* requireEndpoint and the expected versions: 0 stands for none given.
Accepted(m) ==
  CASE m.kind = "upsertLink" ->
         /\ \A n \in {m.from, m.to} : Exists(n) \/ n \in Stubs(m)
         /\ m.expected \in {0, IF Exists(m.from) THEN row[m.from].version ELSE 1}
    [] m.kind = "deleteLink" ->
         LET l == [from |-> m.from, to |-> m.to, ref |-> "mcp"]
         IN  /\ Exists(m.from) /\ Exists(m.to)
             /\ Deletion(l) = {} \/ m.expected \in {0, row[l].version}
    [] OTHER -> TRUE

\* The changes of an accepted command, each to be written with one event.
ChangesOf(m) ==
  CASE m.kind = "upsertLink" ->
         Effective([from |-> m.from, to |-> m.to, ref |-> "mcp"], m.value)
    [] m.kind = "deleteLink" ->
         Deletion([from |-> m.from, to |-> m.to, ref |-> "mcp"])
    [] OTHER ->
         Effective(m.asset, m.content)
         \cup (IF m.content \in Retired THEN {}
               ELSE UNION {Effective(l, Parsed) : l \in Declared(m.asset, m.content)})
         \cup {Change(l, "INVALIDATED") : l \in Withdrawn(m.asset, m.content)}

-----------------------------------------------------------------------------
(* A call                                                                  *)

\* findReceipt
ReceiptOf(t) == {r \in receipts : r.key = t.key}

\* Fault: the hash of the command is not compared.
MismatchMutant(t) == FALSE

\* commandHash of the receipt and of the command
Mismatch(t) == \E r \in ReceiptOf(t) : r.command # t.command

\* executeCommand: the receipt is looked up; without one the operation reads
\* the tables and decides what to write.
PlanOf(t) ==
  IF Mismatch(t)
  THEN [NoPlan EXCEPT !.outcome = "conflict"]
  ELSE IF ReceiptOf(t) # {}
  THEN [NoPlan EXCEPT !.outcome = "replayed",
                      !.graph = (CHOOSE r \in ReceiptOf(t) : TRUE).graph]
  ELSE IF ~Accepted(t.command)
  THEN Failed
  ELSE [outcome |-> "done",
        stubs |-> Stubs(t.command),
        changes |-> ChangesOf(t.command),
        graph |-> IF ChangesOf(t.command) = {} THEN CurrentGraphVersion ELSE NextGraphVersion]

\* A transaction is opened and asks for the lock.  At SERIALIZABLE all it will
\* read is what is committed now.
Opened(t) == IF t.command \in SnapshotCommands THEN PlanOf(t) ELSE NoPlan

Submit(c, k, m) ==
  /\ pc[c] = "idle"
  /\ pc' = [pc EXCEPT ![c] = "waiting"]
  /\ task' = [task EXCEPT ![c] = {[key |-> k, command |-> m]}]
  /\ plan' = [plan EXCEPT ![c] = Opened([key |-> k, command |-> m])]
  /\ UNCHANGED <<tables, lock, answers, faults>>

\* Fault: the transaction starts without the lock.
ScopeIsFreeMutant == TRUE

ScopeIsFree == lock = NoClient

\* repository.transaction and lockScope
Begin(c) ==
  /\ pc[c] = "waiting" /\ ScopeIsFree
  /\ lock' = c
  /\ pc' = [pc EXCEPT ![c] = "reading"]
  /\ UNCHANGED <<tables, task, plan, answers, faults>>

\* At READ COMMITTED the operation reads now.
Execute(c) ==
  /\ pc[c] = "reading"
  /\ \E t \in task[c] :
       plan' = IF t.command \in SnapshotCommands THEN plan
               ELSE [plan EXCEPT ![c] = PlanOf(t)]
  /\ pc' = [pc EXCEPT ![c] = "writing"]
  /\ UNCHANGED <<tables, lock, task, answers, faults>>

\* Fault: a row keeps the version it had.
WrittenMutant(s, p) ==
  IF \E d \in p.changes : d.subject = s
  THEN LET d == CHOOSE d \in p.changes : d.subject = s
       IN  [version |-> d.prior, state |-> d.state]
  ELSE IF s \in p.stubs THEN [version |-> row[s].version + 1, state |-> "STUB"] ELSE row[s]

\* upsertNode and writeCurrent
Written(s, p) ==
  IF \E d \in p.changes : d.subject = s
  THEN LET d == CHOOSE d \in p.changes : d.subject = s
       IN  [version |-> d.prior + 1, state |-> d.state]
  ELSE IF s \in p.stubs THEN [version |-> row[s].version + 1, state |-> "STUB"] ELSE row[s]

\* The lock ends with the transaction.
Released(c) == IF lock = c THEN NoClient ELSE lock

\* Unique keys, and at SERIALIZABLE a row that is not the one the snapshot
\* shows, make a write fail.
Conflicts(t, p) ==
  \/ \E r \in receipts : r.key = t.key
  \/ /\ t.command \in SnapshotCommands
     /\ \/ \E d \in p.changes : row[d.subject].version # d.prior
        \/ \E n \in p.stubs : Exists(n)

\* An open SERIALIZABLE transaction that the commit of t makes fail: both read
\* the largest graph version and wrote the next, or both are changes of assets
\* and took a version from the cursor of the catalog (appendAuthoredAssetRevision).
Doomed(d, t, p) ==
  /\ pc[d] # "ended" /\ plan[d].outcome = "done"
  /\ plan[d].changes # {} /\ p.changes # {}
  /\ \E u \in task[d] :
       /\ u.command \in SnapshotCommands
       /\ t.command \in SnapshotCommands \/ {t.command.kind, u.command.kind} = {"upsertAsset"}

\* COMMIT: rows, events with their outbox rows, and the completed receipt
\* become visible together.
Commit(c) ==
  /\ pc[c] = "writing" /\ plan[c].outcome = "done"
  /\ \E t \in task[c] :
       /\ ~Conflicts(t, plan[c])
       /\ row' = [s \in Subjects |-> Written(s, plan[c])]
       /\ events' = events \cup
            {[subject |-> d.subject, version |-> d.prior + 1, state |-> d.state,
              graph |-> plan[c].graph, key |-> t.key] : d \in plan[c].changes}
       /\ receipts' = receipts \cup
            {[key |-> t.key, command |-> t.command, graph |-> plan[c].graph]}
       /\ plan' = [d \in Clients |->
            IF d # c /\ Doomed(d, t, plan[c]) THEN Failed ELSE plan[d]]
  /\ lock' = Released(c)
  /\ pc' = [pc EXCEPT ![c] = "ended"]
  /\ UNCHANGED <<task, answers, faults>>

\* A replay writes nothing; an error rolls everything back.
EndWithoutEffect(c) ==
  /\ pc[c] = "writing"
  /\ IF plan[c].outcome = "done"
     THEN /\ \E t \in task[c] : Conflicts(t, plan[c])
          /\ plan' = [plan EXCEPT ![c] = Failed]
     ELSE UNCHANGED plan
  /\ lock' = Released(c)
  /\ pc' = [pc EXCEPT ![c] = "ended"]
  /\ UNCHANGED <<tables, task, answers, faults>>

\* The transaction times out, waiting for the lock or holding it, or its
\* connection or process is lost: it is rolled back.
RollBack(c) ==
  /\ pc[c] \in {"waiting", "reading", "writing"}
  /\ faults < MaxFaults /\ faults' = faults + 1
  /\ lock' = Released(c)
  /\ pc' = [pc EXCEPT ![c] = "failed"]
  /\ plan' = [plan EXCEPT ![c] = NoPlan]
  /\ UNCHANGED <<tables, task, answers>>

\* Fault: a call whose key is taken is made again.
AnswerMutant(c) ==
  /\ pc[c] = "ended"
  /\ IF plan[c].outcome \in {"done", "replayed"}
     THEN \E t \in task[c] :
            answers' = answers \cup
              {[key |-> t.key, command |-> t.command, graph |-> plan[c].graph]}
     ELSE UNCHANGED answers
  /\ pc' = [pc EXCEPT ![c] = IF plan[c].outcome = "conflict" THEN "waiting" ELSE "idle"]
  /\ task' = IF plan[c].outcome = "conflict" THEN task ELSE [task EXCEPT ![c] = {}]
  /\ plan' = [plan EXCEPT ![c] = NoPlan]
  /\ UNCHANGED <<tables, lock, faults>>

\* The client sees the outcome: an error, or the receipt's graph version.
Answer(c) ==
  /\ pc[c] = "ended"
  /\ IF plan[c].outcome \in {"done", "replayed"}
     THEN \E t \in task[c] :
            answers' = answers \cup
              {[key |-> t.key, command |-> t.command, graph |-> plan[c].graph]}
     ELSE UNCHANGED answers
  /\ pc' = [pc EXCEPT ![c] = "idle"]
  /\ task' = [task EXCEPT ![c] = {}]
  /\ plan' = [plan EXCEPT ![c] = NoPlan]
  /\ UNCHANGED <<tables, lock, faults>>

\* The answer of a call that ended is lost.
LoseAnswer(c) ==
  /\ pc[c] = "ended"
  /\ faults < MaxFaults /\ faults' = faults + 1
  /\ pc' = [pc EXCEPT ![c] = "failed"]
  /\ plan' = [plan EXCEPT ![c] = NoPlan]
  /\ UNCHANGED <<tables, lock, task, answers>>

\* The client, not knowing what happened, calls again with the same key.
Retry(c) ==
  /\ pc[c] = "failed"
  /\ pc' = [pc EXCEPT ![c] = "waiting"]
  /\ \E t \in task[c] : plan' = [plan EXCEPT ![c] = Opened(t)]
  /\ UNCHANGED <<tables, lock, task, answers, faults>>

Next ==
  \E c \in Clients :
    \/ \E k \in Keys, m \in Commands : Submit(c, k, m)
    \/ Begin(c) \/ Execute(c) \/ Commit(c) \/ EndWithoutEffect(c) \/ Answer(c)
    \/ RollBack(c) \/ LoseAnswer(c) \/ Retry(c)

Spec == Init /\ [][Next]_vars

\* PostgreSQL grants an advisory lock to those that wait for it in turn, and
\* an open transaction ends; clients are not obliged to retry.
Ends(c) == Execute(c) \/ Commit(c) \/ EndWithoutEffect(c) \/ Answer(c)

FairSpec ==
  /\ Spec
  /\ \A c \in Clients : SF_vars(Begin(c)) /\ WF_vars(Ends(c))

-----------------------------------------------------------------------------
(* Properties                                                              *)

\* Two rows of the event log never describe the same version of a subject.
OneEventPerVersion ==
  \A e, f \in events : e.subject = f.subject /\ e.version = f.version => e = f

\* The events of a subject are in graph order: a later version of a row has a
\* later graph version, so a projector that applies in graph order ends with
\* the row as it is.
VersionsInGraphOrder ==
  \A e, f \in events : e.subject = f.subject =>
    (e.version < f.version <=> e.graph < f.graph)

\* The latest event of a subject is its row, and every version a row has had
\* has an event; only the first version of a stub node has none.  Replaying
\* the log rebuilds the tables.
LogExplainsRows ==
  \A s \in Subjects :
    /\ row[s].state \notin {"NONE", "STUB"} =>
         \E e \in events : e.subject = s /\ e.version = row[s].version /\ e.state = row[s].state
    /\ \A e \in events : e.subject = s =>
         /\ e.version \in 1 .. row[s].version
         /\ \/ e.version = 1
            \/ e.version = 2 /\ s \in Nodes
            \/ \E f \in events : f.subject = s /\ f.version = e.version - 1

\* Whoever is told that a key succeeded is told the same command and graph
\* version, however often and by whomever the call was repeated, and the
\* database still says so.
AnswersAgree ==
  /\ answers \subseteq receipts
  /\ \A a, b \in receipts : a.key = b.key => a = b

\* The active links an asset declares are those of the content it has now.
ParserLinksFollowContent ==
  \A l \in Links : Active(l) /\ l.ref # "mcp" => row[l.from].state = l.ref

\* The command that retires a node leaves it without active links.
RetireIsolates ==
  [][\A n \in Nodes :
       row[n].state \notin Retired /\ row'[n].state \in Retired =>
         \A l \in Links : n \in {l.from, l.to} => row'[l].state \notin Values]_vars

\* What the log says up to a graph version is final: later events have later
\* versions.
GraphWaterlineStable ==
  [][\A e \in events' \ events : e.graph > CurrentGraphVersion]_vars

\* A command is recorded once under its key, with the version the log had or
\* the next one, and nobody learns of a version that was not recorded.
Ledger == INSTANCE IdempotentLedger WITH latest <- CurrentGraphVersion, ledger <- receipts

ImplementsLedger == Ledger!Spec

\* A call that waits for the scope is answered or fails.
CallsEnd == \A c \in Clients : pc[c] = "waiting" ~> pc[c] \in {"idle", "failed"}
=============================================================================
