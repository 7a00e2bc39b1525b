---------------------- MODULE RelationshipCommandsProofs ----------------------
(***************************************************************************)
(* Proofs about RelationshipCommands for every set of clients, assets and  *)
(* commands, whichever of them run at SERIALIZABLE, and every number of    *)
(* faults.                                                                 *)
(***************************************************************************)
EXTENDS RelationshipCommands, TLAPS

\* The log has a latest graph version.
HasLatest ==
  events # {} => \E v \in {e.graph : e \in events} : \A e \in events : e.graph <= v

\* The lock is held just by the client that is inside its transaction.
Mutex == \A c \in Clients : pc[c] \in {"reading", "writing"} <=> lock = c

\* A client is inside one call at a time.
TaskIsSingle(c) == \A t, u \in task[c] : t = u

\* What a client's open transaction is about to write.
OpenPlan(c) == plan[c].outcome = "done" /\ pc[c] # "ended"

\* A plan changes a row once, to a state that rows do not have by default.
ChangesAreSingle(c) ==
  /\ \A d \in plan[c].changes : d.state \notin {"NONE", "STUB"}
  /\ \A d, f \in plan[c].changes : d.subject = f.subject => d = f

\* A plan is about versions the rows have had, and is numbered after
\* everything the log said of them then.
PlanFollowsLog(c) ==
  OpenPlan(c) => \A d \in plan[c].changes :
    /\ d.prior <= row[d.subject].version
    /\ \A e \in events : e.subject = d.subject /\ e.version <= d.prior => e.graph < plan[c].graph

\* A plan made under the lock is about the rows as they are.
LockedPlanIsCurrent(c) ==
  \A t \in task[c] :
    OpenPlan(c) /\ pc[c] = "writing" /\ t.command \notin SnapshotCommands =>
      /\ \A d \in plan[c].changes : d.prior = row[d.subject].version
      /\ \A n \in plan[c].stubs : row[n].state = "NONE"

\* Only SERIALIZABLE commands plan before they have the lock.
PlanIsMadeLate(c) ==
  \A t \in task[c] :
    pc[c] \in {"waiting", "reading"} /\ t.command \notin SnapshotCommands => plan[c] = NoPlan

\* What a client is going to be told is in the ledger.
OutcomeIsRecorded(c) ==
  \A t \in task[c] :
    plan[c].outcome = "replayed" \/ (plan[c].outcome = "done" /\ pc[c] = "ended") =>
      [key |-> t.key, command |-> t.command, graph |-> plan[c].graph] \in receipts

PlanInv(c) == TaskIsSingle(c) /\ ChangesAreSingle(c) /\ PlanFollowsLog(c)
              /\ LockedPlanIsCurrent(c) /\ PlanIsMadeLate(c) /\ OutcomeIsRecorded(c)

\* A row without content is a node at its first version.
StubsAreFirst ==
  \A s \in Subjects : row[s].state = "STUB" => s \in Nodes /\ row[s].version = 1

LogInv == HasLatest /\ OneEventPerVersion /\ VersionsInGraphOrder /\ StubsAreFirst /\ LogExplainsRows

CommandInv == TypeOK /\ Mutex /\ (\A c \in Clients : PlanInv(c)) /\ LogInv /\ AnswersAgree

Plans == [outcome : Outcomes, stubs : SUBSET Nodes, changes : SUBSET Changes, graph : Nat]

\* What the plan of a task is when it has just been made.
Sound(t, p) ==
  /\ p \in Plans
  /\ \A d, f \in p.changes : d.subject = f.subject => d = f
  /\ \A d \in p.changes : d.prior = row[d.subject].version /\ d.state \notin {"NONE", "STUB"}
  /\ \A n \in p.stubs : row[n].state = "NONE"
  /\ p.changes # {} => \A e \in events : e.graph < p.graph
  /\ p.outcome = "replayed" =>
       [key |-> t.key, command |-> t.command, graph |-> p.graph] \in receipts

-----------------------------------------------------------------------------
(* Reading the tables                                                      *)

\* The current graph version is an upper bound of the log's.
LEMMA LatestBounds ==
  ASSUME events \subseteq Events, HasLatest
  PROVE  /\ CurrentGraphVersion \in Nat
         /\ \A e \in events : e.graph <= CurrentGraphVersion
<1>1. CASE events = {}
  BY <1>1 DEF CurrentGraphVersion
<1>2. CASE events # {}
  <2> DEFINE P(v) == \A e \in events : e.graph <= v
             S == {e.graph : e \in events}
  <2>1. \E v \in S : P(v)
    BY <1>2 DEF HasLatest
  <2>2. CurrentGraphVersion = CHOOSE v \in S : P(v)
    BY <1>2 DEF CurrentGraphVersion
  <2>3. CurrentGraphVersion \in S /\ P(CurrentGraphVersion)
    <3> HIDE DEF P, S
    <3> QED BY <2>1, <2>2
  <2>4. S \subseteq Nat
    BY DEF Events
  <2> QED BY <2>3, <2>4
<1> QED BY <1>1, <1>2

\* The changes of a command are typed, single and about the rows as they are.
LEMMA ChangesOfCommand ==
  ASSUME TypeOK, NEW m \in Commands
  PROVE  /\ ChangesOf(m) \in SUBSET Changes
         /\ \A d \in ChangesOf(m) : d.prior = row[d.subject].version /\ d.state \notin {"NONE", "STUB"}
         /\ \A d, f \in ChangesOf(m) : d.subject = f.subject => d = f
<1> USE CommandsAssumption
<1>0. \A s \in Subjects, v \in States : Change(s, v) \in Changes
  BY DEF TypeOK, Change, Changes
<1>1. m \in CommandTypes
  OBVIOUS
<1>2. CASE m.kind = "upsertLink"
  <2> DEFINE l == [from |-> m.from, to |-> m.to, ref |-> "mcp"]
  <2>1. l \in Subjects /\ m.value \in Values
    BY <1>1, <1>2 DEF CommandTypes, Subjects, Links
  <2>2. ChangesOf(m) \subseteq {Change(l, m.value)}
    BY <1>2 DEF ChangesOf, Effective
  <2>3. m.value \in States /\ m.value \notin {"NONE", "STUB"}
    BY <2>1 DEF States
  <2> HIDE DEF l
  <2> QED BY <1>0, <2>1, <2>2, <2>3 DEF Change
<1>3. CASE m.kind = "deleteLink"
  <2> DEFINE l == [from |-> m.from, to |-> m.to, ref |-> "mcp"]
  <2>1. l \in Subjects
    BY <1>1, <1>3 DEF CommandTypes, Subjects, Links
  <2>2. ChangesOf(m) \subseteq {Change(l, "DELETED")}
    BY <1>3 DEF ChangesOf, Deletion
  <2>3. "DELETED" \in States
    BY DEF States
  <2> HIDE DEF l
  <2> QED BY <1>0, <2>1, <2>2, <2>3 DEF Change
<1>4. CASE m.kind \notin {"upsertLink", "deleteLink"}
  <2> DEFINE D == IF m.content \in Retired THEN {} ELSE Declared(m.asset, m.content)
             W == Withdrawn(m.asset, m.content)
  <2>1. m.asset \in Nodes /\ m.content \in Contents
    BY <1>1, <1>4 DEF CommandTypes
  <2>2. D \subseteq Links /\ W \subseteq Links /\ D \cap W = {}
    <3>1. Refs[m.content] \subseteq Nodes
      BY <2>1
    <3>2. Declared(m.asset, m.content) \subseteq Links
      BY <2>1, <3>1 DEF Declared, Links
    <3> QED BY <3>2 DEF Withdrawn
  <2>3. \A d \in ChangesOf(m) :
          \/ d = Change(m.asset, m.content)
          \/ \E l \in D : d = Change(l, Parsed)
          \/ \E l \in W : d = Change(l, "INVALIDATED")
    BY <1>4 DEF ChangesOf, Effective
  <2>4. Parsed \in States /\ "INVALIDATED" \in States /\ m.content \in States
    BY <2>1 DEF States
  <2>5. /\ Parsed \notin {"NONE", "STUB"}
        /\ m.content \notin {"NONE", "STUB"}
    BY <2>1
  <2> HIDE DEF D, W
  <2>6. \A l \in D \cup W : l \in Subjects /\ l # m.asset
    BY <2>1, <2>2 DEF Subjects
  <2>7. m.asset \in Subjects
    BY <2>1 DEF Subjects
  <2>8. \A d \in ChangesOf(m) : d \in Changes /\ d.prior = row[d.subject].version /\ d.state \notin {"NONE", "STUB"}
    BY <1>0, <2>3, <2>4, <2>5, <2>6, <2>7 DEF Change
  <2>9. ASSUME NEW d \in ChangesOf(m), NEW f \in ChangesOf(m), d.subject = f.subject
        PROVE  d = f
    BY <2>2, <2>3, <2>6, <2>9 DEF Change
  <2> QED BY <2>8, <2>9
<1> QED BY <1>2, <1>3, <1>4

\* What a transaction decides to do when it reads the tables.
LEMMA PlanOfTask ==
  ASSUME TypeOK, HasLatest, NEW t \in Tasks
  PROVE  Sound(t, PlanOf(t))
<1> DEFINE p == PlanOf(t)
<1>0. t.command \in Commands
  BY DEF Tasks
<1>2. CASE Mismatch(t)
  <2>1. p = [outcome |-> "conflict", stubs |-> {}, changes |-> {}, graph |-> 0]
    BY <1>2 DEF PlanOf, NoPlan
  <2> QED BY <2>1 DEF Sound, Plans, Outcomes
<1>3. CASE ~Mismatch(t) /\ ReceiptOf(t) # {}
  <2> DEFINE r == CHOOSE r \in ReceiptOf(t) : TRUE
  <2>1. r \in ReceiptOf(t)
    BY <1>3
  <2> HIDE DEF r
  <2>2. r \in receipts /\ r \in Receipts /\ r.key = t.key /\ r.command = t.command
    BY <1>3, <2>1 DEF ReceiptOf, Mismatch, TypeOK
  <2>3. r = [key |-> t.key, command |-> t.command, graph |-> r.graph] /\ r.graph \in Nat
    BY <2>2 DEF Receipts
  <2>4. p = [outcome |-> "replayed", stubs |-> {}, changes |-> {}, graph |-> r.graph]
    BY <1>3 DEF PlanOf, NoPlan, r
  <2> QED BY <2>2, <2>3, <2>4 DEF Sound, Plans, Outcomes
<1>4. CASE ~Mismatch(t) /\ ReceiptOf(t) = {} /\ ~Accepted(t.command)
  <2>1. p = [outcome |-> "failed", stubs |-> {}, changes |-> {}, graph |-> 0]
    BY <1>4 DEF PlanOf, Failed, NoPlan
  <2> QED BY <2>1 DEF Sound, Plans, Outcomes
<1>5. CASE ~Mismatch(t) /\ ReceiptOf(t) = {} /\ Accepted(t.command)
  <2> DEFINE C == ChangesOf(t.command)
             g == IF C = {} THEN CurrentGraphVersion ELSE NextGraphVersion
  <2>1. p = [outcome |-> "done", stubs |-> Stubs(t.command), changes |-> C, graph |-> g]
    BY <1>5 DEF PlanOf
  <2>2. g \in Nat /\ (C # {} => \A e \in events : e.graph < g)
    <3>1. events \subseteq Events
      BY DEF TypeOK
    <3>2. \A e \in events : e.graph \in Nat
      BY <3>1 DEF Events
    <3> QED BY <3>1, <3>2, LatestBounds DEF NextGraphVersion
  <2>3. Stubs(t.command) \subseteq Nodes /\ \A n \in Stubs(t.command) : row[n].state = "NONE"
    BY DEF Stubs, Exists
  <2>4. /\ C \in SUBSET Changes
        /\ \A d \in C : d.prior = row[d.subject].version /\ d.state \notin {"NONE", "STUB"}
        /\ \A d, f \in C : d.subject = f.subject => d = f
    BY <1>0, ChangesOfCommand
  <2> HIDE DEF C, g
  <2> QED BY <2>1, <2>2, <2>3, <2>4 DEF Sound, Plans, Outcomes
<1> QED BY <1>2, <1>3, <1>4, <1>5

\* An empty plan is sound.
LEMMA EmptyPlans ==
  ASSUME NEW t
  PROVE  /\ NoPlan = [outcome |-> "none", stubs |-> {}, changes |-> {}, graph |-> 0]
         /\ Failed = [outcome |-> "failed", stubs |-> {}, changes |-> {}, graph |-> 0]
         /\ Sound(t, NoPlan) /\ Sound(t, Failed)
<1>1. NoPlan = [outcome |-> "none", stubs |-> {}, changes |-> {}, graph |-> 0]
  BY DEF NoPlan
<1>2. Failed = [outcome |-> "failed", stubs |-> {}, changes |-> {}, graph |-> 0]
  BY DEF NoPlan, Failed
<1> QED BY <1>1, <1>2 DEF Sound, Plans, Outcomes

\* What a transaction has decided when it asks for the lock.
LEMMA OpenedPlan ==
  ASSUME TypeOK, HasLatest, NEW t \in Tasks
  PROVE  /\ Sound(t, Opened(t))
         /\ t.command \notin SnapshotCommands => Opened(t) = NoPlan
BY PlanOfTask, EmptyPlans DEF Opened

-----------------------------------------------------------------------------
(* Steps that leave the tables alone                                       *)

\* The log explains the rows as long as neither changes.
LEMMA LogKept ==
  ASSUME LogInv, UNCHANGED tables
  PROVE  LogInv'
BY DEF LogInv, tables, HasLatest, OneEventPerVersion, VersionsInGraphOrder, StubsAreFirst,
       LogExplainsRows

\* A client that does nothing keeps its plan right.
LEMMA PlanKept ==
  ASSUME NEW c \in Clients, PlanInv(c), UNCHANGED tables,
         pc'[c] = pc[c], task'[c] = task[c], plan'[c] = plan[c]
  PROVE  PlanInv(c)'
BY DEF tables, PlanInv, TaskIsSingle, ChangesAreSingle, PlanFollowsLog, LockedPlanIsCurrent,
       PlanIsMadeLate, OutcomeIsRecorded, OpenPlan

\* A client that has just made its plan, or given it up, has a right one.
LEMMA PlanMade ==
  ASSUME NEW c \in Clients, NEW t \in Tasks, TypeOK, Sound(t, plan'[c]), UNCHANGED tables,
         task'[c] = {t},
         pc'[c] \in {"waiting", "reading"} /\ t.command \notin SnapshotCommands => plan'[c] = NoPlan,
         plan'[c].outcome = "done" => pc'[c] # "ended"
  PROVE  PlanInv(c)'
<1>1. TaskIsSingle(c)' /\ ChangesAreSingle(c)'
  BY DEF TaskIsSingle, ChangesAreSingle, Sound
<1>2. PlanFollowsLog(c)'
  <2>1. \A d \in plan'[c].changes : d.subject \in Subjects
    BY DEF Sound, Plans, Changes
  <2>2. \A s \in Subjects : row[s].version \in Nat
    BY DEF TypeOK
  <2> QED BY <2>1, <2>2 DEF PlanFollowsLog, Sound, tables
<1>3. LockedPlanIsCurrent(c)'
  BY DEF LockedPlanIsCurrent, Sound, tables
<1>4. PlanIsMadeLate(c)' /\ OutcomeIsRecorded(c)'
  BY DEF PlanIsMadeLate, OutcomeIsRecorded, Sound, tables
<1> QED BY <1>1, <1>2, <1>3, <1>4 DEF PlanInv

\* The variables of a client have these types whatever step it takes.
LEMMA TypeKept ==
  ASSUME TypeOK, UNCHANGED tables, NEW c \in Clients,
         lock' \in {lock, c, NoClient},
         NEW stage \in {"idle", "waiting", "reading", "writing", "ended", "failed"},
         pc' = [pc EXCEPT ![c] = stage],
         NEW p \in Plans, plan' = [plan EXCEPT ![c] = p],
         NEW ts \in SUBSET Tasks, task' = [task EXCEPT ![c] = ts],
         answers' \in SUBSET Receipts,
         faults' \in 0 .. MaxFaults
  PROVE  TypeOK'
<1>1. pc' \in [Clients -> {"idle", "waiting", "reading", "writing", "ended", "failed"}]
  BY DEF TypeOK
<1>2. plan' \in [Clients -> Plans]
  BY DEF TypeOK, Plans
<1>3. task' \in [Clients -> SUBSET Tasks]
  BY DEF TypeOK
<1>4. /\ row' \in [Subjects -> [version : Nat, state : States]]
      /\ \A s \in Subjects : row'[s].version = 0 <=> row'[s].state = "NONE"
      /\ events' \subseteq Events
      /\ receipts' \subseteq Receipts
  BY DEF TypeOK, tables
<1>5. lock' \in Clients \cup {NoClient} /\ answers' \subseteq Receipts
  BY DEF TypeOK
<1> QED BY <1>1, <1>2, <1>3, <1>4, <1>5 DEF TypeOK, Plans

\* A call is submitted, or repeated.
LEMMA OpenStep ==
  ASSUME CommandInv, NEW c \in Clients, NEW t \in Tasks, pc[c] \in {"idle", "failed"},
         pc' = [pc EXCEPT ![c] = "waiting"],
         task' = [task EXCEPT ![c] = {t}],
         plan' = [plan EXCEPT ![c] = Opened(t)],
         UNCHANGED <<tables, lock, answers, faults>>
  PROVE  CommandInv'
<1>0. Sound(t, Opened(t)) /\ (t.command \notin SnapshotCommands => Opened(t) = NoPlan)
  BY OpenedPlan DEF CommandInv, LogInv
<1>1. TypeOK'
  <2>1. Opened(t) \in Plans
    BY <1>0 DEF Sound
  <2>2. {t} \in SUBSET Tasks /\ answers' \in SUBSET Receipts /\ faults' \in 0 .. MaxFaults
    BY DEF CommandInv, TypeOK
  <2> QED BY <2>1, <2>2, TypeKept DEF CommandInv
<1>2. Mutex'
  BY DEF CommandInv, Mutex, TypeOK
<1>3. ASSUME NEW d \in Clients PROVE PlanInv(d)'
  <2>1. CASE d = c
    <3>1. plan'[c] = Opened(t) /\ pc'[c] = "waiting" /\ task'[c] = {t}
      BY DEF CommandInv, TypeOK
    <3> QED BY <1>0, <2>1, <3>1, PlanMade DEF CommandInv
  <2>2. CASE d # c
    BY <2>2, PlanKept DEF CommandInv, TypeOK
  <2> QED BY <2>1, <2>2
<1>4. LogInv' /\ AnswersAgree'
  BY LogKept DEF CommandInv, AnswersAgree, tables
<1> QED BY <1>1, <1>2, <1>3, <1>4 DEF CommandInv

\* A call ends for its client, or its transaction is rolled back.
LEMMA GiveUpStep ==
  ASSUME CommandInv, NEW c \in Clients, NEW ts \in SUBSET task[c],
         NEW stage \in {"idle", "failed"},
         lock' = Released(c),
         pc' = [pc EXCEPT ![c] = stage],
         task' = [task EXCEPT ![c] = ts],
         plan' = [plan EXCEPT ![c] = NoPlan],
         answers' \in SUBSET receipts,
         faults' \in 0 .. MaxFaults,
         UNCHANGED tables
  PROVE  CommandInv'
<1>0. Sound(c, NoPlan)
  BY EmptyPlans
<1>1. TypeOK'
  <2>1. NoPlan \in Plans
    BY <1>0 DEF Sound
  <2>2. ts \in SUBSET Tasks /\ lock' \in {lock, c, NoClient} /\ answers' \in SUBSET Receipts
    BY DEF CommandInv, TypeOK, Released
  <2> QED BY <2>1, <2>2, TypeKept DEF CommandInv
<1>2. Mutex'
  BY CommandsAssumption DEF CommandInv, Mutex, TypeOK, Released
<1>3. ASSUME NEW d \in Clients PROVE PlanInv(d)'
  <2>1. CASE d = c
    <3>1. plan'[c] = NoPlan /\ task'[c] = ts
      BY DEF CommandInv, TypeOK
    <3>2. NoPlan = [outcome |-> "none", stubs |-> {}, changes |-> {}, graph |-> 0]
      BY EmptyPlans
    <3>3. TaskIsSingle(c)'
      BY <3>1 DEF CommandInv, PlanInv, TaskIsSingle
    <3> QED
      BY <2>1, <3>1, <3>2, <3>3 DEF PlanInv, ChangesAreSingle, PlanFollowsLog,
         LockedPlanIsCurrent, PlanIsMadeLate, OutcomeIsRecorded, OpenPlan
  <2>2. CASE d # c
    BY <2>2, PlanKept DEF CommandInv, TypeOK
  <2> QED BY <2>1, <2>2
<1>4. LogInv' /\ AnswersAgree'
  BY LogKept DEF CommandInv, AnswersAgree, tables
<1> QED BY <1>1, <1>2, <1>3, <1>4 DEF CommandInv

\* The transaction gets the lock.
LEMMA BeginStep ==
  ASSUME CommandInv, NEW c \in Clients, Begin(c)
  PROVE  CommandInv'
<1>1. TypeOK'
  <2>1. plan[c] \in Plans /\ task[c] \in SUBSET Tasks
    BY DEF CommandInv, TypeOK, Plans
  <2>2. plan' = [plan EXCEPT ![c] = plan[c]] /\ task' = [task EXCEPT ![c] = task[c]]
    BY DEF CommandInv, TypeOK, Begin
  <2>3. /\ pc' = [pc EXCEPT ![c] = "reading"] /\ UNCHANGED tables
        /\ lock' = c /\ answers' \in SUBSET Receipts /\ faults' \in 0 .. MaxFaults
    BY DEF CommandInv, TypeOK, Begin
  <2> QED BY <2>1, <2>2, <2>3, TypeKept DEF CommandInv
<1>2. Mutex'
  BY CommandsAssumption DEF CommandInv, Mutex, TypeOK, Begin, ScopeIsFree
<1>3. ASSUME NEW d \in Clients PROVE PlanInv(d)'
  <2>1. CASE d = c
    <3>1. pc[c] = "waiting" /\ pc'[c] = "reading" /\ UNCHANGED <<tables, task, plan>>
      BY DEF CommandInv, TypeOK, Begin
    <3>2. PlanInv(c)
      BY DEF CommandInv
    <3> QED BY <2>1, <3>1, <3>2
         DEF tables, PlanInv, TaskIsSingle, ChangesAreSingle, PlanFollowsLog, LockedPlanIsCurrent,
             PlanIsMadeLate, OutcomeIsRecorded, OpenPlan
  <2>2. CASE d # c
    BY <2>2, PlanKept DEF CommandInv, TypeOK, Begin
  <2> QED BY <2>1, <2>2
<1>4. LogInv' /\ AnswersAgree'
  BY LogKept DEF CommandInv, AnswersAgree, tables, Begin
<1> QED BY <1>1, <1>2, <1>3, <1>4 DEF CommandInv

\* The operation reads the tables, unless its snapshot was read before.
LEMMA ExecuteStep ==
  ASSUME CommandInv, NEW c \in Clients, Execute(c)
  PROVE  CommandInv'
<1> PICK t \in task[c] : plan' = IF t.command \in SnapshotCommands THEN plan
                                 ELSE [plan EXCEPT ![c] = PlanOf(t)]
  BY DEF Execute
<1>0. /\ t \in Tasks /\ task[c] = {t} /\ Sound(t, PlanOf(t))
  <2>1. t \in Tasks /\ task[c] = {t}
    BY DEF CommandInv, TypeOK, PlanInv, TaskIsSingle
  <2> QED BY <2>1, PlanOfTask DEF CommandInv, LogInv
<1> DEFINE p == IF t.command \in SnapshotCommands THEN plan[c] ELSE PlanOf(t)
<1>a. p \in Plans
  BY <1>0 DEF CommandInv, TypeOK, Plans, Sound
<1>b. plan' = [plan EXCEPT ![c] = p]
  BY DEF CommandInv, TypeOK
<1>c. /\ pc[c] = "reading" /\ pc' = [pc EXCEPT ![c] = "writing"]
      /\ UNCHANGED <<tables, lock, task, answers, faults>>
  BY DEF Execute
<1>1. TypeOK'
  <2>1. task' = [task EXCEPT ![c] = task[c]] /\ task[c] \in SUBSET Tasks
    BY <1>c DEF CommandInv, TypeOK
  <2>2. UNCHANGED tables /\ lock' = lock /\ answers' \in SUBSET Receipts /\ faults' \in 0 .. MaxFaults
    BY <1>c DEF CommandInv, TypeOK
  <2> HIDE DEF p
  <2> QED BY <1>a, <1>b, <1>c, <2>1, <2>2, TypeKept DEF CommandInv
<1>2. Mutex'
  BY <1>c DEF CommandInv, Mutex, TypeOK
<1>3. ASSUME NEW d \in Clients PROVE PlanInv(d)'
  <2>0. pc'[c] = "writing" /\ task'[c] = {t} /\ plan'[c] = p
    BY <1>0, <1>b, <1>c DEF CommandInv, TypeOK
  <2>1. CASE d = c /\ t.command \notin SnapshotCommands
    BY <1>0, <1>c, <2>0, <2>1, PlanMade DEF CommandInv
  <2>2. CASE d = c /\ t.command \in SnapshotCommands
    <3>1. PlanInv(c)
      BY DEF CommandInv
    <3> QED BY <1>0, <1>c, <2>0, <2>2, <3>1
         DEF tables, PlanInv, TaskIsSingle, ChangesAreSingle, PlanFollowsLog, LockedPlanIsCurrent,
             PlanIsMadeLate, OutcomeIsRecorded, OpenPlan
  <2>3. CASE d # c
    BY <1>c, <2>3, PlanKept DEF CommandInv, TypeOK
  <2> QED BY <2>1, <2>2, <2>3
<1>4. LogInv' /\ AnswersAgree'
  BY <1>c, LogKept DEF CommandInv, AnswersAgree, tables
<1> QED BY <1>1, <1>2, <1>3, <1>4 DEF CommandInv

\* The transaction ends without having written anything.
LEMMA EndWithoutEffectStep ==
  ASSUME CommandInv, NEW c \in Clients, EndWithoutEffect(c)
  PROVE  CommandInv'
<1> DEFINE p == IF plan[c].outcome = "done" THEN Failed ELSE plan[c]
<1>0. Failed \in Plans /\ Failed = [outcome |-> "failed", stubs |-> {}, changes |-> {}, graph |-> 0]
  BY EmptyPlans DEF Sound
<1>a. p \in Plans /\ p.outcome # "done"
  BY <1>0 DEF CommandInv, TypeOK, Plans
<1>b. plan' = [plan EXCEPT ![c] = p]
  BY DEF CommandInv, TypeOK, EndWithoutEffect
<1>c. /\ pc[c] = "writing" /\ pc' = [pc EXCEPT ![c] = "ended"] /\ lock' = Released(c)
      /\ UNCHANGED <<tables, task, answers, faults>>
  BY DEF EndWithoutEffect
<1>1. TypeOK'
  <2>1. task' = [task EXCEPT ![c] = task[c]] /\ task[c] \in SUBSET Tasks
    BY <1>c DEF CommandInv, TypeOK
  <2>2. /\ UNCHANGED tables /\ lock' \in {lock, c, NoClient}
        /\ answers' \in SUBSET Receipts /\ faults' \in 0 .. MaxFaults
    BY <1>c DEF CommandInv, TypeOK, Released
  <2> HIDE DEF p
  <2> QED BY <1>a, <1>b, <1>c, <2>1, <2>2, TypeKept DEF CommandInv
<1>2. Mutex'
  BY <1>c, CommandsAssumption DEF CommandInv, Mutex, TypeOK, Released
<1>3. ASSUME NEW d \in Clients PROVE PlanInv(d)'
  <2>0. pc'[c] = "ended" /\ task'[c] = task[c] /\ plan'[c] = p
    BY <1>b, <1>c DEF CommandInv, TypeOK
  <2>1. CASE d = c
    <3>1. PlanInv(c)
      BY DEF CommandInv
    <3> QED BY <1>0, <1>a, <1>c, <2>0, <2>1, <3>1
         DEF tables, PlanInv, TaskIsSingle, ChangesAreSingle, PlanFollowsLog, LockedPlanIsCurrent,
             PlanIsMadeLate, OutcomeIsRecorded, OpenPlan
  <2>3. CASE d # c
    BY <1>b, <1>c, <2>3, PlanKept DEF CommandInv, TypeOK
  <2> QED BY <2>1, <2>3
<1>4. LogInv' /\ AnswersAgree'
  BY <1>c, LogKept DEF CommandInv, AnswersAgree, tables
<1> QED BY <1>1, <1>2, <1>3, <1>4 DEF CommandInv

-----------------------------------------------------------------------------
(* The commit                                                              *)

\* The event that records a change.
EventOf(d, g, k) ==
  [subject |-> d.subject, version |-> d.prior + 1, state |-> d.state, graph |-> g, key |-> k]

\* A commit of the command of t: what becomes visible.
Commits(c, t) ==
  /\ ~Conflicts(t, plan[c])
  /\ events' = events \cup {EventOf(d, plan[c].graph, t.key) : d \in plan[c].changes}
  /\ receipts' = receipts \cup {[key |-> t.key, command |-> t.command, graph |-> plan[c].graph]}
  /\ plan' = [d \in Clients |-> IF d # c /\ Doomed(d, t, plan[c]) THEN Failed ELSE plan[d]]

\* A commit gives every row it changes, and every node it creates, its next
\* version, and adds an event for each change.
LEMMA CommitEffect ==
  ASSUME CommandInv, NEW c \in Clients, Commit(c), NEW t \in task[c], Commits(c, t)
  PROVE  /\ \A d \in plan[c].changes :
              /\ d \in Changes /\ d.state \notin {"NONE", "STUB"}
              /\ d.prior = row[d.subject].version
              /\ row'[d.subject] = [version |-> d.prior + 1, state |-> d.state]
              /\ \A e \in events : e.subject = d.subject => e.graph < plan[c].graph
         /\ \A s \in Subjects :
              \/ row'[s] = row[s]
              \/ \E d \in plan[c].changes : d.subject = s
              \/ /\ s \in Nodes /\ row[s].state = "NONE" /\ row[s].version = 0
                 /\ row'[s] = [version |-> 1, state |-> "STUB"]
         /\ plan[c].graph \in Nat /\ pc[c] = "writing" /\ task[c] = {t} /\ t \in Tasks
<1> DEFINE p == plan[c]
<1>1. p \in Plans /\ t \in Tasks /\ task[c] = {t} /\ pc[c] = "writing" /\ p.outcome = "done"
  BY DEF CommandInv, TypeOK, Plans, PlanInv, TaskIsSingle, Commit
<1>2. p.changes \subseteq Changes /\ p.stubs \subseteq Nodes /\ p.graph \in Nat
  BY <1>1 DEF Plans
<1>3. row' = [s \in Subjects |-> Written(s, p)]
  BY DEF Commit
<1>4. PlanInv(c)
  BY DEF CommandInv
<1>5. /\ \A d \in p.changes : d.prior = row[d.subject].version
      /\ \A n \in p.stubs : row[n].state = "NONE"
  <2>1. CASE t.command \in SnapshotCommands
    BY <2>1 DEF Commits, Conflicts, Exists
  <2>2. CASE t.command \notin SnapshotCommands
    BY <1>1, <1>4, <2>2 DEF PlanInv, LockedPlanIsCurrent, OpenPlan
  <2> QED BY <2>1, <2>2
<1>6. \A d \in p.changes : d.state \notin {"NONE", "STUB"}
  BY <1>4 DEF PlanInv, ChangesAreSingle
<1>7. ASSUME NEW d \in p.changes
      PROVE  row'[d.subject] = [version |-> d.prior + 1, state |-> d.state]
  <2>1. d.subject \in Subjects
    BY <1>2 DEF Changes
  <2> DEFINE f == CHOOSE f \in p.changes : f.subject = d.subject
  <2>2. f \in p.changes /\ f.subject = d.subject
    OBVIOUS
  <2>3. f = d
    <3> HIDE DEF f
    <3> QED BY <1>4, <2>2 DEF PlanInv, ChangesAreSingle
  <2>4. Written(d.subject, p) = [version |-> f.prior + 1, state |-> f.state]
    BY DEF Written
  <2> QED BY <1>3, <2>1, <2>3, <2>4
<1>8. ASSUME NEW d \in p.changes, NEW e \in events, e.subject = d.subject
      PROVE  e.graph < p.graph
  <2>1. d.subject \in Subjects
    BY <1>2 DEF Changes
  <2>2. e.version <= row[d.subject].version
    <3>1. row[d.subject].version \in Nat
      BY <2>1 DEF CommandInv, TypeOK
    <3>2. e.version \in 1 .. row[d.subject].version
      BY <1>8, <2>1 DEF CommandInv, LogInv, LogExplainsRows
    <3> QED BY <3>1, <3>2
  <2> QED BY <1>1, <1>4, <1>5, <1>8, <2>2 DEF PlanInv, PlanFollowsLog, OpenPlan
<1>9. ASSUME NEW s \in Subjects, ~\E d \in p.changes : d.subject = s
      PROVE  \/ row'[s] = row[s]
             \/ /\ s \in Nodes /\ row[s].state = "NONE" /\ row[s].version = 0
                /\ row'[s] = [version |-> 1, state |-> "STUB"]
  <2>1. CASE s \in p.stubs
    <3>1. row[s].state = "NONE" /\ row[s].version = 0
      BY <1>5, <2>1 DEF CommandInv, TypeOK
    <3>2. row'[s] = [version |-> 0 + 1, state |-> "STUB"]
      BY <1>3, <1>9, <2>1, <3>1 DEF Written
    <3> QED BY <1>2, <2>1, <3>1, <3>2
  <2>2. CASE s \notin p.stubs
    BY <1>3, <1>9, <2>2 DEF Written
  <2> QED BY <2>1, <2>2
<1>10. \A d \in p.changes : d \in Changes
  BY <1>2
<1> QED BY <1>1, <1>2, <1>5, <1>6, <1>7, <1>8, <1>9, <1>10

\* What of the variables a commit changes, and how.
LEMMA CommitTypes ==
  ASSUME CommandInv, NEW c \in Clients, Commit(c), NEW t \in task[c], Commits(c, t)
  PROVE  TypeOK'
<1>1. row' \in [Subjects -> [version : Nat, state : States]]
  <2>1. ASSUME NEW s \in Subjects PROVE row'[s] \in [version : Nat, state : States]
    <3>1. row[s] \in [version : Nat, state : States]
      BY DEF CommandInv, TypeOK
    <3>2. CASE \E d \in plan[c].changes : d.subject = s
      <4> PICK d \in plan[c].changes : d.subject = s
        BY <3>2
      <4>1. d \in Changes /\ row'[s] = [version |-> d.prior + 1, state |-> d.state]
        BY CommitEffect DEF Commits
      <4>2. d.prior + 1 \in Nat /\ d.state \in States
        BY <4>1 DEF Changes
      <4> QED BY <4>1, <4>2
    <3>3. "STUB" \in States
      BY DEF States
    <3> QED BY <3>1, <3>2, <3>3, CommitEffect
  <2>2. row' = [s \in Subjects |-> row'[s]]
    BY DEF Commit
  <2> QED BY <2>1, <2>2
<1>2. \A s \in Subjects : row'[s].version = 0 <=> row'[s].state = "NONE"
  <2>1. ASSUME NEW s \in Subjects PROVE row'[s].version = 0 <=> row'[s].state = "NONE"
    <3>1. row[s].version = 0 <=> row[s].state = "NONE"
      BY DEF CommandInv, TypeOK
    <3>2. CASE \E d \in plan[c].changes : d.subject = s
      <4> PICK d \in plan[c].changes : d.subject = s
        BY <3>2
      <4>1. row'[s] = [version |-> d.prior + 1, state |-> d.state] /\ d.prior \in Nat /\ d.state # "NONE"
        BY CommitEffect DEF Changes
      <4> QED BY <4>1
    <3> QED BY <3>1, <3>2, CommitEffect
  <2> QED BY <2>1
<1>3. events' \subseteq Events
  <2>1. ASSUME NEW d \in plan[c].changes
        PROVE  EventOf(d, plan[c].graph, t.key) \in Events
    <3>1. d \in Changes /\ plan[c].graph \in Nat /\ t.key \in Keys
      BY CommitEffect DEF Tasks
    <3> QED BY <3>1 DEF EventOf, Changes, Events
  <2>2. events \subseteq Events
    BY DEF CommandInv, TypeOK
  <2> QED BY <2>1, <2>2 DEF Commits
<1>4. receipts' \subseteq Receipts
  <2>1. plan[c].graph \in Nat /\ t \in Tasks
    BY CommitEffect
  <2>2. receipts \subseteq Receipts
    BY DEF CommandInv, TypeOK
  <2> QED BY <2>1, <2>2 DEF Commits, Tasks, Receipts
<1>5. plan' \in [Clients -> Plans]
  <2>1. Failed \in Plans
    BY EmptyPlans DEF Sound
  <2> QED BY <2>1 DEF Commits, CommandInv, TypeOK, Plans
<1>6. pc' \in [Clients -> {"idle", "waiting", "reading", "writing", "ended", "failed"}]
  BY DEF Commit, CommandInv, TypeOK
<1>7. /\ lock' \in Clients \cup {NoClient} /\ task' \in [Clients -> SUBSET Tasks]
      /\ answers' \subseteq Receipts /\ faults' \in 0 .. MaxFaults
  BY DEF Commit, CommandInv, TypeOK, Released
<1> QED BY <1>1, <1>2, <1>3, <1>4, <1>5, <1>6, <1>7 DEF TypeOK, Plans

\* After a commit the log still explains the rows.
LEMMA CommitLog ==
  ASSUME CommandInv, NEW c \in Clients, Commit(c), NEW t \in task[c], Commits(c, t)
  PROVE  LogInv'
<1> DEFINE C == plan[c].changes
           G == plan[c].graph
           N == [d \in C |-> EventOf(d, G, t.key)]
<1>a. /\ events \subseteq events'
      /\ \A d \in C : N[d] \in events'
      /\ \A e \in events' : e \in events \/ \E d \in C : e = N[d]
  BY DEF Commits
<1>b. \A d \in C : N[d].subject = d.subject /\ N[d].version = d.prior + 1
                   /\ N[d].state = d.state /\ N[d].graph = G
  BY DEF EventOf
<1>c. \A d \in C : /\ d.state \notin {"NONE", "STUB"}
                   /\ d.subject \in Subjects /\ d.prior \in Nat
                   /\ d.prior = row[d.subject].version
                   /\ row'[d.subject].version = d.prior + 1
                   /\ row'[d.subject].state = d.state
                   /\ \A e \in events : e.subject = d.subject => e.graph < G
  <2>1. \A d \in C : /\ d \in Changes /\ d.state \notin {"NONE", "STUB"}
                     /\ d.prior = row[d.subject].version
                     /\ row'[d.subject] = [version |-> d.prior + 1, state |-> d.state]
                     /\ \A e \in events : e.subject = d.subject => e.graph < G
    BY CommitEffect
  <2> HIDE DEF C, G
  <2>2. \A d \in C : d.subject \in Subjects /\ d.prior \in Nat
    BY <2>1 DEF Changes
  <2>3. ASSUME NEW d \in C
        PROVE  row'[d.subject].version = d.prior + 1 /\ row'[d.subject].state = d.state
    <3>1. row'[d.subject] = [version |-> d.prior + 1, state |-> d.state]
      BY <2>1
    <3> QED BY <3>1
  <2>4. \A d \in C : d.prior = row[d.subject].version /\ d.state \notin {"NONE", "STUB"}
    BY <2>1
  <2>5. \A d \in C, e \in events : e.subject = d.subject => e.graph < G
    BY <2>1
  <2> QED BY <2>2, <2>3, <2>4, <2>5
<1>d. \A d, f \in C : d.subject = f.subject => d = f
  BY DEF CommandInv, PlanInv, ChangesAreSingle
<1>e. \A s \in Subjects :
        \/ row'[s] = row[s]
        \/ \E d \in C : d.subject = s
        \/ /\ s \in Nodes /\ row[s].state = "NONE" /\ row[s].version = 0
           /\ row'[s] = [version |-> 1, state |-> "STUB"]
  BY CommitEffect
<1>f. G \in Nat /\ \A e \in events : e.graph \in Nat /\ e.version \in Nat /\ e.subject \in Subjects
  BY CommitEffect DEF CommandInv, TypeOK, Events
<1>g. /\ \A s \in Subjects : row[s].version \in Nat
      /\ \A e \in events : e.version \in 1 .. row[e.subject].version
  BY <1>f DEF CommandInv, TypeOK, LogInv, LogExplainsRows
<1>h. LogInv
  BY DEF CommandInv
<1> HIDE DEF C, G, N
<1>1. HasLatest'
  <2>1. CASE C = {}
    <3>1. events' = events
      BY <1>a, <2>1
    <3> QED BY <1>h, <3>1 DEF LogInv, HasLatest
  <2>2. CASE C # {} /\ (events = {} \/ \A e \in events : e.graph <= G)
    <3> PICK d \in C : TRUE
      BY <2>2
    <3>1. N[d] \in events' /\ N[d].graph = G /\ \A e \in events' : e.graph <= G
      BY <1>a, <1>b, <1>f, <2>2
    <3> QED BY <3>1 DEF HasLatest
  <2>3. CASE C # {} /\ \E e \in events : ~(e.graph <= G)
    <3> PICK e \in events : ~(e.graph <= G)
      BY <2>3
    <3> PICK f \in events : \A x \in events : x.graph <= f.graph
      BY <1>h DEF LogInv, HasLatest
    <3>1. G <= f.graph
      BY <1>f
    <3> QED BY <1>a, <1>b, <1>f, <3>1 DEF HasLatest
  <2> QED BY <2>1, <2>2, <2>3
<1>2. OneEventPerVersion'
  <2>1. ASSUME NEW e \in events, NEW d \in C, e.subject = d.subject
        PROVE  e.version # d.prior + 1
    <3>1. e.version \in 1 .. d.prior /\ d.prior \in Nat
      BY <1>c, <1>g, <2>1
    <3> QED BY <3>1
  <2> QED BY <1>a, <1>b, <1>c, <1>d, <1>f, <1>h, <2>1 DEF LogInv, OneEventPerVersion
<1>3. VersionsInGraphOrder'
  <2>1. ASSUME NEW e \in events, NEW d \in C, e.subject = d.subject
        PROVE  /\ e.version < d.prior + 1 /\ e.graph < G
               /\ ~(d.prior + 1 < e.version) /\ ~(G < e.graph)
    <3>1. e.version \in 1 .. d.prior /\ d.prior \in Nat /\ e.graph < G /\ e.graph \in Nat
      BY <1>c, <1>f, <1>g, <2>1
    <3> QED BY <1>f, <3>1
  <2>2. ASSUME NEW d \in C, NEW f \in C, d.subject = f.subject
        PROVE  ~(d.prior + 1 < f.prior + 1) /\ ~(G < G)
    <3>1. d = f /\ d.prior \in Nat
      BY <1>c, <1>d, <2>2
    <3> QED BY <1>f, <3>1
  <2> SUFFICES ASSUME NEW e \in events', NEW f \in events', e.subject = f.subject
               PROVE  e.version < f.version <=> e.graph < f.graph
    BY DEF VersionsInGraphOrder
  <2>3. CASE e \in events /\ f \in events
    BY <1>h, <2>3 DEF LogInv, VersionsInGraphOrder
  <2>4. CASE e \in events /\ \E d \in C : f = N[d]
    BY <1>b, <2>1, <2>4
  <2>5. CASE f \in events /\ \E d \in C : e = N[d]
    BY <1>b, <2>1, <2>5
  <2>6. CASE (\E d \in C : e = N[d]) /\ (\E d \in C : f = N[d])
    BY <1>b, <2>2, <2>6
  <2> QED BY <1>a, <2>3, <2>4, <2>5, <2>6
<1>4. StubsAreFirst'
  BY <1>c, <1>e, <1>h DEF LogInv, StubsAreFirst
<1>5. LogExplainsRows'
  <2> SUFFICES ASSUME NEW s \in Subjects
               PROVE  /\ row'[s].state \notin {"NONE", "STUB"} =>
                           \E e \in events' : e.subject = s /\ e.version = row'[s].version
                                              /\ e.state = row'[s].state
                      /\ \A e \in events' : e.subject = s =>
                           /\ e.version \in 1 .. row'[s].version
                           /\ \/ e.version = 1
                              \/ e.version = 2 /\ s \in Nodes
                              \/ \E f \in events' : f.subject = s /\ f.version = e.version - 1
    BY DEF LogExplainsRows
  <2>0. /\ row[s].state \notin {"NONE", "STUB"} =>
             \E e \in events : e.subject = s /\ e.version = row[s].version /\ e.state = row[s].state
        /\ \A e \in events : e.subject = s =>
             /\ e.version \in 1 .. row[s].version
             /\ \/ e.version = 1
                \/ e.version = 2 /\ s \in Nodes
                \/ \E f \in events : f.subject = s /\ f.version = e.version - 1
    BY <1>h DEF LogInv, LogExplainsRows
  <2>1. CASE ~\E d \in C : d.subject = s
    <3>1. \A e \in events' : e.subject = s => e \in events
      BY <1>a, <1>b, <2>1
    <3>2. events \subseteq events'
      BY <1>a
    <3>3. CASE row'[s] = row[s]
      BY <2>0, <3>1, <3>2, <3>3
    <3>4. CASE row[s].version = 0 /\ row'[s] = [version |-> 1, state |-> "STUB"]
      BY <2>0, <3>1, <3>2, <3>4
    <3> QED BY <1>e, <2>1, <3>3, <3>4
  <2>2. CASE \E d \in C : d.subject = s
    <3> PICK d \in C : d.subject = s
      BY <2>2
    <3>1. /\ N[d] \in events' /\ N[d].subject = s /\ N[d].version = row[s].version + 1
          /\ row'[s].version = row[s].version + 1 /\ N[d].state = row'[s].state
          /\ row[s].version \in Nat
      BY <1>a, <1>b, <1>c
    <3>2. \A e \in events' : e.subject = s => e \in events \/ e = N[d]
      BY <1>a, <1>b, <1>d
    <3>3. events \subseteq events'
      BY <1>a
    <3>4. \/ row[s].version = 0
          \/ row[s].version = 1 /\ s \in Nodes
          \/ \E f \in events : f.subject = s /\ f.version = row[s].version
      <4>1. row[s].version = 0 <=> row[s].state = "NONE"
        BY DEF CommandInv, TypeOK
      <4>2. row[s].state = "STUB" => row[s].version = 1 /\ s \in Nodes
        BY <1>h DEF LogInv, StubsAreFirst
      <4> QED BY <2>0, <4>1, <4>2
    <3>5. ASSUME NEW e \in events, e.subject = s
          PROVE  /\ e.version \in 1 .. row'[s].version
                 /\ \/ e.version = 1
                    \/ e.version = 2 /\ s \in Nodes
                    \/ \E f \in events' : f.subject = s /\ f.version = e.version - 1
      BY <2>0, <3>1, <3>3, <3>5
    <3>6. /\ N[d].version \in 1 .. row'[s].version
          /\ \/ N[d].version = 1
             \/ N[d].version = 2 /\ s \in Nodes
             \/ \E f \in events' : f.subject = s /\ f.version = N[d].version - 1
      BY <3>1, <3>3, <3>4
    <3> QED BY <3>1, <3>2, <3>5, <3>6
  <2> QED BY <2>1, <2>2
<1> QED BY <1>1, <1>2, <1>3, <1>4, <1>5 DEF LogInv

\* After a commit the transactions that wait can still go on from what they
\* have read.
LEMMA CommitPlans ==
  ASSUME CommandInv, NEW c \in Clients, Commit(c), NEW t \in task[c], Commits(c, t),
         NEW b \in Clients
  PROVE  PlanInv(b)'
<1>1. PlanInv(b) /\ task' = task
  BY DEF CommandInv, Commit
<1>2. receipts \subseteq receipts'
  BY DEF Commits
<1>3. plan'[b] = (IF b # c /\ Doomed(b, t, plan[c]) THEN Failed ELSE plan[b])
  BY DEF Commits
<1>4. Failed = [outcome |-> "failed", stubs |-> {}, changes |-> {}, graph |-> 0]
  BY EmptyPlans
<1>5. TaskIsSingle(b)' /\ ChangesAreSingle(b)'
  BY <1>1, <1>3, <1>4 DEF PlanInv, TaskIsSingle, ChangesAreSingle
<1>6. CASE b = c
  <2>1. pc'[b] = "ended" /\ plan'[b] = plan[c]
    BY <1>3, <1>6 DEF Commit, CommandInv, TypeOK
  <2>2. OutcomeIsRecorded(b)'
    <3>1. task'[b] = {t} /\ [key |-> t.key, command |-> t.command, graph |-> plan[c].graph] \in receipts'
      BY <1>1, <1>6, CommitEffect DEF Commits
    <3> QED BY <2>1, <3>1 DEF OutcomeIsRecorded
  <2> QED BY <1>5, <2>1, <2>2 DEF PlanInv, PlanFollowsLog, LockedPlanIsCurrent, PlanIsMadeLate, OpenPlan
<1>7. CASE b # c
  <2>1. pc'[b] = pc[b] /\ pc[b] # "writing"
    BY <1>7 DEF Commit, CommandInv, TypeOK, Mutex
  <2>2. CASE plan'[b] = plan[b]
    <3>1. PlanFollowsLog(b)'
      <4> SUFFICES ASSUME OpenPlan(b), NEW d \in plan[b].changes
                   PROVE  /\ d.prior <= row'[d.subject].version
                          /\ \A e \in events' : e.subject = d.subject /\ e.version <= d.prior =>
                               e.graph < plan[b].graph
        BY <2>1, <2>2 DEF PlanFollowsLog, OpenPlan
      <4>1. d.subject \in Subjects /\ d.prior \in Nat /\ row[d.subject].version \in Nat
        BY DEF CommandInv, TypeOK, Changes
      <4>2. d.prior <= row[d.subject].version
            /\ \A e \in events : e.subject = d.subject /\ e.version <= d.prior => e.graph < plan[b].graph
        BY <1>1 DEF PlanInv, PlanFollowsLog
      <4>3. row[d.subject].version <= row'[d.subject].version /\ row'[d.subject].version \in Nat
        <5>1. CASE \E x \in plan[c].changes : x.subject = d.subject
          <6> PICK x \in plan[c].changes : x.subject = d.subject
            BY <5>1
          <6>1. row'[x.subject] = [version |-> x.prior + 1, state |-> x.state] /\ x.prior = row[x.subject].version
            BY CommitEffect
          <6> QED BY <4>1, <5>1, <6>1
        <5>2. CASE ~\E x \in plan[c].changes : x.subject = d.subject
          BY <4>1, <5>2, CommitEffect
        <5> QED BY <5>1, <5>2
      <4>4. ASSUME NEW e \in events', e \notin events, e.subject = d.subject
            PROVE  ~(e.version <= d.prior)
        <5>1. PICK x \in plan[c].changes : e = EventOf(x, plan[c].graph, t.key)
          BY <4>4 DEF Commits
        <5>2. x.prior = row[x.subject].version
          BY CommitEffect
        <5>3. e.version = x.prior + 1 /\ x.subject = d.subject
          BY <4>4, <5>1 DEF EventOf
        <5> QED BY <4>1, <4>2, <5>2, <5>3
      <4> QED BY <4>1, <4>2, <4>3, <4>4
    <3>2. LockedPlanIsCurrent(b)' /\ PlanIsMadeLate(b)' /\ OutcomeIsRecorded(b)'
      BY <1>1, <1>2, <2>1, <2>2
         DEF PlanInv, LockedPlanIsCurrent, PlanIsMadeLate, OutcomeIsRecorded, OpenPlan
    <3> QED BY <1>5, <3>1, <3>2 DEF PlanInv
  <2>3. CASE Doomed(b, t, plan[c]) /\ plan'[b] = Failed
    <3>1. PlanIsMadeLate(b)'
      <4>1. \A u \in task[b] : u.command \in SnapshotCommands
        BY <1>1, <2>3 DEF Doomed, PlanInv, TaskIsSingle
      <4> QED BY <1>1, <4>1 DEF PlanIsMadeLate
    <3> QED BY <1>4, <1>5, <2>3, <3>1
         DEF PlanInv, PlanFollowsLog, LockedPlanIsCurrent, OutcomeIsRecorded, OpenPlan
  <2> QED BY <1>3, <1>7, <2>2, <2>3
<1> QED BY <1>6, <1>7

\* The transaction commits.
LEMMA CommitStep ==
  ASSUME CommandInv, NEW c \in Clients, Commit(c)
  PROVE  CommandInv'
<1> PICK t \in task[c] : Commits(c, t)
  BY DEF Commit, Commits, EventOf
<1>1. TypeOK'
  BY CommitTypes
<1>2. Mutex'
  BY CommandsAssumption DEF CommandInv, TypeOK, Mutex, Commit, Released
<1>3. \A b \in Clients : PlanInv(b)'
  BY CommitPlans
<1>4. LogInv'
  BY CommitLog
<1>5. AnswersAgree'
  <2>1. \A r \in receipts : r.key # t.key
    BY DEF Commits, Conflicts
  <2> QED BY <2>1 DEF CommandInv, AnswersAgree, Commits, Commit
<1> QED BY <1>1, <1>2, <1>3, <1>4, <1>5 DEF CommandInv

-----------------------------------------------------------------------------
(* The invariant                                                           *)

\* The tables of a new scope are consistent.
LEMMA CommandInit == Init => CommandInv
<1> SUFFICES ASSUME Init PROVE CommandInv
  OBVIOUS
<1>0. NoPlan \in Plans /\ NoPlan = [outcome |-> "none", stubs |-> {}, changes |-> {}, graph |-> 0]
  BY EmptyPlans DEF Sound
<1>1. TypeOK
  <2>1. Absent \in [version : Nat, state : States] /\ Absent.version = 0 /\ Absent.state = "NONE"
    BY DEF Absent, States
  <2>2. row \in [Subjects -> [version : Nat, state : States]]
        /\ \A s \in Subjects : row[s].version = 0 <=> row[s].state = "NONE"
    BY <2>1 DEF Init
  <2>3. plan \in [Clients -> Plans]
    BY <1>0 DEF Init
  <2> QED BY <2>2, <2>3, CommandsAssumption DEF Init, TypeOK, Plans
<1>2. Mutex
  BY CommandsAssumption DEF Init, Mutex
<1>3. ASSUME NEW c \in Clients PROVE PlanInv(c)
  BY <1>0 DEF Init, PlanInv, TaskIsSingle, ChangesAreSingle, PlanFollowsLog, LockedPlanIsCurrent,
              PlanIsMadeLate, OutcomeIsRecorded, OpenPlan
<1>4. LogInv
  BY DEF Init, Absent, LogInv, HasLatest, OneEventPerVersion, VersionsInGraphOrder, StubsAreFirst,
         LogExplainsRows
<1>5. AnswersAgree
  BY DEF Init, AnswersAgree
<1> QED BY <1>1, <1>2, <1>3, <1>4, <1>5 DEF CommandInv

\* Every step keeps them consistent.
LEMMA CommandStep == CommandInv /\ [Next]_vars => CommandInv'
<1> SUFFICES ASSUME CommandInv, [Next]_vars PROVE CommandInv'
  OBVIOUS
<1>1. ASSUME NEW c \in Clients, NEW k \in Keys, NEW m \in Commands, Submit(c, k, m)
      PROVE  CommandInv'
  <2>1. [key |-> k, command |-> m] \in Tasks
    BY DEF Tasks
  <2> QED BY <1>1, <2>1, OpenStep DEF Submit
<1>2. ASSUME NEW c \in Clients, Begin(c) PROVE CommandInv'
  BY <1>2, BeginStep
<1>3. ASSUME NEW c \in Clients, Execute(c) PROVE CommandInv'
  BY <1>3, ExecuteStep
<1>4. ASSUME NEW c \in Clients, Commit(c) PROVE CommandInv'
  BY <1>4, CommitStep
<1>5. ASSUME NEW c \in Clients, EndWithoutEffect(c) PROVE CommandInv'
  BY <1>5, EndWithoutEffectStep
<1>6. ASSUME NEW c \in Clients, Answer(c) PROVE CommandInv'
  <2>1. pc[c] = "ended" /\ lock' = lock /\ lock = Released(c)
    BY <1>6, CommandsAssumption DEF Answer, Released, CommandInv, Mutex, TypeOK
  <2>2. answers' \in SUBSET receipts
    <3>1. answers \subseteq receipts
      BY DEF CommandInv, AnswersAgree
    <3>2. ASSUME NEW t \in task[c], plan[c].outcome \in {"done", "replayed"}
          PROVE  [key |-> t.key, command |-> t.command, graph |-> plan[c].graph] \in receipts
      BY <2>1, <3>2 DEF CommandInv, PlanInv, OutcomeIsRecorded
    <3> QED BY <1>6, <3>1, <3>2 DEF Answer
  <2>3. faults' \in 0 .. MaxFaults
    BY <1>6 DEF Answer, CommandInv, TypeOK
  <2> QED BY <1>6, <2>1, <2>2, <2>3, GiveUpStep DEF Answer
<1>7. ASSUME NEW c \in Clients, RollBack(c) \/ LoseAnswer(c) PROVE CommandInv'
  <2>1. /\ faults' \in 0 .. MaxFaults /\ answers' \in SUBSET receipts
        /\ pc' = [pc EXCEPT ![c] = "failed"] /\ plan' = [plan EXCEPT ![c] = NoPlan]
        /\ UNCHANGED tables
    BY <1>7, CommandsAssumption DEF RollBack, LoseAnswer, CommandInv, TypeOK, AnswersAgree
  <2>2. lock' = Released(c)
    BY <1>7, CommandsAssumption DEF RollBack, LoseAnswer, Released, CommandInv, Mutex, TypeOK
  <2>3. task' = [task EXCEPT ![c] = task[c]]
    BY <1>7 DEF RollBack, LoseAnswer, CommandInv, TypeOK
  <2> QED BY <2>1, <2>2, <2>3, GiveUpStep
<1>8. ASSUME NEW c \in Clients, Retry(c) PROVE CommandInv'
  <2> PICK t \in task[c] : plan' = [plan EXCEPT ![c] = Opened(t)]
    BY <1>8 DEF Retry
  <2>1. t \in Tasks /\ task' = [task EXCEPT ![c] = {t}]
    BY <1>8 DEF Retry, CommandInv, TypeOK, PlanInv, TaskIsSingle
  <2> QED BY <1>8, <2>1, OpenStep DEF Retry
<1>9. CASE UNCHANGED vars
  <2>1. UNCHANGED <<tables, lock, pc, task, plan, answers, faults>>
    BY <1>9 DEF vars
  <2>2. TypeOK' /\ Mutex' /\ AnswersAgree'
    BY <2>1 DEF CommandInv, tables, TypeOK, Mutex, AnswersAgree
  <2>3. \A c \in Clients : PlanInv(c)'
    BY <2>1, PlanKept DEF CommandInv
  <2>4. LogInv'
    BY <2>1, LogKept DEF CommandInv
  <2> QED BY <2>2, <2>3, <2>4 DEF CommandInv
<1> QED BY <1>1, <1>2, <1>3, <1>4, <1>5, <1>6, <1>7, <1>8, <1>9 DEF Next

\* The invariant of the specification: the tables are typed, the lock excludes,
\* plans stay applicable, the log explains the rows and answers are recorded.
THEOREM CommandInvariant == Spec => []CommandInv
BY CommandInit, CommandStep, PTL DEF Spec

\* The variables have their types, for every set of commands.
THEOREM TypeCorrect == Spec => []TypeOK
<1>1. CommandInv => TypeOK
  BY DEF CommandInv
<1> QED BY <1>1, CommandInvariant, PTL

\* However the commands of a scope interleave and at whichever isolation they
\* run, a version of a row is never described by two events.
THEOREM VersionsAreUnique == Spec => []OneEventPerVersion
<1>1. CommandInv => OneEventPerVersion
  BY DEF CommandInv, LogInv
<1> QED BY <1>1, CommandInvariant, PTL

\* Graph versions order the events of a row as its versions do, although a
\* SERIALIZABLE transaction numbers its events before it has the lock.
THEOREM GraphOrderIsRowOrder == Spec => []VersionsInGraphOrder
<1>1. CommandInv => VersionsInGraphOrder
  BY DEF CommandInv, LogInv
<1> QED BY <1>1, CommandInvariant, PTL

\* The tables can be rebuilt from the log.
THEOREM LogIsComplete == Spec => []LogExplainsRows
<1>1. CommandInv => LogExplainsRows
  BY DEF CommandInv, LogInv
<1> QED BY <1>1, CommandInvariant, PTL

\* All who are told that a key succeeded are told the same.
THEOREM AnswersAreConsistent == Spec => []AnswersAgree
<1>1. CommandInv => AnswersAgree
  BY DEF CommandInv
<1> QED BY <1>1, CommandInvariant, PTL

-----------------------------------------------------------------------------
(* Scopes without SERIALIZABLE commands: the log is numbered under the     *)
(* lock, so it only grows at its end.                                      *)

\* The version a plan records is the one the log has, or the next one.
NextOf(p) == IF p.changes = {} THEN CurrentGraphVersion ELSE CurrentGraphVersion + 1

\* A client that is about to write has numbered its events with the next
\* version of the log as it is.
LockedPlanIsNext ==
  \A c \in Clients : pc[c] = "writing" /\ plan[c].outcome = "done" => plan[c].graph = NextOf(plan[c])

LedgerInv == CommandInv /\ LockedPlanIsNext

\* A bound that the log reaches is its current version.
LEMMA LatestIsUnique ==
  ASSUME NEW E, NEW g \in Nat, \A e \in E : e.graph \in Nat /\ e.graph <= g,
         NEW f \in E, f.graph = g
  PROVE  (CHOOSE v \in {e.graph : e \in E} : \A e \in E : e.graph <= v) = g
<1> DEFINE P(v) == \A e \in E : e.graph <= v
           S == {e.graph : e \in E}
<1>1. g \in S /\ P(g)
  OBVIOUS
<1>2. \A v \in S : P(v) => v = g
  <2> SUFFICES ASSUME NEW e \in E, P(e.graph) PROVE e.graph = g
    OBVIOUS
  <2> QED OBVIOUS
<1> HIDE DEF P, S
<1>3. (CHOOSE v \in S : P(v)) = g
  BY <1>1, <1>2
<1> QED BY <1>3 DEF P, S

\* What a commit does to the current graph version.
LEMMA CommitLatest ==
  ASSUME LedgerInv, NEW c \in Clients, Commit(c), NEW t \in task[c], Commits(c, t)
  PROVE  /\ CurrentGraphVersion \in Nat
         /\ plan[c].graph = NextOf(plan[c])
         /\ CurrentGraphVersion' = plan[c].graph
         /\ \A e \in events' : e \in events \/ e.graph = CurrentGraphVersion + 1
<1> DEFINE C == plan[c].changes
           G == plan[c].graph
<1>0. /\ CurrentGraphVersion \in Nat
      /\ \A e \in events : e.graph \in Nat /\ e.graph <= CurrentGraphVersion
  <2>1. events \subseteq Events /\ HasLatest
    BY DEF LedgerInv, CommandInv, TypeOK, LogInv
  <2> QED BY <2>1, LatestBounds DEF Events
<1>1. G = NextOf(plan[c])
  BY DEF LedgerInv, LockedPlanIsNext, Commit
<1>2. events' = events \cup {EventOf(d, G, t.key) : d \in C}
  BY DEF Commits
<1>3. CASE C = {}
  <2>1. events' = events
    BY <1>2, <1>3
  <2> QED BY <1>0, <1>1, <1>3, <2>1 DEF CurrentGraphVersion, NextOf
<1>4. CASE C # {}
  <2>1. G = CurrentGraphVersion + 1 /\ G \in Nat
    BY <1>0, <1>1, <1>4 DEF NextOf
  <2>2. \A e \in events' : e \in events \/ e.graph = G
    BY <1>2 DEF EventOf
  <2> PICK d \in C : TRUE
    BY <1>4
  <2>3. EventOf(d, G, t.key) \in events' /\ EventOf(d, G, t.key).graph = G
    BY <1>2 DEF EventOf
  <2> HIDE DEF C, G
  <2>4. \A e \in events' : e.graph \in Nat /\ e.graph <= G
    BY <1>0, <2>1, <2>2
  <2>5. (CHOOSE v \in {e.graph : e \in events'} : \A e \in events' : e.graph <= v) = G
    BY <2>1, <2>3, <2>4, LatestIsUnique
  <2>6. events' # {}
    BY <2>3
  <2>7. CurrentGraphVersion' = G
    BY <2>5, <2>6 DEF CurrentGraphVersion
  <2> QED BY <1>0, <1>1, <2>1, <2>2, <2>7 DEF G
<1> QED BY <1>3, <1>4

\* A client reads, numbers its events and commits within one hold of the lock.
LEMMA LedgerStep ==
  ASSUME SnapshotCommands = {}, LedgerInv, [Next]_vars
  PROVE  LedgerInv'
<1>1. CommandInv'
  BY CommandStep DEF LedgerInv
<1>2. ASSUME NEW c \in Clients, Execute(c) PROVE LockedPlanIsNext'
  <2> PICK t \in task[c] : plan' = [plan EXCEPT ![c] = PlanOf(t)]
    BY <1>2 DEF Execute
  <2>1. PlanOf(t).outcome = "done" => PlanOf(t).graph = NextOf(PlanOf(t))
    <3>1. NoPlan.outcome = "none" /\ Failed.outcome = "failed"
      BY EmptyPlans
    <3> QED BY <3>1 DEF PlanOf, NextOf, NextGraphVersion, Failed, NoPlan
  <2>2. pc[c] = "reading" /\ pc' = [pc EXCEPT ![c] = "writing"] /\ events' = events
    BY <1>2 DEF Execute, tables
  <2>3. \A b \in Clients : b # c => pc'[b] = pc[b] /\ plan'[b] = plan[b]
    BY <2>2 DEF LedgerInv, CommandInv, TypeOK
  <2>4. plan'[c] = PlanOf(t)
    BY DEF LedgerInv, CommandInv, TypeOK
  <2>5. CurrentGraphVersion' = CurrentGraphVersion
    BY <2>2 DEF CurrentGraphVersion
  <2> QED BY <2>1, <2>3, <2>4, <2>5 DEF LedgerInv, LockedPlanIsNext, NextOf
<1>3. ASSUME NEW c \in Clients, Commit(c) PROVE LockedPlanIsNext'
  <2>1. \A b \in Clients : pc'[b] # "writing"
    BY <1>3 DEF Commit, LedgerInv, CommandInv, TypeOK, Mutex
  <2> QED BY <2>1 DEF LockedPlanIsNext
<1>4. ASSUME UNCHANGED events,
             \A b \in Clients : pc'[b] = "writing" => pc[b] = "writing" /\ plan'[b] = plan[b]
      PROVE  LockedPlanIsNext'
  BY <1>4 DEF LedgerInv, LockedPlanIsNext, NextOf, CurrentGraphVersion
<1>5. ASSUME NEW c \in Clients,
             \/ \E k \in Keys, m \in Commands : Submit(c, k, m)
             \/ Begin(c) \/ EndWithoutEffect(c) \/ Answer(c)
             \/ RollBack(c) \/ LoseAnswer(c) \/ Retry(c)
      PROVE  LockedPlanIsNext'
  <2>1. UNCHANGED events
    BY <1>5 DEF Submit, Begin, EndWithoutEffect, Answer, RollBack, LoseAnswer, Retry, tables
  <2>2. /\ \E stage \in {"waiting", "reading", "ended", "idle", "failed"} : pc' = [pc EXCEPT ![c] = stage]
        /\ \A b \in Clients : b # c => plan'[b] = plan[b]
    BY <1>5 DEF Submit, Begin, EndWithoutEffect, Answer, RollBack, LoseAnswer, Retry,
                LedgerInv, CommandInv, TypeOK
  <2>3. \A b \in Clients : pc'[b] = "writing" => b # c /\ pc[b] = "writing" /\ plan'[b] = plan[b]
    BY <2>2 DEF LedgerInv, CommandInv, TypeOK
  <2> QED BY <1>4, <2>1, <2>3
<1>6. ASSUME UNCHANGED vars PROVE LockedPlanIsNext'
  <2>1. UNCHANGED events
    BY <1>6 DEF vars, tables
  <2>2. \A b \in Clients : pc'[b] = "writing" => pc[b] = "writing" /\ plan'[b] = plan[b]
    BY <1>6 DEF vars
  <2> QED BY <1>4, <2>1, <2>2
<1> QED BY <1>1, <1>2, <1>3, <1>5, <1>6 DEF Next, LedgerInv

\* A new scope has an empty ledger.
LEMMA LedgerInit == Init => LedgerInv
<1> SUFFICES ASSUME Init PROVE LedgerInv
  OBVIOUS
<1>1. LockedPlanIsNext
  BY DEF Init, LockedPlanIsNext
<1> QED BY <1>1, CommandInit DEF LedgerInv

\* Without SERIALIZABLE commands, what the log says up to a graph version is
\* final: a projector that has read up to there has missed nothing.
THEOREM WaterlineIsStable ==
  ASSUME SnapshotCommands = {} PROVE Spec => GraphWaterlineStable
<1>1. ASSUME LedgerInv, [Next]_vars
      PROVE  [\A e \in events' \ events : e.graph > CurrentGraphVersion]_vars
  <2>1. ASSUME NEW c \in Clients, Commit(c)
        PROVE  \A e \in events' \ events : e.graph > CurrentGraphVersion
    <3> PICK t \in task[c] : Commits(c, t)
      BY <2>1 DEF Commit, Commits, EventOf
    <3>1. CurrentGraphVersion \in Nat /\ \A e \in events' : e \in events \/ e.graph = CurrentGraphVersion + 1
      BY <1>1, <2>1, CommitLatest
    <3> QED BY <3>1
  <2>2. CASE \A c \in Clients : ~Commit(c)
    <3>1. UNCHANGED events
      BY <1>1, <2>2 DEF Next, Submit, Begin, Execute, EndWithoutEffect, Answer, RollBack,
                        LoseAnswer, Retry, vars, tables
    <3> QED BY <3>1
  <2> QED BY <2>1, <2>2
<1>2. ASSUME LedgerInv, [Next]_vars PROVE LedgerInv'
  BY <1>2, LedgerStep
<1> QED BY <1>1, <1>2, LedgerInit, PTL DEF Spec, GraphWaterlineStable

\* Without SERIALIZABLE commands the service is an idempotent ledger: a key is
\* recorded once, with the version the graph had or the next one.
THEOREM LedgerRefinement ==
  ASSUME SnapshotCommands = {} PROVE Spec => ImplementsLedger
<1>1. Init => Ledger!Init
  BY DEF Init, Ledger!Init, CurrentGraphVersion
<1>2. ASSUME LedgerInv, [Next]_vars PROVE [Ledger!Next]_(Ledger!vars)
  <2>1. ASSUME NEW c \in Clients, Commit(c) PROVE Ledger!Next
    <3> PICK t \in task[c] : Commits(c, t)
      BY <2>1 DEF Commit, Commits, EventOf
    <3>1. /\ CurrentGraphVersion' \in {CurrentGraphVersion, CurrentGraphVersion + 1}
          /\ receipts' = receipts \cup
               {[key |-> t.key, command |-> t.command, graph |-> CurrentGraphVersion']}
      BY <1>2, <2>1, CommitLatest DEF NextOf, Commits
    <3>2. t.key \in Keys /\ t.command \in Commands /\ Ledger!Fresh(t.key) /\ answers' = answers
      BY <1>2, <2>1 DEF LedgerInv, CommandInv, TypeOK, Tasks, Commits, Conflicts, Ledger!Fresh, Commit
    <3>3. Ledger!Record(t.key, t.command, CurrentGraphVersion')
      BY <3>1, <3>2 DEF Ledger!Record
    <3> QED BY <3>1, <3>2, <3>3 DEF Ledger!Next
  <2>2. ASSUME NEW c \in Clients, Answer(c) PROVE [Ledger!Next]_(Ledger!vars)
    <3>1. UNCHANGED <<CurrentGraphVersion, receipts>>
      BY <2>2 DEF Answer, tables, CurrentGraphVersion
    <3>2. CASE answers' = answers
      BY <3>1, <3>2 DEF Ledger!vars
    <3>3. CASE answers' # answers
      <4> PICK t \in task[c] : answers' = answers \cup
            {[key |-> t.key, command |-> t.command, graph |-> plan[c].graph]}
        BY <2>2, <3>3 DEF Answer
      <4>1. pc[c] = "ended" /\ plan[c].outcome \in {"done", "replayed"}
        BY <2>2, <3>3 DEF Answer
      <4>2. [key |-> t.key, command |-> t.command, graph |-> plan[c].graph] \in receipts
        BY <1>2, <4>1 DEF LedgerInv, CommandInv, PlanInv, OutcomeIsRecorded
      <4> QED BY <3>1, <4>2 DEF Ledger!Next, Ledger!Tell
    <3> QED BY <3>2, <3>3
  <2>3. CASE \A c \in Clients : ~Commit(c) /\ ~Answer(c)
    <3>1. UNCHANGED <<events, receipts, answers>>
      BY <1>2, <2>3 DEF Next, Submit, Begin, Execute, EndWithoutEffect, RollBack,
                        LoseAnswer, Retry, vars, tables
    <3> QED BY <3>1 DEF Ledger!vars, CurrentGraphVersion
  <2> QED BY <2>1, <2>2, <2>3
<1>3. ASSUME LedgerInv, [Next]_vars PROVE LedgerInv'
  BY <1>3, LedgerStep
<1> QED BY <1>1, <1>2, <1>3, LedgerInit, PTL DEF Spec, ImplementsLedger, Ledger!Spec

-----------------------------------------------------------------------------
(* The links of the parser                                                 *)

\* A plan that writes only links clients authored.
AuthorsLinks(p) == \A d \in p.changes : d.subject \in Links /\ d.subject.ref = "mcp"

\* With the changes of p written over the rows as they are, the state of s is v.
After(s, p, v) ==
  \/ \E d \in p.changes : d.subject = s /\ d.state = v
  \/ (~\E d \in p.changes : d.subject = s) /\ row[s].state = v

\* With p written, the parsed links of an asset are those of its content.
FollowsContent(p) ==
  \A l \in Links, v \in Values : l.ref # "mcp" /\ After(l, p, v) => After(l.from, p, l.ref)

\* The open plans are like that although the rows have changed since they were
\* made: what would disturb the plan of an asset makes it fail.
PlansFollowContent ==
  \A c \in Clients : OpenPlan(c) =>
    /\ pc[c] \in {"waiting", "reading", "writing"}
    /\ FollowsContent(plan[c])
    /\ \E t \in task[c] : t.command.kind = "upsertAsset" \/ AuthorsLinks(plan[c])

LinkInv == CommandInv /\ ParserLinksFollowContent /\ PlansFollowContent

\* Links and their values are never taken for assets and their contents.
LEMMA LinksApart ==
  ASSUME NEW l \in Links
  PROVE  /\ l \in Subjects /\ l \notin Nodes /\ l.from \in Nodes /\ l.from \in Subjects
         /\ l.ref # "mcp" => l.ref \in Contents
         /\ l.ref \in Contents => l.ref \notin Values \cup {"NONE", "STUB", "DELETED", "INVALIDATED"}
BY CommandsAssumption DEF Links, Subjects

\* A plan that writes only authored links leaves the parsed ones as they are.
LEMMA AuthoredFollows ==
  ASSUME ParserLinksFollowContent, NEW p, AuthorsLinks(p)
  PROVE  FollowsContent(p)
<1> SUFFICES ASSUME NEW l \in Links, NEW v \in Values, l.ref # "mcp", After(l, p, v)
             PROVE  After(l.from, p, l.ref)
  BY DEF FollowsContent
<1>1. row[l].state = v
  BY DEF After, AuthorsLinks
<1>2. row[l.from].state = l.ref
  BY <1>1 DEF ParserLinksFollowContent, Active
<1>3. ~\E d \in p.changes : d.subject = l.from
  BY LinksApart DEF AuthorsLinks
<1> QED BY <1>2, <1>3 DEF After

\* What a command on an asset plans makes its links those of its content.
LEMMA AssetFollows ==
  ASSUME TypeOK, ParserLinksFollowContent, NEW m \in Commands, m.kind = "upsertAsset",
         NEW p, p.changes = ChangesOf(m)
  PROVE  FollowsContent(p)
<1> DEFINE a == m.asset
           D == IF m.content \in Retired THEN {} ELSE Declared(a, m.content)
           W == Withdrawn(a, m.content)
<1>1. a \in Nodes /\ m.content \in Contents
  BY CommandsAssumption DEF CommandTypes
<1>2. ChangesOf(m) = Effective(a, m.content)
                     \cup (IF m.content \in Retired THEN {}
                           ELSE UNION {Effective(l, Parsed) : l \in Declared(a, m.content)})
                     \cup {Change(l, "INVALIDATED") : l \in W}
  BY DEF ChangesOf
<1>3. \A d \in p.changes :
        \/ d.subject = a /\ d.state = m.content
        \/ d.subject \in D
        \/ d.subject \in W /\ d.state = "INVALIDATED"
  BY <1>2 DEF Effective, Change
<1>4. \A l \in W : Change(l, "INVALIDATED") \in p.changes
  BY <1>2
<1>5. D \subseteq Links /\ W \subseteq Links
  <2>1. Refs[m.content] \subseteq Nodes
    BY <1>1, CommandsAssumption
  <2> QED BY <1>1, <2>1 DEF Declared, Withdrawn, Links
<1>6. After(a, p, m.content)
  <2>1. CASE row[a].state = m.content
    <3>1. \A d \in p.changes : d.subject = a => d.state = m.content
      BY <1>1, <1>3, <1>5, LinksApart
    <3> HIDE DEF a
    <3> QED BY <2>1, <3>1 DEF After
  <2>2. CASE row[a].state # m.content
    <3>1. Change(a, m.content) \in p.changes
      BY <1>2, <2>2 DEF Effective
    <3> QED BY <3>1 DEF After, Change
  <2> QED BY <2>1, <2>2
<1>7. \A l \in D : l.from = a /\ l.ref = m.content
  BY DEF Declared
<1> SUFFICES ASSUME NEW l \in Links, NEW v \in Values, l.ref # "mcp", After(l, p, v)
             PROVE  After(l.from, p, l.ref)
  BY DEF FollowsContent
<1>8. l \notin W
  <2> SUFFICES ASSUME l \in W PROVE FALSE
    OBVIOUS
  <2>1. Change(l, "INVALIDATED") \in p.changes
    BY <1>4
  <2>2. \A d \in p.changes : d.subject = l => d.state = "INVALIDATED"
    <3>1. \A d, f \in p.changes : d.subject = f.subject => d = f
      BY ChangesOfCommand
    <3> HIDE DEF W
    <3> QED BY <2>1, <3>1 DEF Change
  <2>3. v # "INVALIDATED"
    BY CommandsAssumption
  <2> QED BY <2>1, <2>2, <2>3 DEF After, Change
<1>9. CASE l \in D
  BY <1>6, <1>7, <1>9
<1>10. CASE l \notin D
  <2>1. l \notin Nodes /\ l # a
    BY <1>1, LinksApart
  <2>2. row[l].state = v
    BY <1>3, <1>8, <1>10, <2>1 DEF After
  <2>3. row[l.from].state = l.ref
    BY <2>2 DEF ParserLinksFollowContent, Active
  <2>4. CASE l.from # a
    <3>1. ~\E d \in p.changes : d.subject = l.from
      BY <1>3, <1>5, <2>4, LinksApart
    <3> QED BY <2>3, <3>1 DEF After
  <2>5. CASE l.from = a
    <3>1. Active(l)
      BY <2>2 DEF Active
    <3>2. m.content \notin Retired /\ l \in Declared(a, m.content)
      BY <1>8, <2>5, <3>1 DEF Withdrawn
    <3> QED BY <1>10, <3>2
  <2> QED BY <2>4, <2>5
<1> QED BY <1>9, <1>10

\* So does whatever a task plans on the rows as they are.
LEMMA TaskFollows ==
  ASSUME TypeOK, ParserLinksFollowContent, NEW t \in Tasks, PlanOf(t).outcome = "done"
  PROVE  /\ FollowsContent(PlanOf(t))
         /\ t.command.kind = "upsertAsset" \/ AuthorsLinks(PlanOf(t))
<1> DEFINE m == t.command
           p == PlanOf(t)
<1>1. m \in Commands /\ m \in CommandTypes
  BY CommandsAssumption DEF Tasks
<1>2. p.changes = ChangesOf(m)
  <2>1. Failed.outcome # "done" /\ NoPlan.outcome # "done"
    BY EmptyPlans
  <2> QED BY <2>1 DEF PlanOf, NoPlan
<1>3. m.kind \in {"upsertLink", "deleteLink", "upsertAsset"}
  BY <1>1 DEF CommandTypes
<1>4. CASE m.kind = "upsertAsset"
  BY <1>1, <1>2, <1>4, AssetFollows
<1>5. CASE m.kind \in {"upsertLink", "deleteLink"}
  <2> DEFINE l == [from |-> m.from, to |-> m.to, ref |-> "mcp"]
  <2>1. l \in Links /\ l.ref = "mcp"
    BY <1>1, <1>5 DEF CommandTypes, Links
  <2>2. \A d \in ChangesOf(m) : d.subject = l
    BY <1>5 DEF ChangesOf, Effective, Deletion, Change
  <2>3. AuthorsLinks(p)
    BY <1>2, <2>1, <2>2 DEF AuthorsLinks
  <2> QED BY <2>3, AuthoredFollows
<1> QED BY <1>3, <1>4, <1>5

\* A commit writes what its plan says.
LEMMA CommitWrites ==
  ASSUME CommandInv, NEW c \in Clients, Commit(c), NEW t \in task[c], Commits(c, t),
         NEW s \in Subjects
  PROVE  /\ \/ After(s, plan[c], row'[s].state)
            \/ s \in Nodes /\ row[s].state = "NONE" /\ row'[s].state = "STUB"
         /\ (~\E d \in plan[c].changes : d.subject = s) =>
              \/ row'[s] = row[s]
              \/ s \in Nodes /\ row[s].state = "NONE" /\ row'[s].state = "STUB"
<1>1. CASE \E d \in plan[c].changes : d.subject = s
  <2> PICK d \in plan[c].changes : d.subject = s
    BY <1>1
  <2>1. row'[s] = [version |-> d.prior + 1, state |-> d.state]
    BY CommitEffect
  <2>2. row'[s].state = d.state
    BY <2>1
  <2> QED BY <1>1, <2>2 DEF After
<1>2. CASE ~\E d \in plan[c].changes : d.subject = s
  <2>1. \/ row'[s] = row[s]
        \/ s \in Nodes /\ row[s].state = "NONE" /\ row'[s] = [version |-> 1, state |-> "STUB"]
    BY <1>2, CommitEffect
  <2> QED BY <1>2, <2>1 DEF After
<1> QED BY <1>1, <1>2

\* A commit leaves the parsed links of every asset those of its content.
LEMMA CommitFollows ==
  ASSUME LinkInv, NEW c \in Clients, Commit(c), NEW t \in task[c], Commits(c, t)
  PROVE  ParserLinksFollowContent'
<1> DEFINE p == plan[c]
<1>0. CommandInv /\ FollowsContent(p)
  BY DEF LinkInv, PlansFollowContent, OpenPlan, Commit
<1> SUFFICES ASSUME NEW l \in Links, row'[l].state \in Values, l.ref # "mcp"
             PROVE  row'[l.from].state = l.ref
  BY DEF ParserLinksFollowContent, Active
<1> DEFINE v == row'[l].state
<1>1. /\ l \in Subjects /\ l \notin Nodes /\ l.from \in Subjects /\ l.ref \in Contents
      /\ l.ref \notin {"NONE", "STUB"}
  BY LinksApart
<1>2. After(l, p, v)
  BY <1>0, <1>1, CommitWrites
<1>3. After(l.from, p, l.ref)
  BY <1>0, <1>2 DEF FollowsContent
<1>4. CASE \E d \in p.changes : d.subject = l.from
  <2> PICK d \in p.changes : d.subject = l.from /\ d.state = l.ref
    BY <1>3, <1>4 DEF After
  <2>1. row'[l.from] = [version |-> d.prior + 1, state |-> d.state]
    BY <1>0, CommitEffect
  <2> QED BY <2>1
<1>5. CASE ~\E d \in p.changes : d.subject = l.from
  <2>1. row[l.from].state = l.ref
    BY <1>3, <1>5 DEF After
  <2>2. row'[l.from] = row[l.from]
    BY <1>0, <1>1, <1>5, <2>1, CommitWrites
  <2> QED BY <2>1, <2>2
<1> QED BY <1>4, <1>5

\* A commit leaves alone the open plans it does not make fail.
LEMMA CommitSparesPlans ==
  ASSUME LinkInv, NEW c \in Clients, Commit(c), NEW t \in task[c], Commits(c, t)
  PROVE  PlansFollowContent'
<1>0. CommandInv /\ CommandInv' /\ ParserLinksFollowContent'
  BY CommitStep, CommitFollows DEF LinkInv
<1> SUFFICES ASSUME NEW d \in Clients, OpenPlan(d)'
             PROVE  /\ pc'[d] \in {"waiting", "reading", "writing"}
                    /\ FollowsContent(plan[d])'
                    /\ \E u \in task'[d] : u.command.kind = "upsertAsset" \/ AuthorsLinks(plan'[d])
  <2> QED BY DEF PlansFollowContent, AuthorsLinks
<1> PICK p, q : p = plan[c] /\ q = plan[d]
  OBVIOUS
<1>1. d # c
  BY <1>0 DEF Commit, OpenPlan, TypeOK, CommandInv
<1>2. ~Doomed(d, t, p) /\ plan'[d] = q /\ pc'[d] = pc[d] /\ task'[d] = task[d] /\ OpenPlan(d)
  <2>1. Failed.outcome = "failed"
    BY EmptyPlans
  <2>2. pc'[d] = pc[d] /\ task'[d] = task[d]
    BY <1>0, <1>1 DEF Commit, CommandInv, TypeOK
  <2>3. plan'[d] = IF Doomed(d, t, p) THEN Failed ELSE q
    BY <1>1 DEF Commits
  <2> QED BY <2>1, <2>2, <2>3 DEF OpenPlan
<1>3. /\ FollowsContent(q) /\ pc[d] \in {"waiting", "reading", "writing"}
      /\ t.command.kind = "upsertAsset" \/ AuthorsLinks(p)
  <2>1. OpenPlan(c) /\ task[c] = {t}
    BY <1>0, CommitEffect DEF Commit, OpenPlan
  <2> QED BY <1>2, <2>1 DEF LinkInv, PlansFollowContent
<1> PICK u \in task[d] : u.command.kind = "upsertAsset" \/ AuthorsLinks(q)
  BY <1>2 DEF LinkInv, PlansFollowContent
<1>4. CASE AuthorsLinks(q)
  <2> SUFFICES ASSUME NEW l \in Links, NEW v \in Values, l.ref # "mcp", After(l, q, v)'
               PROVE  After(l.from, q, l.ref)'
    BY <1>2, <1>3 DEF FollowsContent, After
  <2>1. row'[l].state = v
    BY <1>4 DEF After, AuthorsLinks
  <2>2. row'[l.from].state = l.ref
    BY <1>0, <2>1 DEF ParserLinksFollowContent, Active
  <2>3. ~\E f \in q.changes : f.subject = l.from
    BY <1>4, LinksApart DEF AuthorsLinks
  <2> QED BY <2>2, <2>3 DEF After
<1>5. CASE AuthorsLinks(p)
  <2> SUFFICES ASSUME NEW l \in Links, NEW v \in Values, l.ref # "mcp", After(l, q, v)'
               PROVE  After(l.from, q, l.ref)'
    BY <1>2, <1>3 DEF FollowsContent, After
  <2>1. /\ l \in Subjects /\ l \notin Nodes /\ l.from \in Subjects /\ l.from \in Nodes /\ l.ref \in Contents
        /\ l.ref \notin {"NONE", "STUB"}
    BY LinksApart
  <2>2. row'[l] = row[l]
    <3>1. ~\E f \in p.changes : f.subject = l
      BY <1>5 DEF AuthorsLinks
    <3> QED BY <1>0, <2>1, <3>1, CommitWrites
  <2>3. row'[l.from] = row[l.from] \/ row[l.from].state = "NONE"
    <3>1. ~\E f \in p.changes : f.subject = l.from
      BY <1>5, <2>1, LinksApart DEF AuthorsLinks
    <3> QED BY <1>0, <2>1, <3>1, CommitWrites
  <2>4. After(l, q, v)
    BY <2>2 DEF After
  <2>5. After(l.from, q, l.ref)
    BY <1>3, <2>4 DEF FollowsContent
  <2> QED BY <2>1, <2>3, <2>5 DEF After
<1>6. CASE ~AuthorsLinks(p) /\ ~AuthorsLinks(q)
  <2>1. p.changes # {} /\ q.changes # {}
    BY <1>6 DEF AuthorsLinks
  <2>2. pc[c] = "writing" /\ pc[d] # "writing"
    BY <1>0, <1>1 DEF Commit, CommandInv, Mutex
  <2>3. u.command.kind = "upsertAsset" /\ t.command.kind = "upsertAsset"
    BY <1>3, <1>6
  <2>4. u.command \in SnapshotCommands
    <3>1. pc[d] \in {"waiting", "reading"} /\ plan[d] # NoPlan
      BY <1>2, <1>3, <2>2, EmptyPlans DEF OpenPlan
    <3> QED BY <1>0, <3>1 DEF CommandInv, PlanInv, PlanIsMadeLate
  <2> QED BY <1>2, <2>1, <2>3, <2>4 DEF Doomed, OpenPlan
<1> QED BY <1>4, <1>5, <1>6

\* Every step keeps the links of the parser those of the contents.
LEMMA LinkStep == LinkInv /\ [Next]_vars => LinkInv'
<1> SUFFICES ASSUME LinkInv, [Next]_vars PROVE LinkInv'
  OBVIOUS
<1>0. CommandInv /\ CommandInv' /\ TypeOK /\ HasLatest
  BY CommandStep DEF LinkInv, CommandInv, LogInv
<1>1. ASSUME NEW c \in Clients, Commit(c) PROVE LinkInv'
  <2> PICK t \in task[c] : Commits(c, t)
    BY <1>1 DEF Commit, Commits, EventOf
  <2> QED BY <1>0, <1>1, CommitFollows, CommitSparesPlans DEF LinkInv
<1>2. ASSUME UNCHANGED tables, NEW c \in Clients,
             \A b \in Clients \ {c} : pc'[b] = pc[b] /\ task'[b] = task[b] /\ plan'[b] = plan[b],
             OpenPlan(c)' =>
               /\ pc'[c] \in {"waiting", "reading", "writing"}
               /\ FollowsContent(plan'[c])
               /\ \E t \in task'[c] : t.command.kind = "upsertAsset" \/ AuthorsLinks(plan'[c])
      PROVE  LinkInv'
  <2>1. row' = row
    BY <1>2 DEF tables
  <2>2. ParserLinksFollowContent'
    BY <2>1 DEF LinkInv, ParserLinksFollowContent, Active
  <2>3. \A b \in Clients : (FollowsContent(plan[b]))' <=> FollowsContent(plan'[b])
    BY <2>1 DEF FollowsContent, After
  <2>4. PlansFollowContent'
    <3> SUFFICES ASSUME NEW b \in Clients, OpenPlan(b)'
                 PROVE  /\ pc'[b] \in {"waiting", "reading", "writing"}
                        /\ FollowsContent(plan'[b])
                        /\ \E t \in task'[b] : t.command.kind = "upsertAsset" \/ AuthorsLinks(plan'[b])
      BY <2>3 DEF PlansFollowContent, AuthorsLinks
    <3>1. CASE b = c
      BY <1>2, <3>1
    <3>2. CASE b # c
      <4>1. pc'[b] = pc[b] /\ task'[b] = task[b] /\ plan'[b] = plan[b] /\ OpenPlan(b)
        BY <1>2, <3>2 DEF OpenPlan
      <4> QED BY <4>1 DEF LinkInv, PlansFollowContent
    <3> QED BY <3>1, <3>2
  <2> QED BY <1>0, <2>2, <2>4 DEF LinkInv
<1>3. ASSUME NEW c \in Clients, NEW t \in Tasks, Opened(t).outcome = "done"
      PROVE  FollowsContent(Opened(t)) /\ (t.command.kind = "upsertAsset" \/ AuthorsLinks(Opened(t)))
  <2>1. NoPlan.outcome # "done"
    BY EmptyPlans
  <2> QED BY <1>0, <1>3, <2>1, TaskFollows DEF Opened, LinkInv
<1>4. ASSUME NEW c \in Clients, NEW k \in Keys, NEW m \in Commands, Submit(c, k, m) PROVE LinkInv'
  <2> DEFINE t == [key |-> k, command |-> m]
  <2>1. t \in Tasks
    BY DEF Tasks
  <2>2. /\ \A b \in Clients \ {c} : pc'[b] = pc[b] /\ task'[b] = task[b] /\ plan'[b] = plan[b]
        /\ pc'[c] = "waiting" /\ task'[c] = {t} /\ plan'[c] = Opened(t)
        /\ UNCHANGED tables
    BY <1>0, <1>4 DEF Submit, TypeOK
  <2> HIDE DEF t
  <2> QED BY <1>2, <1>3, <2>1, <2>2 DEF OpenPlan
<1>5. ASSUME NEW c \in Clients, Begin(c) PROVE LinkInv'
  <2>1. /\ \A b \in Clients \ {c} : pc'[b] = pc[b] /\ task'[b] = task[b] /\ plan'[b] = plan[b]
        /\ pc[c] = "waiting" /\ pc'[c] = "reading" /\ task'[c] = task[c] /\ plan'[c] = plan[c]
        /\ UNCHANGED tables
    BY <1>0, <1>5 DEF Begin, TypeOK
  <2> QED BY <1>2, <2>1 DEF OpenPlan, LinkInv, PlansFollowContent
<1>6. ASSUME NEW c \in Clients, Execute(c) PROVE LinkInv'
  <2> PICK t \in task[c] : plan' = IF t.command \in SnapshotCommands THEN plan
                                   ELSE [plan EXCEPT ![c] = PlanOf(t)]
    BY <1>6 DEF Execute
  <2>1. /\ \A b \in Clients \ {c} : pc'[b] = pc[b] /\ task'[b] = task[b] /\ plan'[b] = plan[b]
        /\ pc[c] = "reading" /\ pc'[c] = "writing" /\ task'[c] = task[c]
        /\ UNCHANGED tables
    BY <1>0, <1>6 DEF Execute, TypeOK
  <2>2. t \in Tasks /\ plan'[c] \in {plan[c], PlanOf(t)}
    BY <1>0 DEF TypeOK
  <2>3. CASE plan'[c] = plan[c]
    BY <1>2, <2>1, <2>3 DEF OpenPlan, LinkInv, PlansFollowContent
  <2>4. CASE plan'[c] = PlanOf(t)
    <3>1. PlanOf(t).outcome = "done" =>
            FollowsContent(PlanOf(t)) /\ (t.command.kind = "upsertAsset" \/ AuthorsLinks(PlanOf(t)))
      BY <1>0, <2>2, TaskFollows DEF LinkInv
    <3> QED BY <1>2, <2>1, <2>4, <3>1 DEF OpenPlan
  <2> QED BY <2>2, <2>3, <2>4
<1>7. ASSUME NEW c \in Clients,
             EndWithoutEffect(c) \/ Answer(c) \/ RollBack(c) \/ LoseAnswer(c)
      PROVE  LinkInv'
  <2>1. /\ \A b \in Clients \ {c} : pc'[b] = pc[b] /\ task'[b] = task[b] /\ plan'[b] = plan[b]
        /\ UNCHANGED tables
    BY <1>0, <1>7 DEF EndWithoutEffect, Answer, RollBack, LoseAnswer, TypeOK
  <2>2. pc'[c] = "ended" \/ plan'[c] = NoPlan
    BY <1>0, <1>7 DEF EndWithoutEffect, Answer, RollBack, LoseAnswer, TypeOK
  <2>3. NoPlan.outcome = "none"
    BY EmptyPlans
  <2> QED BY <1>2, <2>1, <2>2, <2>3 DEF OpenPlan
<1>8. ASSUME NEW c \in Clients, Retry(c) PROVE LinkInv'
  <2> PICK t \in task[c] : plan' = [plan EXCEPT ![c] = Opened(t)]
    BY <1>8 DEF Retry
  <2>1. /\ \A b \in Clients \ {c} : pc'[b] = pc[b] /\ task'[b] = task[b] /\ plan'[b] = plan[b]
        /\ t \in Tasks /\ pc'[c] = "waiting" /\ task'[c] = task[c] /\ plan'[c] = Opened(t)
        /\ UNCHANGED tables
    BY <1>0, <1>8 DEF Retry, TypeOK
  <2> QED BY <1>2, <1>3, <2>1 DEF OpenPlan
<1>9. CASE UNCHANGED vars
  <2>1. /\ ParserLinksFollowContent'
        /\ \A b \in Clients : (FollowsContent(plan[b]))' <=> FollowsContent(plan[b])
    BY <1>9 DEF vars, tables, LinkInv, ParserLinksFollowContent, Active, FollowsContent, After
  <2>2. PlansFollowContent'
    BY <1>9, <2>1 DEF vars, tables, LinkInv, PlansFollowContent, OpenPlan, AuthorsLinks
  <2> QED BY <1>0, <2>1, <2>2 DEF LinkInv
<1> QED BY <1>1, <1>4, <1>5, <1>6, <1>7, <1>8, <1>9 DEF Next

\* However change sets, promotions and the relationship tools interleave, the
\* active links an asset declares are those of the content it has.
THEOREM ParserLinksFollow == Spec => []ParserLinksFollowContent
<1>1. Init => LinkInv
  <2> SUFFICES ASSUME Init PROVE LinkInv
    OBVIOUS
  <2>1. ParserLinksFollowContent
    BY CommandsAssumption DEF Init, Absent, ParserLinksFollowContent, Active, Links, Subjects
  <2>2. PlansFollowContent
    BY EmptyPlans DEF Init, PlansFollowContent, OpenPlan
  <2> QED BY <2>1, <2>2, CommandInit DEF LinkInv
<1>2. LinkInv => ParserLinksFollowContent
  BY DEF LinkInv
<1> QED BY <1>1, <1>2, LinkStep, PTL DEF Spec

-----------------------------------------------------------------------------
(* Scopes where no SERIALIZABLE command retires an asset                   *)

RetiresAtSnapshot ==
  \E m \in SnapshotCommands : m.kind = "upsertAsset" /\ m.content \in Retired

\* A plan gives a content to the asset of its command and to no other.
PlansNameContents ==
  \A c \in Clients : OpenPlan(c) =>
    \A t \in task[c], d \in plan[c].changes : d.state \in Contents =>
      t.command.kind = "upsertAsset" /\ d.subject = t.command.asset /\ d.state = t.command.content

\* A client that planned under the lock is about to write what the rows call for.
LockedPlanIsOfRows ==
  \A c \in Clients : pc[c] = "writing" /\ plan[c].outcome = "done" =>
    \A t \in task[c] : t.command \notin SnapshotCommands => plan[c].changes = ChangesOf(t.command)

RetireInv == CommandInv /\ PlansNameContents /\ LockedPlanIsOfRows

\* The changes of a command that succeeds.
LEMMA DonePlan ==
  ASSUME NEW t, PlanOf(t).outcome = "done"
  PROVE  PlanOf(t).changes = ChangesOf(t.command)
<1>1. Failed.outcome # "done" /\ NoPlan.outcome # "done"
  BY EmptyPlans
<1> QED BY <1>1 DEF PlanOf, NoPlan

\* A command changes the content of its own asset only.
LEMMA ChangesNameContents ==
  ASSUME NEW m \in Commands, NEW d \in ChangesOf(m), d.state \in Contents
  PROVE  m.kind = "upsertAsset" /\ d.subject = m.asset /\ d.state = m.content
<1>1. m \in CommandTypes
  BY CommandsAssumption
<1>2. CASE m.kind = "upsertLink"
  <2>1. d.state = m.value /\ m.value \in Values
    BY <1>1, <1>2 DEF ChangesOf, Effective, Change, CommandTypes
  <2> QED BY <2>1, CommandsAssumption
<1>3. CASE m.kind = "deleteLink"
  <2>1. d.state = "DELETED"
    BY <1>3 DEF ChangesOf, Deletion, Change
  <2> QED BY <2>1, CommandsAssumption
<1>4. CASE m.kind = "upsertAsset"
  <2>1. \/ d \in Effective(m.asset, m.content)
        \/ \E l \in Declared(m.asset, m.content) : d \in Effective(l, Parsed)
        \/ \E l \in Withdrawn(m.asset, m.content) : d = Change(l, "INVALIDATED")
    BY <1>4 DEF ChangesOf
  <2>2. d.state \notin {Parsed, "INVALIDATED"}
    BY CommandsAssumption
  <2> QED BY <1>4, <2>1, <2>2 DEF Effective, Change
<1> QED BY <1>1, <1>2, <1>3, <1>4 DEF CommandTypes

\* Every step keeps the plans made under the lock about the rows as they are.
LEMMA RetireStep == RetireInv /\ [Next]_vars => RetireInv'
<1> SUFFICES ASSUME RetireInv, [Next]_vars PROVE RetireInv'
  OBVIOUS
<1>0. CommandInv /\ CommandInv' /\ TypeOK
  BY CommandStep DEF RetireInv, CommandInv
<1>1. ASSUME NEW c \in Clients, Commit(c) PROVE RetireInv'
  <2> PICK t \in task[c] : Commits(c, t)
    BY <1>1 DEF Commit, Commits, EventOf
  <2>1. \A b \in Clients : pc'[b] # "writing"
    BY <1>0, <1>1 DEF Commit, CommandInv, TypeOK, Mutex
  <2>2. LockedPlanIsOfRows'
    BY <2>1 DEF LockedPlanIsOfRows
  <2>3. ASSUME NEW b \in Clients, OpenPlan(b)'
        PROVE  OpenPlan(b) /\ plan'[b] = plan[b] /\ task'[b] = task[b]
    <3>1. Failed.outcome = "failed"
      BY EmptyPlans
    <3>2. b # c /\ pc'[b] = pc[b] /\ task'[b] = task[b]
      BY <1>0, <1>1, <2>3 DEF Commit, OpenPlan, CommandInv, TypeOK
    <3>3. plan'[b] \in {Failed, plan[b]}
      BY DEF Commits
    <3> QED BY <2>3, <3>1, <3>2, <3>3 DEF OpenPlan
  <2>4. PlansNameContents'
    BY <2>3 DEF RetireInv, PlansNameContents
  <2> QED BY <1>0, <2>2, <2>4 DEF RetireInv
<1>2. ASSUME UNCHANGED tables, NEW c \in Clients,
             \A b \in Clients \ {c} : pc'[b] = pc[b] /\ task'[b] = task[b] /\ plan'[b] = plan[b],
             OpenPlan(c)' => \A t \in task'[c], d \in plan'[c].changes : d.state \in Contents =>
               t.command.kind = "upsertAsset" /\ d.subject = t.command.asset /\ d.state = t.command.content,
             pc'[c] = "writing" /\ plan'[c].outcome = "done" =>
               \A t \in task'[c] : t.command \notin SnapshotCommands => plan'[c].changes = ChangesOf(t.command)
      PROVE  RetireInv'
  <2>1. \A m : ChangesOf(m)' = ChangesOf(m)
    BY <1>2 DEF tables, ChangesOf, Effective, Deletion, Change, Withdrawn, Active, Declared
  <2>2. PlansNameContents'
    <3> SUFFICES ASSUME NEW b \in Clients, OpenPlan(b)', NEW t \in task'[b], NEW d \in plan'[b].changes,
                        d.state \in Contents
                 PROVE  t.command.kind = "upsertAsset" /\ d.subject = t.command.asset
                        /\ d.state = t.command.content
      BY DEF PlansNameContents
    <3>1. CASE b = c
      BY <1>2, <3>1
    <3>2. CASE b # c
      BY <1>2, <3>2 DEF RetireInv, PlansNameContents, OpenPlan
    <3> QED BY <3>1, <3>2
  <2>3. LockedPlanIsOfRows'
    <3> SUFFICES ASSUME NEW b \in Clients, pc'[b] = "writing", plan'[b].outcome = "done",
                        NEW t \in task'[b], t.command \notin SnapshotCommands
                 PROVE  plan'[b].changes = ChangesOf(t.command)
      BY <2>1 DEF LockedPlanIsOfRows
    <3>1. CASE b = c
      BY <1>2, <3>1
    <3>2. CASE b # c
      BY <1>2, <3>2 DEF RetireInv, LockedPlanIsOfRows
    <3> QED BY <3>1, <3>2
  <2> QED BY <1>0, <2>2, <2>3 DEF RetireInv
<1>3. ASSUME NEW t \in Tasks, PlanOf(t).outcome = "done", NEW d \in PlanOf(t).changes, d.state \in Contents
      PROVE  t.command.kind = "upsertAsset" /\ d.subject = t.command.asset /\ d.state = t.command.content
  BY <1>3, DonePlan, ChangesNameContents DEF Tasks
<1>4. ASSUME NEW t \in Tasks, Opened(t).outcome = "done", NEW d \in Opened(t).changes, d.state \in Contents
      PROVE  t.command.kind = "upsertAsset" /\ d.subject = t.command.asset /\ d.state = t.command.content
  <2>1. NoPlan.outcome # "done"
    BY EmptyPlans
  <2> QED BY <1>3, <1>4, <2>1 DEF Opened
<1>5. ASSUME NEW c \in Clients, NEW k \in Keys, NEW m \in Commands, Submit(c, k, m) PROVE RetireInv'
  <2> DEFINE t == [key |-> k, command |-> m]
  <2>1. t \in Tasks
    BY DEF Tasks
  <2>2. /\ \A b \in Clients \ {c} : pc'[b] = pc[b] /\ task'[b] = task[b] /\ plan'[b] = plan[b]
        /\ pc'[c] = "waiting" /\ task'[c] = {t} /\ plan'[c] = Opened(t)
        /\ UNCHANGED tables
    BY <1>0, <1>5 DEF Submit, TypeOK
  <2> HIDE DEF t
  <2> QED BY <1>2, <1>4, <2>1, <2>2 DEF OpenPlan
<1>6. ASSUME NEW c \in Clients, Begin(c) PROVE RetireInv'
  <2>1. /\ \A b \in Clients \ {c} : pc'[b] = pc[b] /\ task'[b] = task[b] /\ plan'[b] = plan[b]
        /\ pc[c] = "waiting" /\ pc'[c] = "reading" /\ task'[c] = task[c] /\ plan'[c] = plan[c]
        /\ UNCHANGED tables
    BY <1>0, <1>6 DEF Begin, TypeOK
  <2> QED BY <1>2, <2>1 DEF OpenPlan, RetireInv, PlansNameContents
<1>7. ASSUME NEW c \in Clients, Execute(c) PROVE RetireInv'
  <2> PICK t \in task[c] : plan' = IF t.command \in SnapshotCommands THEN plan
                                   ELSE [plan EXCEPT ![c] = PlanOf(t)]
    BY <1>7 DEF Execute
  <2>1. /\ \A b \in Clients \ {c} : pc'[b] = pc[b] /\ task'[b] = task[b] /\ plan'[b] = plan[b]
        /\ pc[c] = "reading" /\ pc'[c] = "writing" /\ task'[c] = task[c]
        /\ UNCHANGED tables
    BY <1>0, <1>7 DEF Execute, TypeOK
  <2>2. t \in Tasks /\ task[c] = {t}
    BY <1>0 DEF TypeOK, CommandInv, PlanInv, TaskIsSingle
  <2>3. CASE t.command \in SnapshotCommands
    <3>1. plan'[c] = plan[c]
      BY <2>3
    <3> QED BY <1>2, <2>1, <2>2, <2>3, <3>1 DEF OpenPlan, RetireInv, PlansNameContents
  <2>4. CASE t.command \notin SnapshotCommands
    <3>1. plan'[c] = PlanOf(t)
      BY <1>0, <2>4 DEF TypeOK
    <3>2. PlanOf(t).outcome = "done" => PlanOf(t).changes = ChangesOf(t.command)
      BY DonePlan
    <3> QED BY <1>2, <1>3, <2>1, <2>2, <3>1, <3>2 DEF OpenPlan
  <2> QED BY <2>3, <2>4
<1>8. ASSUME NEW c \in Clients,
             EndWithoutEffect(c) \/ Answer(c) \/ RollBack(c) \/ LoseAnswer(c)
      PROVE  RetireInv'
  <2>1. /\ \A b \in Clients \ {c} : pc'[b] = pc[b] /\ task'[b] = task[b] /\ plan'[b] = plan[b]
        /\ UNCHANGED tables /\ pc'[c] # "writing"
    BY <1>0, <1>8 DEF EndWithoutEffect, Answer, RollBack, LoseAnswer, TypeOK
  <2>2. pc'[c] = "ended" \/ plan'[c] = NoPlan
    BY <1>0, <1>8 DEF EndWithoutEffect, Answer, RollBack, LoseAnswer, TypeOK
  <2>3. NoPlan.outcome = "none"
    BY EmptyPlans
  <2> QED BY <1>2, <2>1, <2>2, <2>3 DEF OpenPlan
<1>9. ASSUME NEW c \in Clients, Retry(c) PROVE RetireInv'
  <2> PICK t \in task[c] : plan' = [plan EXCEPT ![c] = Opened(t)]
    BY <1>9 DEF Retry
  <2>1. /\ \A b \in Clients \ {c} : pc'[b] = pc[b] /\ task'[b] = task[b] /\ plan'[b] = plan[b]
        /\ t \in Tasks /\ task[c] = {t} /\ pc'[c] = "waiting" /\ task'[c] = task[c] /\ plan'[c] = Opened(t)
        /\ UNCHANGED tables
    BY <1>0, <1>9 DEF Retry, TypeOK, CommandInv, PlanInv, TaskIsSingle
  <2> QED BY <1>2, <1>4, <2>1 DEF OpenPlan
<1>10. CASE UNCHANGED vars
  <2>1. \A m : ChangesOf(m)' = ChangesOf(m)
    BY <1>10 DEF vars, tables, ChangesOf, Effective, Deletion, Change, Withdrawn, Active, Declared
  <2>2. PlansNameContents'
    BY <1>10 DEF vars, tables, RetireInv, PlansNameContents, OpenPlan
  <2>3. LockedPlanIsOfRows'
    BY <1>10, <2>1 DEF vars, tables, RetireInv, LockedPlanIsOfRows
  <2> QED BY <1>0, <2>2, <2>3 DEF RetireInv
<1> QED BY <1>1, <1>5, <1>6, <1>7, <1>8, <1>9, <1>10 DEF Next

\* The commit that retires a node leaves it without active links.
LEMMA RetiringCommit ==
  ASSUME ~RetiresAtSnapshot, RetireInv, NEW c \in Clients, Commit(c),
         NEW n \in Nodes, row[n].state \notin Retired, row'[n].state \in Retired,
         NEW l \in Links, n \in {l.from, l.to}
  PROVE  row'[l].state \notin Values
<1>0. CommandInv /\ TypeOK
  BY DEF RetireInv, CommandInv
<1> PICK t \in task[c] : Commits(c, t)
  BY DEF Commit, Commits, EventOf
<1>1. /\ n \in Subjects /\ l \in Subjects /\ l \notin Nodes
      /\ row'[n].state \in Contents /\ row'[n].state # "STUB"
  BY CommandsAssumption, LinksApart DEF Subjects
<1> PICK d \in plan[c].changes : d.subject = n /\ d.state = row'[n].state
  BY <1>0, <1>1, CommitWrites DEF After
<1>2. t \in Tasks /\ t.command.kind = "upsertAsset" /\ t.command.asset = n /\ t.command.content \in Retired
  <2>1. OpenPlan(c) /\ t \in Tasks
    BY <1>0, CommitEffect DEF Commit, OpenPlan
  <2> QED BY <1>1, <2>1 DEF RetireInv, PlansNameContents
<1> DEFINE m == t.command
           W == Withdrawn(n, m.content)
<1>3. plan[c].changes = ChangesOf(m) /\ m \in Commands
  <2>1. m \in Commands /\ m \notin SnapshotCommands
    BY <1>2 DEF RetiresAtSnapshot, Tasks
  <2> QED BY <2>1 DEF RetireInv, LockedPlanIsOfRows, Commit
<1>4. W = {k \in Links : Active(k) /\ n \in {k.from, k.to}}
  BY <1>2 DEF Withdrawn
<1>5. ChangesOf(m) = Effective(n, m.content) \cup {Change(k, "INVALIDATED") : k \in W}
  BY <1>2 DEF ChangesOf
<1>6. CASE Active(l)
  <2>1. Change(l, "INVALIDATED") \in plan[c].changes
    BY <1>3, <1>4, <1>5, <1>6
  <2>2. row'[l] = [version |-> row[l].version + 1, state |-> "INVALIDATED"]
    BY <1>0, <2>1, CommitEffect DEF Change
  <2> QED BY <2>2, CommandsAssumption
<1>7. CASE ~Active(l)
  <2>1. ~\E f \in plan[c].changes : f.subject = l
    BY <1>1, <1>3, <1>4, <1>5, <1>7 DEF Effective, Change
  <2>2. row'[l] = row[l]
    BY <1>0, <1>1, <2>1, CommitWrites
  <2> QED BY <1>7, <2>2 DEF Active
<1> QED BY <1>6, <1>7

\* Where assets are not retired at SERIALIZABLE, the command that retires a node
\* leaves it without active links, whatever SERIALIZABLE commands run beside it.
THEOREM RetirementIsolates ==
  ASSUME ~RetiresAtSnapshot PROVE Spec => RetireIsolates
<1>1. ASSUME RetireInv, [Next]_vars
      PROVE  [\A n \in Nodes :
                row[n].state \notin Retired /\ row'[n].state \in Retired =>
                  \A l \in Links : n \in {l.from, l.to} => row'[l].state \notin Values]_vars
  <2>1. ASSUME NEW c \in Clients, Commit(c)
        PROVE  \A n \in Nodes :
                 row[n].state \notin Retired /\ row'[n].state \in Retired =>
                   \A l \in Links : n \in {l.from, l.to} => row'[l].state \notin Values
    BY <1>1, <2>1, RetiringCommit
  <2>2. CASE \A c \in Clients : ~Commit(c)
    <3>1. UNCHANGED row
      BY <1>1, <2>2 DEF Next, Submit, Begin, Execute, EndWithoutEffect, Answer, RollBack,
                        LoseAnswer, Retry, vars, tables
    <3> QED BY <3>1
  <2> QED BY <2>1, <2>2
<1>2. Init => RetireInv
  <2> SUFFICES ASSUME Init PROVE RetireInv
    OBVIOUS
  <2>1. PlansNameContents /\ LockedPlanIsOfRows
    BY EmptyPlans DEF Init, PlansNameContents, LockedPlanIsOfRows, OpenPlan
  <2> QED BY <2>1, CommandInit DEF RetireInv
<1> QED BY <1>1, <1>2, RetireStep, PTL DEF Spec, RetireIsolates
=============================================================================
