------------------------ MODULE AuthoredCatalogProofs ------------------------
(***************************************************************************)
(* Proofs about AuthoredCatalog for any number of concurrent transactions, *)
(* assets, contents and versions.                                          *)
(***************************************************************************)
EXTENDS AuthoredCatalog, TLAPS

-----------------------------------------------------------------------------
(* The inductive invariant                                                 *)

StepsOf ==
  [none      |-> {"idle"},
   upsert    |-> {"row", "key", "append", "scope", "commit"},
   change    |-> {"scope", "row", "key", "append", "commit"},
   remove    |-> {"scope", "read", "row", "key", "append", "commit"},
   feature   |-> {"scope", "row", "append", "commit"},
   purge     |-> {"scope", "read", "key", "append", "row", "commit"},
   bootstrap |-> {"read", "key", "append", "commit"}]

\* A transaction is at a step of its operation, and knows what it appends.
Placed(w) ==
  /\ at[w] \in StepsOf[call[w].op]
  /\ at[w] = "idle" => locks[w] = {} /\ pending[w] = {} /\ appended[w] = <<>>
  /\ at[w] = "append" => cur[w] \in Assets
  /\ call[w].op = "feature" /\ at[w] \in {"scope", "row", "append"} => cur[w] = call[w].asset

\* What is not committed is numbered from the cursor on, under its lock.
Numbered(w) ==
  /\ \A i \in 1..Len(appended[w]) : appended[w][i].version = cursor + i
  /\ appended[w] # <<>> => "cursor" \in locks[w]

\* A feature change set that has appended commits at the cursor it began with.
Current(w) ==
  call[w].op = "feature" /\ at[w] = "commit" => since[w] = cursor /\ "cursor" \in locks[w]

Writing == {"upsert", "change", "feature"}

\* A revision for what a write leaves is in the log or will be with it.
Covered(w) ==
  \/ \E r \in log : r.asset = call[w].asset /\ r.leaves = call[w].content
  \/ \E i \in 1..Len(appended[w]) :
       appended[w][i].asset = call[w].asset /\ appended[w][i].leaves = call[w].content

\* A write has its asset pending until it is covered.
ToBeCovered(w) ==
  call[w].op \in Writing =>
    \/ Covered(w)
    \/ at[w] = "append"
    \/ /\ call[w].asset \in pending[w]
       /\ at[w] # "commit" /\ (at[w] = "scope" => call[w].op # "upsert")
    \/ call[w].op = "feature" /\ at[w] # "commit"

\* All but a bootstrap log their own asset, once, with what they leave.
LogsOnce(w) ==
  call[w].op # "bootstrap" =>
    /\ pending[w] \subseteq {call[w].asset}
    /\ at[w] = "append" => cur[w] = call[w].asset
    /\ appended[w] # <<>> =>
         /\ Len(appended[w]) = 1 /\ appended[w][1].leaves = call[w].content
         /\ pending[w] = {} /\ at[w] \notin {"append", "read"}
         /\ at[w] = "scope" => call[w].op = "upsert"
         /\ at[w] = "row" => call[w].op = "purge"

\* The only row a transaction locks is that of its asset.
RowLocked(w) == locks[w] \cap Assets \subseteq {call[w].asset}

TransactionOK(w) ==
  Placed(w) /\ Numbered(w) /\ Current(w) /\ ToBeCovered(w) /\ LogsOnce(w) /\ RowLocked(w)

\* No two transactions hold the same lock.
LocksExclude == \A u, w \in Writers : u # w => locks[u] \cap locks[w] = {}

\* The key of a revision of a write names what the write leaves.
KeyNames(r) == r.key.by \in Writing => r.asset = r.key.asset /\ r.leaves = r.key.content

KeysNameContents ==
  /\ \A r \in log : KeyNames(r)
  /\ \A w \in Writers : \A i \in 1..Len(appended[w]) : KeyNames(appended[w][i])

CatalogInv ==
  /\ TypeOK
  /\ \A w \in Writers : TransactionOK(w)
  /\ LocksExclude
  /\ KeysNameContents
  /\ VersionsAreDense
  /\ EveryRowLogged

-----------------------------------------------------------------------------
(* Calls, keys and revisions have their types                              *)

\* What the operation of a call says about its asset and its content.
LEMMA CallFacts ==
  ASSUME NEW c \in Calls \cup {NoCall}
  PROVE  /\ c.op \in {"none"} \cup Writing \cup {"remove", "purge", "bootstrap"}
         /\ c.op = "none" <=> c = NoCall
         /\ c.op \notin {"none", "bootstrap"} => c.asset \in Assets
         /\ c.asset \in Assets \cup {Absent}
         /\ c.op \in Writing => c.content \in Contents
         /\ c.op \notin Writing => c.content = Absent
         /\ c.content \in Values
BY DEF Calls, NoCall, Writing, Assets, Values

\* The key and the effect of a revision.
LEMMA KeyFacts ==
  ASSUME TypeOK, NEW w \in Writers, NEW a \in Assets, at[w] # "idle"
  PROVE  Key(w, a) \in Keys /\ Leaves(w, a) \in Values
<1>1. call[w] \in Calls
  BY DEF TypeOK
<1>2. call[w].op \in {c.op : c \in Calls} /\ call[w].content \in Values
  BY <1>1, CallFacts
<1>3. seen[w][a] \in Values /\ since[w] \in Nat /\ Absent \in Values
  BY DEF TypeOK, Values
<1>4. Leaves(w, a) \in Values
  BY <1>2, <1>3 DEF Leaves
<1>5. Key(w, a) \in Keys
  <2> DEFINE n == IF call[w].op = "feature" THEN since[w] ELSE 0
             content == IF call[w].op = "remove" THEN seen[w][a] ELSE call[w].content
  <2>1. n \in Nat /\ content \in Values
    BY <1>2, <1>3
  <2>2. Key(w, a) = [by |-> call[w].op, asset |-> a, n |-> n, content |-> content]
    BY DEF Key
  <2>3. QED
    BY <1>2, <2>1, <2>2 DEF Keys
<1>6. QED
  BY <1>4, <1>5

\* What an appended revision says.
LEMMA RevisionFacts ==
  ASSUME TypeOK, NEW w \in Writers, NEW a \in Assets, at[w] # "idle"
  PROVE  /\ Revision(w, a) \in AllRevisions
         /\ Revision(w, a).version = cursor + Len(appended[w]) + 1
         /\ Revision(w, a).asset = a
         /\ KeyNames(Revision(w, a))
         /\ call[w].op # "bootstrap" => Revision(w, a).leaves = call[w].content
<1>1. cursor \in Nat /\ Len(appended[w]) \in Nat
  BY DEF TypeOK
<1>2. Revision(w, a) \in AllRevisions
  BY <1>1, KeyFacts DEF Revision, AllRevisions
<1>3. KeyNames(Revision(w, a))
  BY DEF KeyNames, Revision, Key, Leaves, Writing
<1>4. QED
  BY <1>2, <1>3 DEF Revision, Leaves, Writing

\* The step that follows the current one.
LEMMA AdvanceFacts ==
  ASSUME TypeOK, NEW w \in Writers, Placed(w), Advance(w),
         NEW op, op = call[w].op
  PROVE  /\ at[w] = "scope" /\ op = "upsert" => at'[w] = "commit"
         /\ at[w] = "scope" /\ op \in {"change", "feature"} => at'[w] = "row"
         /\ at[w] = "scope" /\ op \in {"remove", "purge"} => at'[w] = "read"
         /\ at[w] = "read" /\ op = "remove" => at'[w] = "row"
         /\ at[w] = "read" /\ op \in {"purge", "bootstrap"} => at'[w] = "key"
         /\ at[w] = "row" /\ op = "feature" => at'[w] = "append"
         /\ at[w] = "row" /\ op = "purge" => at'[w] = "commit"
         /\ at[w] = "row" /\ op \in {"upsert", "change", "remove"} => at'[w] = "key"
         /\ at[w] = "key" /\ op = "upsert" => at'[w] = "scope"
         /\ at[w] = "key" /\ op = "purge" => at'[w] = "row"
         /\ at[w] = "key" /\ op \in {"change", "remove", "bootstrap"} => at'[w] = "commit"
         /\ at[w] = "append" /\ op = "feature" => at'[w] = "commit"
         /\ \A u \in Writers : u # w => at'[u] = at[u]
<1>1. at' = [at EXCEPT ![w] = After[call[w].op][at[w]]] /\ at \in [Writers -> Steps]
  BY DEF TypeOK, Advance, Goto
<1>2. call[w].op \in {"none"} \cup Writing \cup {"remove", "purge", "bootstrap"}
  BY CallFacts DEF TypeOK
<1>3. at[w] \in StepsOf[call[w].op]
  BY DEF Placed
<1>4. \A u \in Writers : u # w => at'[u] = at[u]
  BY <1>1
<1>5. at'[w] = After[op][at[w]]
  BY <1>1
<1>6. /\ After["upsert"]["scope"] = "commit"
      /\ After["change"]["scope"] = "row"
      /\ After["feature"]["scope"] = "row"
      /\ After["remove"]["scope"] = "read"
      /\ After["purge"]["scope"] = "read"
  BY DEF After
<1>7. /\ After["remove"]["read"] = "row"
      /\ After["purge"]["read"] = "key"
      /\ After["bootstrap"]["read"] = "key"
  BY DEF After
<1>8. /\ After["feature"]["row"] = "append"
      /\ After["purge"]["row"] = "commit"
      /\ After["upsert"]["row"] = "key"
      /\ After["change"]["row"] = "key"
      /\ After["remove"]["row"] = "key"
  BY DEF After
<1>9. /\ After["upsert"]["key"] = "scope"
      /\ After["purge"]["key"] = "row"
      /\ After["change"]["key"] = "commit"
      /\ After["remove"]["key"] = "commit"
      /\ After["bootstrap"]["key"] = "commit"
      /\ After["feature"]["append"] = "commit"
  BY DEF After
<1>10. QED
  BY <1>4, <1>5, <1>6, <1>7, <1>8, <1>9

-----------------------------------------------------------------------------
(* Steps that change no table and append nothing                           *)

\* Such a step of one transaction leaves the others as they are.
LEMMA OthersKeep ==
  ASSUME CatalogInv, NEW w \in Writers, UNCHANGED tables,
         \A u \in Writers \ {w} :
           /\ at'[u] = at[u] /\ call'[u] = call[u] /\ locks'[u] = locks[u]
           /\ since'[u] = since[u] /\ pending'[u] = pending[u]
           /\ cur'[u] = cur[u] /\ appended'[u] = appended[u]
  PROVE  \A u \in Writers \ {w} : TransactionOK(u)'
<1> SUFFICES ASSUME NEW u \in Writers \ {w}
             PROVE  TransactionOK(u)'
  OBVIOUS
<1>1. TransactionOK(u)
  BY DEF CatalogInv
<1>2. Placed(u)'
  BY <1>1 DEF TransactionOK, Placed
<1>3. Numbered(u)'
  BY <1>1 DEF TransactionOK, Numbered, tables
<1>4. Current(u)'
  BY <1>1 DEF TransactionOK, Current, tables
<1>5. ToBeCovered(u)'
  BY <1>1 DEF TransactionOK, ToBeCovered, Covered, tables
<1>6. RowLocked(u)' /\ LogsOnce(u)'
  BY <1>1 DEF TransactionOK, RowLocked, LogsOnce
<1>7. QED
  BY <1>2, <1>3, <1>4, <1>5, <1>6 DEF TransactionOK

\* What it leaves to show: types, its own transaction, and the locks.
LEMMA LocalStep ==
  ASSUME CatalogInv, NEW w \in Writers, UNCHANGED tables,
         \A u \in Writers \ {w} :
           /\ at'[u] = at[u] /\ call'[u] = call[u] /\ locks'[u] = locks[u]
           /\ since'[u] = since[u] /\ pending'[u] = pending[u]
           /\ cur'[u] = cur[u] /\ appended'[u] = appended[u],
         appended'[w] \in {appended[w], <<>>},
         TypeOK', TransactionOK(w)', LocksExclude'
  PROVE  CatalogInv'
<1>1. \A u \in Writers : TransactionOK(u)'
  BY OthersKeep
<1>2. KeysNameContents'
  <2>1. \A u \in Writers : appended'[u] \in {appended[u], <<>>}
    OBVIOUS
  <2>2. \A u \in Writers : \A i \in 1..Len(appended'[u]) :
          i \in 1..Len(appended[u]) /\ appended'[u][i] = appended[u][i]
    BY <2>1
  <2>3. QED
    BY <2>2 DEF CatalogInv, KeysNameContents, KeyNames, tables
<1>3. VersionsAreDense' /\ EveryRowLogged'
  BY DEF CatalogInv, VersionsAreDense, EveryRowLogged, Revisions, tables
<1>4. QED
  BY <1>1, <1>2, <1>3 DEF CatalogInv

\* Taking a lock.
LEMMA LockFacts ==
  ASSUME TypeOK, LocksExclude, NEW w \in Writers,
         NEW l \in Assets \cup {"scope", "cursor"}, Lock(w, l)
  PROVE  /\ LocksExclude'
         /\ locks'[w] = locks[w] \cup {l}
         /\ \A u \in Writers \ {w} : locks'[u] = locks[u]
         /\ locks' \in [Writers -> SUBSET (Assets \cup {"scope", "cursor"})]
BY DEF TypeOK, LocksExclude, Lock, Free

\* The end of a transaction, whatever ended it.
LEMMA FinishFacts ==
  ASSUME TypeOK, NEW w \in Writers, Finish(w)
  PROVE  /\ call'[w] = NoCall /\ at'[w] = "idle" /\ locks'[w] = {}
         /\ since'[w] = 0 /\ pending'[w] = {} /\ appended'[w] = <<>>
         /\ \A u \in Writers \ {w} :
              /\ at'[u] = at[u] /\ call'[u] = call[u] /\ locks'[u] = locks[u]
              /\ since'[u] = since[u] /\ pending'[u] = pending[u]
              /\ cur'[u] = cur[u] /\ appended'[u] = appended[u]
         /\ row' \in [Assets -> Values] /\ log' \subseteq AllRevisions /\ cursor' \in Nat
              => TypeOK'
         /\ LocksExclude => LocksExclude'
         /\ TransactionOK(w)'
<1>1. /\ call'[w] = NoCall /\ at'[w] = "idle" /\ locks'[w] = {}
      /\ since'[w] = 0 /\ pending'[w] = {} /\ appended'[w] = <<>>
      /\ \A u \in Writers \ {w} :
           /\ at'[u] = at[u] /\ call'[u] = call[u] /\ locks'[u] = locks[u]
           /\ since'[u] = since[u] /\ pending'[u] = pending[u]
           /\ cur'[u] = cur[u] /\ appended'[u] = appended[u]
  BY DEF Finish, Goto, TypeOK
<1>2. ASSUME row' \in [Assets -> Values], log' \subseteq AllRevisions, cursor' \in Nat
      PROVE  TypeOK'
  <2>1. /\ call' \in [Writers -> Calls \cup {NoCall}] /\ at' \in [Writers -> Steps]
        /\ locks' \in [Writers -> SUBSET (Assets \cup {"scope", "cursor"})]
        /\ seen' \in [Writers -> [Assets -> Values]] /\ since' \in [Writers -> Nat]
    BY DEF Finish, Goto, TypeOK, Steps, NoRows, Values
  <2>2. /\ pending' \in [Writers -> SUBSET Assets] /\ cur' \in [Writers -> Assets \cup {Absent}]
        /\ appended' \in [Writers -> Seq(AllRevisions)]
    BY DEF Finish, TypeOK
  <2>3. \A u \in Writers : at'[u] = "idle" <=> call'[u] = NoCall
    BY <1>1 DEF TypeOK
  <2>4. QED
    BY <1>2, <2>1, <2>2, <2>3 DEF TypeOK
<1>3. LocksExclude => LocksExclude'
  BY <1>1 DEF LocksExclude
<1>4. TransactionOK(w)'
  <2>1. call'[w].op = "none"
    BY <1>1 DEF NoCall
  <2>2. Placed(w)'
    BY <1>1, <2>1 DEF Placed, StepsOf
  <2>3. Numbered(w)' /\ Current(w)' /\ ToBeCovered(w)' /\ LogsOnce(w)' /\ RowLocked(w)'
    BY <1>1, <2>1 DEF Numbered, Current, ToBeCovered, LogsOnce, Writing, RowLocked
  <2>4. QED
    BY <2>2, <2>3 DEF TransactionOK
<1>5. QED
  BY <1>1, <1>2, <1>3, <1>4

\* A transaction that is rolled back changes nothing.
LEMMA UndoStep ==
  ASSUME CatalogInv, NEW w \in Writers, Finish(w), UNCHANGED tables
  PROVE  CatalogInv'
<1>1. row' \in [Assets -> Values] /\ log' \subseteq AllRevisions /\ cursor' \in Nat
  BY DEF CatalogInv, TypeOK, tables
<1>2. TypeOK' /\ TransactionOK(w)' /\ LocksExclude' /\ appended'[w] = <<>>
  BY <1>1, FinishFacts DEF CatalogInv
<1>3. \A u \in Writers \ {w} :
        /\ at'[u] = at[u] /\ call'[u] = call[u] /\ locks'[u] = locks[u]
        /\ since'[u] = since[u] /\ pending'[u] = pending[u]
        /\ cur'[u] = cur[u] /\ appended'[u] = appended[u]
  BY FinishFacts DEF CatalogInv
<1>4. QED
  BY <1>2, <1>3, LocalStep

-----------------------------------------------------------------------------
(* The actions                                                             *)

LEMMA BeginStep ==
  ASSUME CatalogInv, NEW w \in Writers, NEW c \in Calls, Begin(w, c)
  PROVE  CatalogInv'
<1> USE DEF CatalogInv
<1>1. /\ call'[w] = c /\ at'[w] = After[c.op].idle /\ locks' = locks /\ appended' = appended
      /\ call' \in [Writers -> Calls \cup {NoCall}]
      /\ \A u \in Writers \ {w} : at'[u] = at[u] /\ call'[u] = call[u]
  BY DEF Begin, Goto, TypeOK
<1>2. c.op \in Writing \cup {"remove", "purge", "bootstrap"} /\ c # NoCall
  BY CallFacts DEF Calls, NoCall
<1>3. /\ c.op = "upsert" => at'[w] = "row"
      /\ c.op \in {"change", "remove", "feature", "purge"} => at'[w] = "scope"
      /\ c.op = "bootstrap" => at'[w] = "read"
  BY <1>1 DEF After
<1>4. c.op \in Writing => c.asset \in Assets
  BY CallFacts DEF Writing
<1>5. /\ c.op = "feature" => cur'[w] = c.asset /\ pending' = pending /\ since'[w] = cursor
      /\ c.op # "feature" => cur' = cur /\ since' = since /\ seen' = seen
      /\ c.op \in {"upsert", "change"} => pending'[w] = {c.asset}
      /\ c.op \in {"remove", "purge", "bootstrap"} => pending'[w] = {}
      /\ \A u \in Writers \ {w} : pending'[u] = pending[u] /\ cur'[u] = cur[u] /\ since'[u] = since[u]
  BY DEF Begin, TypeOK
<1>6. TypeOK'
  <2>1. at' \in [Writers -> Steps]
    <3>1. After[c.op].idle \in Steps
      BY <1>2, <1>3, <1>1 DEF Writing, Steps
    <3>2. QED
      BY <3>1 DEF Begin, Goto, TypeOK
  <2>2. /\ seen' \in [Writers -> [Assets -> Values]] /\ since' \in [Writers -> Nat]
        /\ cur' \in [Writers -> Assets \cup {Absent}]
    BY <1>4 DEF Begin, TypeOK, Writing
  <2>3. pending' \in [Writers -> SUBSET Assets]
    <3>1. (IF c.op \in {"upsert", "change"} THEN {c.asset} ELSE {}) \in SUBSET Assets
      BY <1>4 DEF Writing
    <3>2. QED
      BY <1>5, <3>1 DEF Begin, TypeOK
  <2>4. \A u \in Writers : at'[u] = "idle" <=> call'[u] = NoCall
    BY <1>1, <1>2, <1>3 DEF TypeOK, Writing
  <2>5. QED
    BY <1>1, <2>1, <2>2, <2>3, <2>4 DEF Begin, TypeOK, tables
<1>7. locks[w] = {} /\ pending[w] = {} /\ appended[w] = <<>>
  BY DEF Begin, TransactionOK, Placed
<1>8. TransactionOK(w)'
  <2>1. Placed(w)'
    BY <1>1, <1>2, <1>3, <1>5 DEF Placed, StepsOf, Writing
  <2>2. Numbered(w)' /\ Current(w)'
    BY <1>1, <1>2, <1>3 DEF Begin, TransactionOK, Numbered, Current, tables, Writing
  <2>3. ToBeCovered(w)'
    BY <1>1, <1>2, <1>3, <1>5, <1>7 DEF ToBeCovered, Writing
  <2>4. LogsOnce(w)'
    BY <1>1, <1>2, <1>3, <1>5, <1>7 DEF LogsOnce, Writing
  <2>5. RowLocked(w)'
    BY <1>1, <1>7 DEF RowLocked
  <2>6. QED
    BY <2>1, <2>2, <2>3, <2>4, <2>5 DEF TransactionOK
<1>9. QED
  BY <1>1, <1>5, <1>6, <1>8, LocalStep DEF Begin, LocksExclude

LEMMA LockScopeStep ==
  ASSUME CatalogInv, NEW w \in Writers, LockScope(w)
  PROVE  CatalogInv'
<1> USE DEF CatalogInv
<1>1. /\ at[w] = "scope" /\ UNCHANGED <<tables, call, local>> /\ Lock(w, "scope") /\ Advance(w)
  BY DEF LockScope
<1>2. Placed(w) /\ TransactionOK(w)
  BY DEF TransactionOK
<1>3. /\ LocksExclude' /\ locks'[w] = locks[w] \cup {"scope"}
      /\ \A u \in Writers \ {w} : locks'[u] = locks[u]
      /\ locks' \in [Writers -> SUBSET (Assets \cup {"scope", "cursor"})]
  BY <1>1, LockFacts
<1>4. /\ call[w].op \in {"upsert", "change", "feature", "remove", "purge"}
      /\ call[w].op = "upsert" => at'[w] = "commit"
      /\ call[w].op \in {"change", "feature"} => at'[w] = "row"
      /\ call[w].op \in {"remove", "purge"} => at'[w] = "read"
      /\ \A u \in Writers : u # w => at'[u] = at[u]
  <2>1. call[w].op \in {"none"} \cup Writing \cup {"remove", "purge", "bootstrap"}
    BY CallFacts DEF TypeOK
  <2>2. call[w].op \in {"upsert", "change", "feature", "remove", "purge"}
    BY <1>1, <1>2, <2>1 DEF Placed, StepsOf, Writing
  <2>3. QED
    BY <1>1, <1>2, <2>2, AdvanceFacts
<1>5. TypeOK'
  <2>1. at' \in [Writers -> Steps]
    BY <1>1, <1>4 DEF TypeOK, Advance, Goto, Steps
  <2>2. \A u \in Writers : at'[u] = "idle" <=> call'[u] = NoCall
    BY <1>1, <1>4 DEF TypeOK
  <2>3. QED
    BY <1>1, <1>3, <2>1, <2>2 DEF TypeOK, tables, local
<1>6. TransactionOK(w)'
  <2>1. Placed(w)'
    BY <1>1, <1>2, <1>4 DEF Placed, StepsOf, local
  <2>2. Numbered(w)' /\ Current(w)' /\ RowLocked(w)'
    BY <1>1, <1>2, <1>3, <1>4, CatalogAssumption
       DEF TransactionOK, Numbered, Current, RowLocked, tables, local
  <2>3. ToBeCovered(w)'
    BY <1>1, <1>2, <1>4 DEF TransactionOK, ToBeCovered, Covered, Writing, tables, local
  <2>4. LogsOnce(w)'
    BY <1>1, <1>2, <1>4 DEF TransactionOK, LogsOnce, local
  <2>5. QED
    BY <2>1, <2>2, <2>3, <2>4 DEF TransactionOK
<1>7. QED
  BY <1>1, <1>3, <1>4, <1>5, <1>6, LocalStep DEF tables, local

LEMMA ReadStep ==
  ASSUME CatalogInv, NEW w \in Writers, Read(w)
  PROVE  CatalogInv'
<1> USE DEF CatalogInv
<1>1. /\ at[w] = "read" /\ UNCHANGED <<tables, call, locks, since, cur, appended>>
      /\ \A u \in Writers \ {w} : pending'[u] = pending[u]
      /\ pending' \in [Writers -> SUBSET Assets]
  BY DEF Read, TypeOK
<1>2. Placed(w) /\ TransactionOK(w)
  BY DEF TransactionOK
<1>3. call[w].op \in {"remove", "purge", "bootstrap"}
  <2>1. call[w].op \in {"none"} \cup Writing \cup {"remove", "purge", "bootstrap"}
    BY CallFacts DEF TypeOK
  <2>2. QED
    BY <1>1, <1>2, <2>1 DEF Placed, StepsOf, Writing
<1>4. /\ at' \in [Writers -> Steps] /\ \A u \in Writers \ {w} : at'[u] = at[u]
      /\ call[w].op = "remove" => at'[w] \in {"row", "commit"}
      /\ call[w].op # "remove" => at'[w] = "key"
  <2>1. CASE Advance(w)
    <3>1. /\ \A u \in Writers : u # w => at'[u] = at[u]
          /\ call[w].op = "remove" => at'[w] = "row"
          /\ call[w].op # "remove" => at'[w] = "key"
      BY <1>1, <1>2, <1>3, <2>1, AdvanceFacts
    <3>2. QED
      BY <1>3, <2>1, <3>1 DEF TypeOK, Advance, Goto, Steps
  <2>2. CASE call[w].op = "remove" /\ Goto(w, "commit")
    BY <2>2 DEF Goto, TypeOK, Steps
  <2>3. QED
    BY <2>1, <2>2 DEF Read
<1>5. TypeOK'
  <2>1. seen' \in [Writers -> [Assets -> Values]]
    BY DEF Read, TypeOK
  <2>2. \A u \in Writers : at'[u] = "idle" <=> call'[u] = NoCall
    BY <1>1, <1>3, <1>4 DEF TypeOK
  <2>3. QED
    BY <1>1, <1>4, <2>1, <2>2 DEF TypeOK, tables
<1>6. TransactionOK(w)'
  <2>1. Placed(w)'
    BY <1>1, <1>2, <1>3, <1>4 DEF Placed, StepsOf
  <2>2. Numbered(w)' /\ Current(w)' /\ RowLocked(w)' /\ ToBeCovered(w)'
    BY <1>1, <1>2, <1>3 DEF TransactionOK, Numbered, Current, RowLocked, ToBeCovered, Writing, tables
  <2>3. LogsOnce(w)'
    <3>1. call[w].op # "bootstrap" => pending'[w] \subseteq {call[w].asset}
      BY DEF Read, TypeOK
    <3>2. QED
      BY <1>1, <1>2, <1>3, <1>4, <3>1 DEF TransactionOK, LogsOnce
  <2>4. QED
    BY <2>1, <2>2, <2>3 DEF TransactionOK
<1>7. QED
  BY <1>1, <1>4, <1>5, <1>6, LocalStep DEF LocksExclude

LEMMA WriteRowStep ==
  ASSUME CatalogInv, NEW w \in Writers, WriteRow(w)
  PROVE  CatalogInv'
<1> USE DEF CatalogInv
<1>1. at[w] = "row" /\ UNCHANGED <<tables, call, local>> /\ Advance(w)
  BY DEF WriteRow
<1>2. Placed(w) /\ TransactionOK(w)
  BY DEF TransactionOK
<1>3. call[w].op \in {"upsert", "change", "feature", "remove", "purge"} /\ call[w].asset \in Assets
  <2>1. /\ call[w].op \in {"none"} \cup Writing \cup {"remove", "purge", "bootstrap"}
        /\ call[w].op \notin {"none", "bootstrap"} => call[w].asset \in Assets
    BY CallFacts DEF TypeOK
  <2>2. QED
    BY <1>1, <1>2, <2>1 DEF Placed, StepsOf, Writing
<1>4. /\ call[w].op = "feature" => at'[w] = "append"
      /\ call[w].op = "purge" => at'[w] = "commit"
      /\ call[w].op \in {"upsert", "change", "remove"} => at'[w] = "key"
      /\ \A u \in Writers : u # w => at'[u] = at[u]
  BY <1>1, <1>2, AdvanceFacts
<1>5. /\ LocksExclude' /\ locks[w] \subseteq locks'[w]
      /\ locks'[w] \subseteq locks[w] \cup {call[w].asset}
      /\ \A u \in Writers \ {w} : locks'[u] = locks[u]
      /\ locks' \in [Writers -> SUBSET (Assets \cup {"scope", "cursor"})]
  <2>1. CASE Lock(w, call[w].asset)
    BY <1>3, <2>1, LockFacts
  <2>2. CASE UNCHANGED locks
    BY <2>2 DEF TypeOK, LocksExclude
  <2>3. QED
    BY <2>1, <2>2 DEF WriteRow
<1>6. TypeOK'
  <2>1. at' \in [Writers -> Steps]
    BY <1>1, <1>3, <1>4 DEF TypeOK, Advance, Goto, Steps
  <2>2. \A u \in Writers : at'[u] = "idle" <=> call'[u] = NoCall
    BY <1>1, <1>3, <1>4 DEF TypeOK
  <2>3. QED
    BY <1>1, <1>5, <2>1, <2>2 DEF TypeOK, tables, local
<1>7. TransactionOK(w)'
  <2>1. Placed(w)'
    BY <1>1, <1>2, <1>3, <1>4 DEF Placed, StepsOf, local
  <2>2. Numbered(w)' /\ Current(w)' /\ RowLocked(w)'
    BY <1>1, <1>2, <1>3, <1>4, <1>5 DEF TransactionOK, Numbered, Current, RowLocked, tables, local
  <2>3. ToBeCovered(w)'
    BY <1>1, <1>2, <1>3, <1>4 DEF TransactionOK, Placed, ToBeCovered, Covered, Writing, tables, local
  <2>4. LogsOnce(w)'
    BY <1>1, <1>2, <1>3, <1>4 DEF TransactionOK, Placed, LogsOnce, local
  <2>5. QED
    BY <2>1, <2>2, <2>3, <2>4 DEF TransactionOK
<1>8. QED
  BY <1>1, <1>4, <1>5, <1>6, <1>7, LocalStep DEF tables, local

\* A key that is found covers the write; the same key names the same content.
LEMMA LookUpKeyStep ==
  ASSUME CatalogInv, NEW w \in Writers, NEW a \in Assets, LookUpKey(w, a)
  PROVE  CatalogInv'
<1> USE DEF CatalogInv
<1>1. /\ at[w] = "key" /\ a \in pending[w] /\ UNCHANGED <<tables, call, locks, seen, since, appended>>
      /\ \A u \in Writers \ {w} : at'[u] = at[u] /\ pending'[u] = pending[u] /\ cur'[u] = cur[u]
  BY DEF LookUpKey, Goto, TypeOK
<1>2. Placed(w) /\ TransactionOK(w)
  BY DEF TransactionOK
<1>3. call[w].op \in {"upsert", "change", "remove", "purge", "bootstrap"}
  <2>1. call[w].op \in {"none"} \cup Writing \cup {"remove", "purge", "bootstrap"}
    BY CallFacts DEF TypeOK
  <2>2. QED
    BY <1>1, <1>2, <2>1 DEF Placed, StepsOf, Writing
<1>4. CASE Logged(Key(w, a))
  <2>1. at' = at /\ cur' = cur /\ pending' = [pending EXCEPT ![w] = @ \ {a}]
    BY <1>4 DEF LookUpKey
  <2>2. TypeOK'
    BY <1>1, <2>1 DEF TypeOK, tables
  <2>3. Placed(w)' /\ Numbered(w)' /\ Current(w)' /\ RowLocked(w)'
    BY <1>1, <1>2, <2>1 DEF TransactionOK, Placed, Numbered, Current, RowLocked, tables
  <2>4. ToBeCovered(w)'
    <3>1. CASE call[w].op \in {"upsert", "change"}
      <4>1. a = call[w].asset
        BY <1>1, <1>2, <3>1 DEF TransactionOK, LogsOnce
      <4>2. PICK r \in log : r.key = Key(w, a)
        BY <1>4 DEF Logged
      <4>3. r.key.by \in Writing /\ r.key.asset = a /\ r.key.content = call[w].content
        BY <3>1, <4>2 DEF Key, Writing
      <4>4. r.asset = call[w].asset /\ r.leaves = call[w].content
        BY <4>1, <4>3 DEF KeysNameContents, KeyNames
      <4>5. Covered(w)'
        BY <1>1, <4>4 DEF Covered, tables
      <4>6. QED
        BY <4>5 DEF ToBeCovered
    <3>2. CASE call[w].op \notin {"upsert", "change"}
      BY <1>1, <1>3, <3>2 DEF ToBeCovered, Writing
    <3>3. QED
      BY <3>1, <3>2
  <2>5. LogsOnce(w)'
    BY <1>1, <1>2, <2>1 DEF TransactionOK, LogsOnce, TypeOK
  <2>6. QED
    BY <1>1, <2>1, <2>2, <2>3, <2>4, <2>5, LocalStep DEF TransactionOK, LocksExclude
<1>5. CASE ~Logged(Key(w, a))
  <2>1. pending' = pending /\ cur' = [cur EXCEPT ![w] = a] /\ at' = [at EXCEPT ![w] = "append"]
    BY <1>5 DEF LookUpKey, Goto
  <2>2. TypeOK'
    <3>1. at' \in [Writers -> Steps] /\ cur' \in [Writers -> Assets \cup {Absent}]
      BY <2>1 DEF TypeOK, Steps
    <3>2. \A u \in Writers : at'[u] = "idle" <=> call'[u] = NoCall
      BY <1>1, <2>1 DEF TypeOK
    <3>3. QED
      BY <1>1, <2>1, <3>1, <3>2 DEF TypeOK, tables
  <2>3. at'[w] = "append" /\ cur'[w] = a
    BY <2>1 DEF TypeOK
  <2>4. Placed(w)'
    BY <1>1, <1>2, <1>3, <2>3 DEF Placed, StepsOf
  <2>5. Numbered(w)' /\ Current(w)' /\ RowLocked(w)'
    BY <1>1, <1>2, <2>3 DEF TransactionOK, Numbered, Current, RowLocked, tables
  <2>6. ToBeCovered(w)'
    BY <2>3 DEF ToBeCovered
  <2>7. LogsOnce(w)'
    BY <1>1, <1>2, <2>1, <2>3 DEF TransactionOK, LogsOnce
  <2>8. QED
    BY <1>1, <2>1, <2>2, <2>4, <2>5, <2>6, <2>7, LocalStep DEF TransactionOK, LocksExclude
<1>6. QED
  BY <1>4, <1>5

LEMMA AllLoggedStep ==
  ASSUME CatalogInv, NEW w \in Writers, AllLogged(w)
  PROVE  CatalogInv'
<1> USE DEF CatalogInv
<1>1. at[w] = "key" /\ pending[w] = {} /\ UNCHANGED <<tables, call, locks, local>> /\ Advance(w)
  BY DEF AllLogged
<1>2. Placed(w) /\ TransactionOK(w)
  BY DEF TransactionOK
<1>3. call[w].op \in {"upsert", "change", "remove", "purge", "bootstrap"}
  <2>1. call[w].op \in {"none"} \cup Writing \cup {"remove", "purge", "bootstrap"}
    BY CallFacts DEF TypeOK
  <2>2. QED
    BY <1>1, <1>2, <2>1 DEF Placed, StepsOf, Writing
<1>4. /\ call[w].op = "upsert" => at'[w] = "scope"
      /\ call[w].op = "purge" => at'[w] = "row"
      /\ call[w].op \in {"change", "remove", "bootstrap"} => at'[w] = "commit"
      /\ \A u \in Writers : u # w => at'[u] = at[u]
  BY <1>1, <1>2, AdvanceFacts
<1>5. TypeOK'
  <2>1. at' \in [Writers -> Steps]
    BY <1>1, <1>3, <1>4 DEF TypeOK, Advance, Goto, Steps
  <2>2. \A u \in Writers : at'[u] = "idle" <=> call'[u] = NoCall
    BY <1>1, <1>3, <1>4 DEF TypeOK
  <2>3. QED
    BY <1>1, <2>1, <2>2 DEF TypeOK, tables, local
<1>6. TransactionOK(w)'
  <2>1. Placed(w)'
    BY <1>1, <1>2, <1>3, <1>4 DEF Placed, StepsOf, local
  <2>2. Numbered(w)' /\ Current(w)' /\ RowLocked(w)'
    BY <1>1, <1>2, <1>3, <1>4 DEF TransactionOK, Numbered, Current, RowLocked, tables, local
  <2>3. ToBeCovered(w)'
    <3>1. call[w].op \in Writing => Covered(w)
      BY <1>1, <1>2, <1>3 DEF TransactionOK, ToBeCovered
    <3>2. call[w].op \in Writing => Covered(w)'
      BY <1>1, <3>1 DEF Covered, tables, local
    <3>3. QED
      BY <1>1, <3>2 DEF ToBeCovered
  <2>4. LogsOnce(w)'
    BY <1>1, <1>2, <1>3, <1>4 DEF TransactionOK, LogsOnce, local
  <2>5. QED
    BY <2>1, <2>2, <2>3, <2>4 DEF TransactionOK
<1>7. QED
  BY <1>1, <1>4, <1>5, <1>6, LocalStep DEF tables, local, LocksExclude

LEMMA AppendStep ==
  ASSUME CatalogInv, NEW w \in Writers, AppendRevision(w)
  PROVE  CatalogInv'
<1> USE DEF CatalogInv
<1> DEFINE r == Revision(w, cur[w])
<1>1. at[w] = "append" /\ UNCHANGED <<tables, call, seen, since>> /\ Lock(w, "cursor")
  BY DEF AppendRevision
<1>2. Placed(w) /\ TransactionOK(w) /\ cur[w] \in Assets
  BY <1>1 DEF TransactionOK, Placed
<1>3. /\ LocksExclude' /\ locks'[w] = locks[w] \cup {"cursor"}
      /\ \A u \in Writers \ {w} : locks'[u] = locks[u]
      /\ locks' \in [Writers -> SUBSET (Assets \cup {"scope", "cursor"})]
  BY <1>1, LockFacts
<1>4. /\ r \in AllRevisions /\ r.version = cursor + Len(appended[w]) + 1
      /\ r.asset = cur[w] /\ KeyNames(r)
      /\ call[w].op # "bootstrap" => r.leaves = call[w].content
  BY <1>1, <1>2, RevisionFacts
<1>5. /\ appended' = [appended EXCEPT ![w] = Append(@, r)]
      /\ pending' = [pending EXCEPT ![w] = @ \ {cur[w]}]
      /\ cur' = [cur EXCEPT ![w] = Absent]
  BY DEF AppendRevision
<1>6. /\ appended'[w] = Append(appended[w], r) /\ appended[w] \in Seq(AllRevisions)
      /\ Len(appended'[w]) = Len(appended[w]) + 1 /\ Len(appended[w]) \in Nat
      /\ appended'[w][Len(appended[w]) + 1] = r
      /\ \A i \in 1..Len(appended[w]) : appended'[w][i] = appended[w][i]
      /\ pending'[w] = pending[w] \ {cur[w]} /\ cur'[w] = Absent
      /\ \A u \in Writers \ {w} :
           appended'[u] = appended[u] /\ pending'[u] = pending[u] /\ cur'[u] = cur[u]
  BY <1>4, <1>5 DEF TypeOK
<1>7. call[w].op \in Writing \cup {"remove", "purge", "bootstrap"}
  <2>1. call[w].op \in {"none"} \cup Writing \cup {"remove", "purge", "bootstrap"}
    BY CallFacts DEF TypeOK
  <2>2. QED
    BY <1>1, <1>2, <2>1 DEF Placed, StepsOf
<1>8. /\ at' \in [Writers -> Steps] /\ \A u \in Writers \ {w} : at'[u] = at[u]
      /\ call[w].op = "feature" => at'[w] = "commit"
      /\ call[w].op # "feature" => at'[w] = "key"
  <2>1. CASE call[w].op = "feature"
    <3>1. Advance(w) /\ at'[w] = "commit" /\ \A u \in Writers : u # w => at'[u] = at[u]
      BY <1>1, <1>2, <2>1, AdvanceFacts DEF AppendRevision
    <3>2. QED
      BY <2>1, <3>1 DEF Advance, Goto, TypeOK, Steps
  <2>2. CASE call[w].op # "feature"
    BY <2>2 DEF AppendRevision, Goto, TypeOK, Steps
  <2>3. QED
    BY <2>1, <2>2
<1>9. TypeOK'
  <2>1. appended' \in [Writers -> Seq(AllRevisions)]
    BY <1>4, <1>5, <1>6 DEF TypeOK
  <2>2. pending' \in [Writers -> SUBSET Assets] /\ cur' \in [Writers -> Assets \cup {Absent}]
    BY <1>5 DEF TypeOK
  <2>3. \A u \in Writers : at'[u] = "idle" <=> call'[u] = NoCall
    BY <1>1, <1>8 DEF TypeOK
  <2>4. QED
    BY <1>1, <1>3, <1>8, <2>1, <2>2, <2>3 DEF TypeOK, tables
<1>10. TransactionOK(w)'
  <2>1. Placed(w)'
    BY <1>1, <1>2, <1>7, <1>8 DEF Placed, StepsOf, Writing
  <2>2. Numbered(w)'
    <3>1. \A i \in 1..Len(appended'[w]) : appended'[w][i].version = cursor + i
      <4> SUFFICES ASSUME NEW i \in 1..Len(appended'[w])
                   PROVE  appended'[w][i].version = cursor + i
        OBVIOUS
      <4>1. cursor \in Nat /\ (i \in 1..Len(appended[w]) \/ i = Len(appended[w]) + 1)
        BY <1>6 DEF TypeOK
      <4>2. CASE i \in 1..Len(appended[w])
        BY <1>2, <1>6, <4>2 DEF TransactionOK, Numbered
      <4>3. CASE i = Len(appended[w]) + 1
        BY <1>4, <1>6, <4>1, <4>3
      <4>4. QED
        BY <4>1, <4>2, <4>3
    <3>2. QED
      BY <1>1, <1>3, <3>1 DEF Numbered, tables
  <2>3. Current(w)'
    BY <1>1, <1>3, <1>8 DEF AppendRevision, Snapshot, Current, tables
  <2>4. ToBeCovered(w)'
    <3>1. CASE call[w].op \in Writing
      <4>1. cur[w] = call[w].asset /\ call[w].op # "bootstrap"
        BY <1>1, <1>2, <3>1 DEF TransactionOK, LogsOnce, Writing
      <4>2. Covered(w)'
        BY <1>1, <1>4, <1>6, <4>1 DEF Covered
      <4>3. QED
        BY <4>2 DEF ToBeCovered
    <3>2. CASE call[w].op \notin Writing
      BY <1>1, <3>2 DEF ToBeCovered
    <3>3. QED
      BY <3>1, <3>2
  <2>5. RowLocked(w)'
    BY <1>1, <1>2, <1>3, CatalogAssumption DEF TransactionOK, RowLocked
  <2>6. LogsOnce(w)'
    <3>1. CASE call[w].op # "bootstrap"
      <4>1. appended[w] = <<>> /\ cur[w] = call[w].asset /\ pending[w] \subseteq {call[w].asset}
        BY <1>1, <1>2, <3>1 DEF TransactionOK, LogsOnce
      <4>2. Len(appended'[w]) = 1 /\ appended'[w][1] = r /\ pending'[w] = {}
        BY <1>6, <4>1
      <4>3. QED
        BY <1>1, <1>4, <1>8, <3>1, <4>2 DEF LogsOnce
    <3>2. CASE call[w].op = "bootstrap"
      BY <1>1, <3>2 DEF LogsOnce
    <3>3. QED
      BY <3>1, <3>2
  <2>7. QED
    BY <2>1, <2>2, <2>3, <2>4, <2>5, <2>6 DEF TransactionOK
<1>11. \A u \in Writers \ {w} : TransactionOK(u)'
  BY <1>1, <1>3, <1>6, <1>8, OthersKeep
<1>12. KeysNameContents'
  <2>1. \A i \in 1..Len(appended'[w]) : KeyNames(appended'[w][i])
    BY <1>4, <1>6 DEF KeysNameContents
  <2>2. \A u \in Writers : \A i \in 1..Len(appended'[u]) : KeyNames(appended'[u][i])
    BY <1>6, <2>1 DEF KeysNameContents
  <2>3. log' = log /\ \A q \in log : KeyNames(q)
    BY <1>1 DEF KeysNameContents, tables
  <2>4. QED
    BY <2>2, <2>3 DEF KeysNameContents, KeyNames
<1>13. VersionsAreDense' /\ EveryRowLogged'
  BY <1>1 DEF VersionsAreDense, EveryRowLogged, Revisions, tables
<1>14. QED
  BY <1>3, <1>9, <1>10, <1>11, <1>12, <1>13

\* Only the holder of the cursor moves it, so what others have taken or checked
\* is not disturbed.
LEMMA CommitStep ==
  ASSUME CatalogInv, NEW w \in Writers, Commit(w)
  PROVE  CatalogInv'
<1> USE DEF CatalogInv
<1> DEFINE n == Len(appended[w])
           new == {appended[w][i] : i \in 1..n}
<1>1. /\ at[w] = "commit" /\ log' = log \cup new /\ cursor' = cursor + n /\ Finish(w)
      /\ row' = [a \in Assets |-> IF a \in locks[w] THEN call[w].content ELSE row[a]]
  BY DEF Commit
<1>2. TransactionOK(w)
  OBVIOUS
<1>3. /\ cursor \in Nat /\ n \in Nat /\ new \subseteq AllRevisions
      /\ log \subseteq AllRevisions /\ call[w] \in Calls
  BY <1>1 DEF TypeOK
<1>4. /\ call[w].content \in Values
      /\ call[w].op \notin Writing => call[w].content = Absent
  BY <1>3, CallFacts
<1>5. row' \in [Assets -> Values] /\ log' \subseteq AllRevisions /\ cursor' \in Nat
  BY <1>1, <1>3, <1>4 DEF TypeOK
<1>6. /\ TypeOK' /\ LocksExclude' /\ TransactionOK(w)' /\ appended'[w] = <<>>
      /\ \A u \in Writers \ {w} :
           /\ at'[u] = at[u] /\ call'[u] = call[u] /\ locks'[u] = locks[u]
           /\ since'[u] = since[u] /\ pending'[u] = pending[u]
           /\ cur'[u] = cur[u] /\ appended'[u] = appended[u]
  BY <1>1, <1>5, FinishFacts
<1>7. cursor' = cursor \/ "cursor" \in locks[w]
  <2>1. CASE appended[w] = <<>>
    BY <1>1, <1>3, <2>1
  <2>2. CASE appended[w] # <<>>
    BY <1>2, <2>2 DEF TransactionOK, Numbered
  <2>3. QED
    BY <2>1, <2>2
<1>8. ASSUME NEW u \in Writers \ {w}
      PROVE  TransactionOK(u)'
  <2>1. TransactionOK(u)
    OBVIOUS
  <2>2. "cursor" \in locks[u] => cursor' = cursor
    BY <1>7 DEF LocksExclude
  <2>3. Placed(u)' /\ RowLocked(u)' /\ LogsOnce(u)'
    BY <1>6, <2>1 DEF TransactionOK, Placed, RowLocked, LogsOnce
  <2>4. Numbered(u)'
    <3>1. appended[u] = <<>> \/ cursor' = cursor
      BY <2>1, <2>2 DEF TransactionOK, Numbered
    <3>2. QED
      BY <1>6, <2>1, <3>1 DEF TransactionOK, Numbered
  <2>5. Current(u)'
    BY <1>6, <2>1, <2>2 DEF TransactionOK, Current
  <2>6. ToBeCovered(u)'
    <3>1. Covered(u) => Covered(u)'
      BY <1>1, <1>6 DEF Covered
    <3>2. QED
      BY <1>6, <2>1, <3>1 DEF TransactionOK, ToBeCovered
  <2>7. QED
    BY <2>3, <2>4, <2>5, <2>6 DEF TransactionOK
<1>9. KeysNameContents'
  <2>1. \A r \in log' : KeyNames(r)
    BY <1>1 DEF KeysNameContents
  <2>2. \A u \in Writers : \A i \in 1..Len(appended'[u]) : KeyNames(appended'[u][i])
    BY <1>6 DEF KeysNameContents
  <2>3. QED
    BY <2>1, <2>2 DEF KeysNameContents, KeyNames
<1>10. VersionsAreDense'
  <2>1. \A i \in 1..n : appended[w][i].version = cursor + i
    BY <1>2 DEF TransactionOK, Numbered
  <2>2. \A r \in log : r.version \in 1..cursor
    BY DEF VersionsAreDense
  <2>3. \A r \in log' : r.version \in 1..(cursor + n)
    BY <1>1, <1>3, <2>1, <2>2
  <2>4. ASSUME NEW v \in 1..(cursor + n)
        PROVE  \E r \in log' : r.version = v
    <3>1. CASE v \in 1..cursor
      BY <1>1, <3>1 DEF VersionsAreDense
    <3>2. CASE v \notin 1..cursor
      <4>1. v - cursor \in 1..n /\ cursor + (v - cursor) = v
        BY <1>3, <3>2
      <4>2. appended[w][v - cursor] \in log' /\ appended[w][v - cursor].version = v
        BY <1>1, <2>1, <4>1
      <4>3. QED
        BY <4>2
    <3>3. QED
      BY <3>1, <3>2
  <2>5. ASSUME NEW r \in log', NEW q \in log', r.version = q.version
        PROVE  r = q
    <3>1. CASE r \in log /\ q \in log
      BY <2>5, <3>1 DEF VersionsAreDense
    <3>2. CASE r \in log /\ q \in new
      BY <1>3, <2>1, <2>2, <2>5, <3>2
    <3>3. CASE r \in new /\ q \in log
      BY <1>3, <2>1, <2>2, <2>5, <3>3
    <3>4. CASE r \in new /\ q \in new
      BY <1>3, <2>1, <2>5, <3>4
    <3>5. QED
      BY <1>1, <3>1, <3>2, <3>3, <3>4
  <2>6. {r.version : r \in log'} = 1..cursor'
    BY <1>1, <2>3, <2>4
  <2>7. QED
    BY <2>5, <2>6 DEF VersionsAreDense
<1>11. EveryRowLogged'
  <2> SUFFICES ASSUME NEW a \in Assets, row'[a] \notin {Absent, Legacy[a]}
               PROVE  \E r \in log' : r.asset = a /\ r.leaves = row'[a]
    BY DEF EveryRowLogged, Revisions
  <2>1. CASE a \in locks[w]
    <3>1. a = call[w].asset /\ row'[a] = call[w].content
      BY <1>1, <1>2, <2>1 DEF TransactionOK, RowLocked
    <3>2. call[w].op \in Writing
      BY <1>4, <3>1
    <3>3. Covered(w)
      BY <1>1, <1>2, <3>2 DEF TransactionOK, ToBeCovered
    <3>4. QED
      BY <1>1, <3>1, <3>3 DEF Covered
  <2>2. CASE a \notin locks[w]
    <3>1. row'[a] = row[a]
      BY <1>1, <2>2
    <3>2. QED
      BY <1>1, <3>1 DEF EveryRowLogged, Revisions
  <2>3. QED
    BY <2>1, <2>2
<1>12. QED
  BY <1>6, <1>8, <1>9, <1>10, <1>11

-----------------------------------------------------------------------------
(* Theorems                                                                *)

LEMMA CatalogInit == Init => CatalogInv
<1> SUFFICES ASSUME Init
             PROVE  CatalogInv
  OBVIOUS
<1>1. TypeOK
  BY CatalogAssumption DEF Init, TypeOK, NoRows, Values, Steps
<1>2. \A w \in Writers : TransactionOK(w)
  BY DEF Init, TransactionOK, Placed, StepsOf, Numbered, Current, ToBeCovered, LogsOnce, Writing,
         RowLocked, NoCall
<1>3. LocksExclude /\ KeysNameContents /\ VersionsAreDense /\ EveryRowLogged
  BY DEF Init, LocksExclude, KeysNameContents, VersionsAreDense, EveryRowLogged
<1>4. QED
  BY <1>1, <1>2, <1>3 DEF CatalogInv

LEMMA CatalogNext == CatalogInv /\ [Next]_vars => CatalogInv'
<1> SUFFICES ASSUME CatalogInv, [Next]_vars
             PROVE  CatalogInv'
  OBVIOUS
<1>1. ASSUME NEW w \in Writers, Rejected(w) \/ RollBack(w) \/ DeadlockVictim(w)
      PROVE  CatalogInv'
  <2>1. Finish(w) /\ UNCHANGED tables
    BY <1>1 DEF Rejected, RollBack, DeadlockVictim
  <2>2. QED
    BY <2>1, UndoStep
<1>2. CASE UNCHANGED vars
  <2>1. UNCHANGED <<row, log, cursor, call, at, locks, seen, since, pending, cur, appended>>
    BY <1>2 DEF vars, tables, local
  <2>2. TypeOK' /\ LocksExclude'
    BY <2>1 DEF CatalogInv, TypeOK, LocksExclude
  <2>3. ASSUME NEW w \in Writers
        PROVE  TransactionOK(w)'
    BY <2>1 DEF CatalogInv, TransactionOK, Placed, Numbered, Current, ToBeCovered, Covered, LogsOnce, RowLocked
  <2>4. KeysNameContents' /\ VersionsAreDense' /\ EveryRowLogged'
    BY <2>1 DEF CatalogInv, KeysNameContents, KeyNames, VersionsAreDense, EveryRowLogged, Revisions
  <2>5. QED
    BY <2>2, <2>3, <2>4 DEF CatalogInv
<1>3. QED
  BY <1>1, <1>2, BeginStep, LockScopeStep, ReadStep, WriteRowStep, LookUpKeyStep, AllLoggedStep,
     AppendStep, CommitStep DEF Next, Step, Locking

\* Every variable keeps its type.
THEOREM CatalogTypes == Spec => []TypeOK
BY CatalogInit, CatalogNext, PTL DEF Spec, CatalogInv

\* However transactions meet, wait, fail or are rolled back, each version up to
\* the cursor names one revision.
THEOREM CatalogVersionsAreDense == Spec => []VersionsAreDense
BY CatalogInit, CatalogNext, PTL DEF Spec, CatalogInv

\* No row written since the log was introduced is without a revision that says
\* what it says.
THEOREM CatalogRowsAreLogged == Spec => []EveryRowLogged
BY CatalogInit, CatalogNext, PTL DEF Spec, CatalogInv

\* A feature change set that commits replaces the version it was checked for.
THEOREM CatalogExpectedVersion == Spec => []ExpectedVersionHolds
<1>1. CatalogInv => ExpectedVersionHolds
  BY DEF CatalogInv, TransactionOK, Current, VersionsAreDense, ExpectedVersionHolds, Revisions, TypeOK
<1>2. QED
  BY <1>1, CatalogInit, CatalogNext, PTL DEF Spec

\* The order of the log is the order of the writes: a write that logs a revision
\* leaves it the newest of its asset.
THEOREM CatalogOrder == Spec => LoggedWritesAreLatest
<1>1. ASSUME CatalogInv, NEW w \in Writers, Commit(w), NEW a \in Assets,
             row'[a] # row[a], Revisions(a)' # Revisions(a)
      PROVE  row'[a] = Latest(a)'
  <2>1. /\ log' = log \cup {appended[w][i] : i \in 1..Len(appended[w])}
        /\ at[w] = "commit" /\ TransactionOK(w) /\ call[w] \in Calls
        /\ a \in locks[w] /\ row'[a] = call[w].content
    BY <1>1 DEF CatalogInv, Commit, TypeOK
  <2>2. a = call[w].asset /\ call[w].op # "bootstrap"
    <3>1. a = call[w].asset
      BY <2>1 DEF TransactionOK, RowLocked
    <3>2. call[w].op = "bootstrap" => call[w].asset = Absent
      BY <2>1 DEF Calls
    <3>3. QED
      BY <3>1, <3>2, CatalogAssumption DEF Assets
  <2>3. appended[w] # <<>>
    <3>1. appended[w] = <<>> => log' = log
      BY <2>1
    <3>2. QED
      BY <1>1, <3>1 DEF Revisions
  <2> DEFINE r == appended[w][1]
  <2>4. /\ Len(appended[w]) = 1 /\ log' = log \cup {r}
        /\ r.leaves = call[w].content /\ r.version = cursor + 1
    BY <2>1, <2>2, <2>3 DEF TransactionOK, LogsOnce, Numbered
  <2>5. r.asset = a
    BY <1>1, <2>4 DEF Revisions
  <2>6. \A q \in log : q.version <= cursor /\ q.version \in Nat /\ cursor \in Nat
    <3>1. cursor \in Nat /\ \A q \in log : q.version \in 1..cursor
      BY <1>1 DEF CatalogInv, VersionsAreDense, TypeOK
    <3>2. QED
      BY <3>1
  <2>7. r \in Revisions(a)' /\ \A q \in Revisions(a)' : q.version <= r.version /\ (q # r => q.version < r.version)
    BY <1>1, <2>4, <2>5, <2>6 DEF Revisions, CatalogInv, TypeOK
  <2>8. Latest(a)' = r.leaves
    <3> DEFINE newest == CHOOSE q \in Revisions(a)' : \A x \in Revisions(a)' : x.version <= q.version
    <3>1. newest \in Revisions(a)' /\ r.version <= newest.version
      BY <2>7
    <3>2. newest = r
      BY <1>1, <2>4, <2>5, <2>6, <2>7, <3>1 DEF Revisions
    <3>3. Revisions(a)' # {}
      BY <2>7
    <3>4. QED
      BY <3>2, <3>3 DEF Latest
  <2>9. QED
    BY <2>1, <2>4, <2>8
<1>2. ASSUME CatalogInv, [Next]_vars
      PROVE  [\A a \in Assets : row'[a] # row[a] /\ Revisions(a)' # Revisions(a)
                => row'[a] = Latest(a)']_vars
  <2>1. UNCHANGED tables \/ \E w \in Writers : Commit(w)
    BY <1>2 DEF Next, Begin, Step, Locking, Read, AllLogged, LookUpKey, LockScope, WriteRow,
                AppendRevision, Rejected, RollBack, DeadlockVictim, vars
  <2>2. CASE UNCHANGED tables
    BY <2>2 DEF tables
  <2>3. CASE \E w \in Writers : Commit(w)
    BY <1>1, <1>2, <2>3
  <2>4. QED
    BY <2>1, <2>2, <2>3
<1>3. QED
  BY <1>2, CatalogInit, CatalogNext, PTL DEF Spec, LoggedWritesAreLatest
=============================================================================
