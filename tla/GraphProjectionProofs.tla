----------------------- MODULE GraphProjectionProofs -----------------------
(***************************************************************************)
(* Proofs about GraphProjection for every set of scopes, rows and workers, *)
(* every retry limit and every number of faults.                           *)
(***************************************************************************)
EXTENDS GraphProjection, TLAPS

\* A command appends its rows with some version, READ COMMITTED or not.
LEMMA PublishesAppend ==
  ASSUME TypeOK, NEW s \in Scopes, NEW E \in SUBSET Events,
         Publish(s, E) \/ \E v \in 1 .. head[s] : PublishFromSnapshot(s, E, v)
  PROVE  \E v \in Nat \ {0} : Append(s, E, v)
BY DEF TypeOK, Publish, PublishFromSnapshot

\* Every step keeps every variable in its type.
LEMMA TypeStep ==
  ASSUME TypeOK, [Next]_vars
  PROVE  TypeOK'
<1> USE ConstantsAssumption DEF TypeOK, Statuses, Places, Stages, Claims, Requests, rowVars, historyVars, workerVars, gatewayVars
<1>1. ASSUME NEW s \in Scopes, NEW E \in SUBSET Events, NEW v \in Nat, Append(s, E, v)
      PROVE  TypeOK'
  <2>1. head' \in [Scopes -> Nat] /\ version' \in [Events -> Nat]
    BY <1>1 DEF Append
  <2>2. status' \in [Events -> Statuses] /\ due' \in [Events -> BOOLEAN]
    BY <1>1 DEF Append
  <2>3. late' \in SUBSET Events /\ covered' \in SUBSET Events
    BY <1>1 DEF Append
  <2>4. QED
    BY <1>1, <2>1, <2>2, <2>3 DEF Append
<1>2. ASSUME NEW s \in Scopes, Archive(s)
      PROVE  TypeOK'
  BY <1>2 DEF Archive
<1>3. ASSUME NEW w \in Workers, NEW S \in SUBSET Events, Claim(w, S)
      PROVE  TypeOK'
  <2>1. status' \in [Events -> Statuses] /\ due' \in [Events -> BOOLEAN]
    BY <1>3 DEF Claim
  <2>2. owner' \in [Events -> Workers \cup {NoWorker}] /\ attempts' \in [Events -> Nat]
    BY <1>3 DEF Claim
  <2>3. {[event |-> e, attempt |-> attempts[e] + 1] : e \in S} \in SUBSET Claims
    OBVIOUS
  <2>4. batch' \in [Workers -> SUBSET Claims]
    BY <1>3, <2>3 DEF Claim
  <2>5. QED
    BY <1>3, <2>1, <2>2, <2>4 DEF Claim
<1>4. ASSUME NEW w \in Workers, NEW c \in batch[w], Send(w, c)
      PROVE  TypeOK'
  BY <1>4 DEF Send
<1>5. ASSUME NEW w \in Workers, NEW c \in cur[w], Reply(w, c)
      PROVE  TypeOK'
  BY <1>5 DEF Reply
<1>6. ASSUME NEW w \in Workers, NEW e \in Events, CompleteRow(w, e)
      PROVE  /\ status' \in [Events -> Statuses]
             /\ owner' \in [Events -> Workers \cup {NoWorker}]
             /\ due' \in [Events -> BOOLEAN]
             /\ checkpoint' \in [Scopes -> Nat]
  <2>1. ASSUME AdvanceCheckpoint(ScopeOf[e], Completed(e))
        PROVE  checkpoint' \in [Scopes -> Nat]
    <3>1. ContiguousVersions(ScopeOf[e], Completed(e)) \subseteq Nat
      BY DEF ContiguousVersions
    <3>2. QED
      BY <2>1, <3>1 DEF AdvanceCheckpoint
  <2>2. QED
    BY <1>6, <2>1 DEF CompleteRow, Completed
<1>7. ASSUME NEW w \in Workers, NEW c \in cur[w], Complete(w, c)
      PROVE  TypeOK'
  BY <1>6, <1>7 DEF Complete
<1>8. ASSUME NEW w \in Workers, NEW c \in cur[w], CompleteThrows(w, c)
      PROVE  TypeOK'
  BY <1>6, <1>8 DEF CompleteThrows
<1>9. ASSUME NEW w \in Workers, NEW c \in cur[w], RetryOrDeadLetter(w, c)
      PROVE  TypeOK'
  BY <1>9 DEF RetryOrDeadLetter
<1>10. ASSUME NEW w \in Workers, NEW c \in cur[w], Timeout(w, c)
       PROVE  TypeOK'
  BY <1>10 DEF Timeout
<1>11. ASSUME NEW w \in Workers, Abort(w)
       PROVE  TypeOK'
  BY <1>11 DEF Abort
<1>12. ASSUME NEW e \in Events, TimePasses(e)
       PROVE  TypeOK'
  BY <1>12 DEF TimePasses
<1>13. ASSUME NEW r \in requests, WriteElements(r)
       PROVE  TypeOK'
  BY <1>13 DEF WriteElements
<1>14. ASSUME NEW r \in requests, WriteCheckpoint(r)
       PROVE  TypeOK'
  BY <1>14 DEF WriteCheckpoint, Finish
<1>15. ASSUME NEW r \in requests, StatementFails(r)
       PROVE  TypeOK'
  BY <1>15 DEF StatementFails, Finish
<1>16. CASE UNCHANGED vars
  BY <1>16 DEF vars
<1>17. QED
  BY <1>1, <1>2, <1>3, <1>4, <1>5, <1>7, <1>8, <1>9, <1>10, <1>11, <1>12, <1>13, <1>14, <1>15, <1>16,
     PublishesAppend
     DEF Next, WorkerStep, WorkerFault, GatewayStep

\* The projector keeps every variable in its type.
THEOREM TypeCorrect == Spec => []TypeOK
<1>1. Init => TypeOK
  BY ConstantsAssumption DEF Init, TypeOK, Statuses, Places
<1>2. TypeOK /\ [Next]_vars => TypeOK'
  BY TypeStep
<1>3. QED
  BY <1>1, <1>2, PTL DEF Spec

-----------------------------------------------------------------------------
(* The inductive invariant: the three safety invariants, and what they rest *)
(* on.                                                                      *)

\* A row exists from the moment it has a version, no version is above the
\* head of its scope, and no checkpoint either.
RowsAreVersioned ==
  /\ \A e \in Events :
       /\ status[e] = "ABSENT" <=> version[e] = 0
       /\ version[e] <= head[ScopeOf[e]]
       /\ status[e] = "ABSENT" => attempts[e] = 0
  /\ \A s \in Scopes : checkpoint[s] <= head[s]

\* Claims are about rows that exist, and a worker that still owns a row holds
\* its latest claim.
ClaimsAreCurrent ==
  /\ \A w \in Workers : \A c \in batch[w] \cup cur[w] :
       /\ status[c.event] # "ABSENT"
       /\ Owns(w, c.event) => c.attempt = attempts[c.event]
  /\ \A r \in requests : status[r.claim.event] # "ABSENT"

\* Between two rows a worker processes none; what it saw acknowledged, and
\* what the gateway reports as done, has been applied.
RepliesAreApplied ==
  /\ \A w \in Workers : pc[w] = "ready" => cur[w] = {}
  /\ \A w \in Workers : pc[w] = "acked" => \A c \in cur[w] : c.event \in applied
  /\ \A r \in requests : r.stage = "done" => r.claim.event \in applied

\* Rows complete in the order of their versions.
CompletedInOrder == \A e \in Events : status[e] = "COMPLETED" => InOrder(e)

DeliveryInv ==
  /\ TypeOK
  /\ RowsAreVersioned
  /\ ClaimsAreCurrent
  /\ RepliesAreApplied
  /\ NoOvertaking
  /\ CompletedInOrder
  /\ CheckpointIsSound
  /\ RetryBudget

\* Everything a reader of the outbox relies on only grows: rows keep their
\* version, settled rows stay settled, dead letters are only archived, applied
\* events stay applied.  A new row gets a version above the head of its scope
\* or is late, and one written at or below the checkpoint is covered.
RowsGrow ==
  /\ \A e \in Events :
       /\ status[e] # "ABSENT" => status'[e] # "ABSENT" /\ version'[e] = version[e]
       /\ Settled(e) => status'[e] = status[e]
       /\ status[e] = "DEAD_LETTER" => status'[e] \in {"DEAD_LETTER", "ARCHIVED"}
       /\ status[e] = "ABSENT" /\ status'[e] # "ABSENT" =>
            /\ version'[e] \in Nat \ {0} /\ version'[e] <= head'[ScopeOf[e]]
            /\ version'[e] > head[ScopeOf[e]] \/ e \in late'
            /\ version'[e] > checkpoint[ScopeOf[e]] \/ e \in covered'
            /\ status'[e] = "PENDING" /\ attempts'[e] = attempts[e]
            /\ UNCHANGED checkpoint
       /\ status[e] = "ABSENT" /\ status'[e] = "ABSENT" => version'[e] = version[e]
  /\ \A s \in Scopes : head'[s] >= head[s]
  /\ applied \subseteq applied' /\ late \subseteq late' /\ covered \subseteq covered'

\* No step forgets a row, a completed row, a checkpoint or an execution.
LEMMA StepRowsGrow ==
  ASSUME TypeOK, RowsAreVersioned, ClaimsAreCurrent, [Next]_vars
  PROVE  RowsGrow
<1> USE ConstantsAssumption DEF TypeOK, Settled, SettledIn, RowsGrow, historyVars
<1>1. ASSUME NEW s \in Scopes, NEW E \in SUBSET Events, NEW v \in Nat \ {0}, Append(s, E, v)
      PROVE  RowsGrow
  <2>1. /\ \A t \in Scopes : head'[t] >= head[t]
        /\ v <= head'[s]
        /\ v > head[s] \/ E \subseteq late'
        /\ v > checkpoint[s] \/ E \subseteq covered'
        /\ late \subseteq late' /\ covered \subseteq covered'
    BY <1>1 DEF Append
  <2>2. \A e \in Events : e \in E => ScopeOf[e] = s /\ status[e] = "ABSENT"
    BY <1>1 DEF Append
  <2>3. QED
    BY <1>1, <2>1, <2>2 DEF Append, gatewayVars
<1>2. ASSUME NEW s \in Scopes, Archive(s)
      PROVE  RowsGrow
  BY <1>2 DEF Archive, gatewayVars
<1>3. ASSUME NEW w \in Workers, NEW S \in SUBSET Events, Claim(w, S)
      PROVE  RowsGrow
  BY <1>3 DEF Claim, Claimable, gatewayVars
<1>4. ASSUME NEW w \in Workers, NEW c \in cur[w], CompleteRow(w, c.event),
             UNCHANGED <<head, version, historyVars, gatewayVars>>
      PROVE  RowsGrow
  <2>1. c.event \in Events
    BY DEF Claims
  <2>2. QED
    BY <1>4, <2>1 DEF CompleteRow, Completed, Owns, gatewayVars
<1>5. ASSUME NEW w \in Workers, NEW c \in cur[w], RetryOrDeadLetter(w, c)
      PROVE  RowsGrow
  <2>1. c.event \in Events
    BY DEF Claims
  <2>2. QED
    BY <1>5, <2>1 DEF RetryOrDeadLetter, Owns, gatewayVars
<1>6. ASSUME UNCHANGED <<head, version, historyVars, status>>, applied \subseteq applied'
      PROVE  RowsGrow
  BY <1>6
<1>7. QED
  BY <1>1, <1>2, <1>3, <1>4, <1>5, <1>6, PublishesAppend
     DEF Next, WorkerStep, WorkerFault, GatewayStep, Complete, CompleteThrows, Send, Reply,
         Timeout, Abort, TimePasses, WriteElements, WriteCheckpoint, StatementFails,
         vars, rowVars, gatewayVars

\* A row whose scope was in order stays so: rows that appear later have a
\* larger version or are late.
LEMMA InOrderStable ==
  ASSUME TypeOK, RowsAreVersioned, RowsGrow,
         NEW e \in Events, status[e] # "ABSENT", InOrder(e)
  PROVE  InOrder(e)'
<1> USE ConstantsAssumption DEF TypeOK, RowsAreVersioned, RowsGrow, Settled, SettledIn
<1> SUFFICES ASSUME NEW f \in Events, Earlier(f, e)'
             PROVE  Settled(f)' \/ f \in late'
  BY DEF InOrder
<1>1. CASE status[f] # "ABSENT"
  <2>1. Earlier(f, e)
    BY <1>1 DEF Earlier
  <2>2. QED
    BY <2>1 DEF InOrder
<1>2. CASE status[f] = "ABSENT"
  <2>1. version'[f] > head[ScopeOf[e]] \/ f \in late'
    BY <1>2 DEF Earlier
  <2>2. version'[e] <= head[ScopeOf[e]]
    OBVIOUS
  <2>3. QED
    BY <2>1, <2>2 DEF Earlier
<1>3. QED
  BY <1>1, <1>2

\* Whatever a worker or the gateway holds after a step it, or the worker that
\* sent it, held before, or it has just been claimed.
LEMMA ClaimsOrigin ==
  ASSUME TypeOK, [Next]_vars
  PROVE  /\ \A w \in Workers : \A c \in batch'[w] \cup cur'[w] :
              \/ c \in batch[w] \cup cur[w]
              \/ c.event \in Events /\ Claimable(c.event)
         /\ \A r \in requests' :
              \/ \E q \in requests : q.claim = r.claim
              \/ \E w \in Workers : r.claim \in batch[w]
<1> DEFINE Goal == /\ \A w \in Workers : \A c \in batch'[w] \cup cur'[w] :
                       \/ c \in batch[w] \cup cur[w]
                       \/ c.event \in Events /\ Claimable(c.event)
                  /\ \A r \in requests' :
                       \/ \E q \in requests : q.claim = r.claim
                       \/ \E w \in Workers : r.claim \in batch[w]
<1> USE DEF TypeOK, Requests
<1>1. ASSUME NEW w \in Workers, NEW S \in SUBSET Events, Claim(w, S)
      PROVE  Goal
  BY <1>1 DEF Claim, gatewayVars
<1>2. ASSUME NEW w \in Workers, NEW c \in batch[w], Send(w, c)
      PROVE  Goal
  BY <1>2 DEF Send
<1>3. ASSUME NEW w \in Workers, NEW c \in cur[w], Reply(w, c) \/ Timeout(w, c)
      PROVE  Goal
  BY <1>3 DEF Reply, Timeout
<1>4. ASSUME NEW w \in Workers, NEW c \in cur[w],
             Complete(w, c) \/ CompleteThrows(w, c) \/ RetryOrDeadLetter(w, c)
      PROVE  Goal
  BY <1>4 DEF Complete, CompleteThrows, RetryOrDeadLetter, gatewayVars
<1>5. ASSUME NEW w \in Workers, Abort(w)
      PROVE  Goal
  BY <1>5 DEF Abort, gatewayVars
<1>6. ASSUME NEW r \in requests,
             WriteElements(r) \/ WriteCheckpoint(r) \/ StatementFails(r)
      PROVE  Goal
  BY <1>6 DEF WriteElements, WriteCheckpoint, StatementFails, Finish, workerVars
<1>7. ASSUME UNCHANGED <<batch, cur, requests>>
      PROVE  Goal
  BY <1>7
<1>8. QED
  BY <1>1, <1>2, <1>3, <1>4, <1>5, <1>6, <1>7
     DEF Next, WorkerStep, WorkerFault, GatewayStep, Publish, PublishFromSnapshot, Append, Archive, TimePasses,
         vars, workerVars, gatewayVars

\* A checkpoint moves only because an owned row e completes: forward, to the
\* version of a completed row d up to which every row is settled.
CheckpointMove(s, e, d) ==
  /\ ScopeOf[e] = s /\ status[e] = "DELIVERING" /\ status' = Completed(e)
  /\ ScopeOf[d] = s /\ status'[d] = "COMPLETED"
  /\ checkpoint' = [checkpoint EXCEPT ![s] = version[d]]
  /\ checkpoint[s] < version[d]
  /\ \A f \in Events :
       status[f] # "ABSENT" /\ ScopeOf[f] = s /\ version[f] <= version[d]
       => SettledIn(status', f)
  /\ UNCHANGED <<head, version>>

\* When the worker completes a row, every row up to the checkpoint it writes is
\* settled, and no other scope's checkpoint moves.
LEMMA CompleteRowCheckpoint ==
  ASSUME DeliveryInv, NEW w \in Workers, NEW c \in cur[w], CompleteRow(w, c.event),
         UNCHANGED <<head, version>>
  PROVE  UNCHANGED checkpoint \/ \E s \in Scopes, d \in Events : CheckpointMove(s, c.event, d)
<1> USE ConstantsAssumption DEF DeliveryInv, TypeOK
<1>1. c.event \in Events
  BY DEF Claims
<1> SUFFICES ASSUME checkpoint' # checkpoint
             PROVE  \E s \in Scopes, d \in Events : CheckpointMove(s, c.event, d)
  OBVIOUS
<1> DEFINE e == c.event
           s == ScopeOf[e]
           C == ContiguousVersions(s, Completed(e))
<1>2. Owns(w, e) /\ status' = Completed(e) /\ AdvanceCheckpoint(s, Completed(e))
  BY DEF CompleteRow
<1>3. PICK v \in C : checkpoint' = [checkpoint EXCEPT ![s] = IF v > @ THEN v ELSE @]
  BY <1>2 DEF AdvanceCheckpoint
<1>4. PICK d \in Events :
        /\ v = version[d] /\ ScopeOf[d] = s /\ Completed(e)[d] = "COMPLETED"
        /\ \A f \in Events :
             Completed(e)[f] # "ABSENT" /\ ScopeOf[f] = s /\ version[f] <= version[d]
             => SettledIn(Completed(e), f)
  BY <1>3 DEF ContiguousVersions
<1>5. s \in Scopes /\ status[e] = "DELIVERING"
  BY <1>1, <1>2 DEF Owns
<1>6. v > checkpoint[s] /\ checkpoint' = [checkpoint EXCEPT ![s] = version[d]]
  BY <1>3, <1>4, <1>5
<1>7. \A f \in Events :
        status[f] # "ABSENT" /\ ScopeOf[f] = s /\ version[f] <= version[d]
        => SettledIn(status', f)
  BY <1>1, <1>2, <1>4 DEF Completed
<1>8. CheckpointMove(s, e, d)
  BY <1>2, <1>4, <1>5, <1>6, <1>7 DEF CheckpointMove
<1>9. QED
  BY <1>5, <1>8

\* A checkpoint that a step moves has only settled rows below it.
LEMMA CheckpointStep ==
  ASSUME DeliveryInv, [Next]_vars
  PROVE  \/ UNCHANGED checkpoint
         \/ \E w \in Workers : \E c \in cur[w] : \E s \in Scopes, d \in Events :
              /\ CheckpointMove(s, c.event, d)
              /\ pc[w] = "acked" /\ UNCHANGED <<applied, attempts>>
<1> DEFINE Goal == \/ UNCHANGED checkpoint
                  \/ \E w \in Workers : \E c \in cur[w] : \E s \in Scopes, d \in Events :
                       /\ CheckpointMove(s, c.event, d)
                       /\ pc[w] = "acked" /\ UNCHANGED <<applied, attempts>>
<1>1. ASSUME NEW w \in Workers, NEW c \in cur[w], Complete(w, c) \/ CompleteThrows(w, c)
      PROVE  Goal
  <2>1. CASE CompleteRow(w, c.event)
    BY <1>1, <2>1, CompleteRowCheckpoint DEF Complete, CompleteThrows, gatewayVars
  <2>2. QED
    BY <1>1, <2>1 DEF Complete, CompleteThrows
<1>2. QED
  BY <1>1 DEF Next, WorkerStep, WorkerFault, GatewayStep, Publish, PublishFromSnapshot, Append, Archive, Claim, Send, Reply,
     RetryOrDeadLetter, Timeout, Abort, TimePasses, WriteElements, WriteCheckpoint,
     StatementFails, vars

-----------------------------------------------------------------------------
(* Every conjunct of the invariant is preserved by every step.             *)

\* A row gets its version when it is published; versions and checkpoints stay at
\* or below the head of their scope.
LEMMA RowsAreVersionedStep ==
  ASSUME DeliveryInv, [Next]_vars
  PROVE  RowsAreVersioned'
<1> USE ConstantsAssumption DEF DeliveryInv, TypeOK, RowsAreVersioned
<1>1. RowsGrow
  BY StepRowsGrow
<1>2. TypeOK'
  BY TypeStep
<1>3. \A e \in Events : /\ status'[e] = "ABSENT" <=> version'[e] = 0
                        /\ version'[e] <= head'[ScopeOf[e]]
  BY <1>1, <1>2 DEF RowsGrow
<1>4. \A s \in Scopes : checkpoint'[s] <= head'[s]
  BY <1>1, <1>2, CheckpointStep DEF RowsGrow, CheckpointMove
<1>5. \A e \in Events : status'[e] = "ABSENT" => status[e] = "ABSENT" /\ attempts'[e] = attempts[e]
  <2>1. ASSUME NEW w \in Workers, NEW S \in SUBSET Events, Claim(w, S)
        PROVE  \A e \in Events : status'[e] = "ABSENT" => attempts'[e] = attempts[e]
    BY <2>1 DEF Claim
  <2>2. ASSUME UNCHANGED attempts
        PROVE  \A e \in Events : status'[e] = "ABSENT" => attempts'[e] = attempts[e]
    BY <2>2
  <2>3. \A e \in Events : status'[e] = "ABSENT" => attempts'[e] = attempts[e]
    BY <2>1, <2>2 DEF Next, WorkerStep, WorkerFault, GatewayStep, Publish, PublishFromSnapshot, Append, Archive, Send, Reply,
       Complete, CompleteThrows, RetryOrDeadLetter, Timeout, Abort, TimePasses, WriteElements,
       WriteCheckpoint, StatementFails, vars, rowVars
  <2>4. QED
    BY <1>1, <2>3 DEF RowsGrow
<1>6. QED
  BY <1>3, <1>4, <1>5

\* A row that starts to be held had every earlier row of its scope settled.
LEMMA NoOvertakingStep ==
  ASSUME DeliveryInv, [Next]_vars
  PROVE  NoOvertaking'
<1> USE DEF DeliveryInv, TypeOK, NoOvertaking, ClaimsAreCurrent
<1>1. RowsGrow
  BY StepRowsGrow
<1>2. ASSUME NEW e \in Events, status[e] # "ABSENT", InOrder(e)
      PROVE  InOrder(e)'
  BY <1>1, <1>2, InOrderStable
<1>3. ASSUME NEW w \in Workers, NEW c \in batch[w] \cup cur[w]
      PROVE  InOrder(c.event)'
  <2>1. c.event \in Events
    BY DEF Claims
  <2>2. QED
    BY <1>2, <2>1
<1>4. ASSUME NEW w \in Workers, NEW c \in (batch[w] \cup cur[w])'
      PROVE  InOrder(c.event)'
  <2>1. CASE c \in batch[w] \cup cur[w]
    BY <1>3, <2>1
  <2>2. CASE c.event \in Events /\ Claimable(c.event)
    BY <1>2, <2>2 DEF Claimable, InOrder
  <2>3. QED
    BY <2>1, <2>2, ClaimsOrigin
<1>5. ASSUME NEW r \in requests'
      PROVE  InOrder(r.claim.event)'
  <2>1. ASSUME NEW q \in requests, q.claim = r.claim
        PROVE  InOrder(r.claim.event)'
    <3>1. q.claim.event \in Events
      BY DEF Requests, Claims
    <3>2. QED
      BY <1>2, <2>1, <3>1
  <2>2. ASSUME NEW w \in Workers, r.claim \in batch[w]
        PROVE  InOrder(r.claim.event)'
    BY <1>3, <2>2
  <2>3. QED
    BY <2>1, <2>2, ClaimsOrigin
<1>6. QED
  BY <1>4, <1>5

\* A row completes only while a worker owns it.
LEMMA CompletionOrigin ==
  ASSUME DeliveryInv, [Next]_vars, NEW e \in Events,
         status'[e] = "COMPLETED", status[e] # "COMPLETED"
  PROVE  \E w \in Workers : \E c \in cur[w] :
           c.event = e /\ pc[w] = "acked" /\ Owns(w, e) /\ status' = Completed(e)
<1> USE ConstantsAssumption DEF DeliveryInv, TypeOK
<1> DEFINE Goal == \E w \in Workers : \E c \in cur[w] :
                    c.event = e /\ pc[w] = "acked" /\ Owns(w, e) /\ status' = Completed(e)
<1>1. ASSUME NEW w \in Workers, NEW c \in cur[w], Complete(w, c) \/ CompleteThrows(w, c)
      PROVE  Goal
  <2>1. c.event \in Events
    BY DEF Claims
  <2>2. QED
    BY <1>1, <2>1 DEF Complete, CompleteThrows, CompleteRow, Completed
<1>2. ASSUME NEW w \in Workers, NEW c \in cur[w], RetryOrDeadLetter(w, c)
      PROVE  FALSE
  <2>1. c.event \in Events
    BY DEF Claims
  <2>2. QED
    BY <1>2, <2>1 DEF RetryOrDeadLetter
<1>3. ASSUME NEW s \in Scopes, NEW E \in SUBSET Events, NEW v \in Nat \ {0}, Append(s, E, v)
      PROVE  FALSE
  BY <1>3 DEF Append
<1>4. ASSUME NEW s \in Scopes, Archive(s)
      PROVE  FALSE
  BY <1>4 DEF Archive
<1>5. ASSUME NEW w \in Workers, NEW S \in SUBSET Events, Claim(w, S)
      PROVE  FALSE
  BY <1>5 DEF Claim
<1>6. ASSUME UNCHANGED status
      PROVE  FALSE
  BY <1>6
<1>7. QED
  BY <1>1, <1>2, <1>3, <1>4, <1>5, <1>6, PublishesAppend
     DEF Next, WorkerStep, WorkerFault, GatewayStep, Send, Reply, Timeout, Abort, TimePasses,
         WriteElements, WriteCheckpoint, StatementFails, vars, rowVars

\* A row that completes had every earlier row of its scope settled.
LEMMA CompletedInOrderStep ==
  ASSUME DeliveryInv, [Next]_vars
  PROVE  CompletedInOrder'
<1> USE DEF DeliveryInv
<1>1. RowsGrow
  BY StepRowsGrow
<1> SUFFICES ASSUME NEW e \in Events, status'[e] = "COMPLETED"
             PROVE  InOrder(e)'
  BY DEF CompletedInOrder
<1>2. status[e] # "ABSENT" /\ InOrder(e)
  <2>1. CASE status[e] = "COMPLETED"
    BY <2>1 DEF CompletedInOrder
  <2>2. CASE status[e] # "COMPLETED"
    BY <2>2, CompletionOrigin DEF NoOvertaking, ClaimsAreCurrent
  <2>3. QED
    BY <2>1, <2>2
<1>3. QED
  BY <1>1, <1>2, InOrderStable

\* A checkpoint moves over settled rows, and a row completes after its execution.
LEMMA CheckpointIsSoundStep ==
  ASSUME DeliveryInv, [Next]_vars
  PROVE  CheckpointIsSound'
<1> USE ConstantsAssumption DEF DeliveryInv, TypeOK
<1>1. RowsGrow
  BY StepRowsGrow
<1>2. ASSUME NEW e \in Events, status'[e] = "COMPLETED"
      PROVE  e \in applied'
  <2>1. e \in applied
    BY <1>2, CompletionOrigin DEF CheckpointIsSound, RepliesAreApplied
  <2>2. QED
    BY <1>1, <2>1 DEF RowsGrow
<1>3. ASSUME NEW e \in Events, status'[e] # "ABSENT", version'[e] <= checkpoint'[ScopeOf[e]]
      PROVE  Settled(e)' \/ e \in covered'
  <2>1. CASE UNCHANGED checkpoint
    BY <1>1, <1>3, <2>1 DEF RowsGrow, RowsAreVersioned, CheckpointIsSound, Settled, SettledIn
  <2>2. ASSUME NEW s \in Scopes, NEW f \in Events, NEW d \in Events, CheckpointMove(s, f, d)
        PROVE  Settled(e)' \/ e \in covered'
    <3>1. status[e] # "ABSENT" /\ version'[e] = version[e]
      BY <1>3, <2>2 DEF CheckpointMove, Completed
    <3>2. CASE ScopeOf[e] = s
      BY <1>3, <2>2, <3>1, <3>2 DEF CheckpointMove, Settled
    <3>3. CASE ScopeOf[e] # s
      BY <1>1, <1>3, <2>2, <3>1, <3>3 DEF CheckpointMove, RowsGrow, CheckpointIsSound, Settled, SettledIn
    <3>4. QED
      BY <3>2, <3>3
  <2>3. \A w \in Workers : \A c \in cur[w] : c.event \in Events
    BY DEF Claims
  <2>4. QED
    BY <2>1, <2>2, <2>3, CheckpointStep
<1>4. QED
  BY <1>2, <1>3 DEF CheckpointIsSound

\* Attempts are counted on every claim, and rows without attempts left are not
\* made to wait.
LEMMA RetryBudgetStep ==
  ASSUME DeliveryInv, [Next]_vars
  PROVE  RetryBudget'
<1> USE ConstantsAssumption DEF DeliveryInv, TypeOK, RetryBudget
<1>1. ASSUME NEW s \in Scopes, NEW E \in SUBSET Events, NEW v \in Nat \ {0}, Append(s, E, v)
      PROVE  RetryBudget'
  BY <1>1 DEF Append, RowsAreVersioned
<1>2. ASSUME NEW s \in Scopes, Archive(s)
      PROVE  RetryBudget'
  BY <1>2 DEF Archive
<1>3. ASSUME NEW w \in Workers, NEW S \in SUBSET Events, Claim(w, S)
      PROVE  RetryBudget'
  BY <1>3 DEF Claim
<1>4. ASSUME NEW w \in Workers, NEW c \in cur[w], Complete(w, c) \/ CompleteThrows(w, c)
      PROVE  RetryBudget'
  BY <1>4 DEF Complete, CompleteThrows, CompleteRow, Completed
<1>5. ASSUME NEW w \in Workers, NEW c \in cur[w], RetryOrDeadLetter(w, c)
      PROVE  RetryBudget'
  <2>1. c.event \in Events /\ c.attempt \in Nat
    BY DEF Claims
  <2>2. Owns(w, c.event) => c.attempt = attempts[c.event]
    BY DEF ClaimsAreCurrent
  <2>3. QED
    BY <1>5, <2>1, <2>2 DEF RetryOrDeadLetter, LastAttempt
<1>6. ASSUME UNCHANGED <<status, attempts>>
      PROVE  RetryBudget'
  BY <1>6
<1>7. QED
  BY <1>1, <1>2, <1>3, <1>4, <1>5, <1>6, PublishesAppend
     DEF Next, WorkerStep, WorkerFault, GatewayStep, Send, Reply, Timeout, Abort, TimePasses,
         WriteElements, WriteCheckpoint, StatementFails, vars, rowVars

\* The part of ClaimsAreCurrent that is about one worker and one claim.
LEMMA LatestClaimStep ==
  ASSUME DeliveryInv, [Next]_vars,
         NEW v \in Workers, NEW d \in (batch[v] \cup cur[v])', Owns(v, d.event)'
  PROVE  d.attempt = attempts'[d.event]
<1> USE ConstantsAssumption DEF DeliveryInv, TypeOK
<1>1. d.event \in Events
  BY TypeStep DEF Claims
<1>2. ASSUME NEW w \in Workers, NEW S \in SUBSET Events, Claim(w, S)
      PROVE  d.attempt = attempts'[d.event]
  <2>1. CASE v = w
    <3>1. d \in {[event |-> e, attempt |-> attempts[e] + 1] : e \in S}
      BY <1>2, <2>1 DEF Claim, RepliesAreApplied
    <3>2. PICK e \in S : d = [event |-> e, attempt |-> attempts[e] + 1]
      BY <3>1
    <3>3. QED
      BY <1>2, <3>2 DEF Claim
  <2>2. CASE v # w
    BY <1>1, <1>2, <2>2 DEF Claim, Owns, ClaimsAreCurrent
  <2>3. QED
    BY <2>1, <2>2
<1>3. ASSUME UNCHANGED attempts, Owns(v, d.event), d \in batch[v] \cup cur[v]
      PROVE  d.attempt = attempts'[d.event]
  BY <1>3 DEF ClaimsAreCurrent
<1>4. ASSUME NEW s \in Scopes, NEW E \in SUBSET Events, NEW u \in Nat \ {0}, Append(s, E, u)
      PROVE  d.attempt = attempts'[d.event]
  BY <1>1, <1>3, <1>4 DEF Append, Owns, workerVars
<1>5. ASSUME NEW s \in Scopes, Archive(s)
      PROVE  d.attempt = attempts'[d.event]
  BY <1>1, <1>3, <1>5 DEF Archive, Owns, workerVars
<1>6. ASSUME NEW w \in Workers, NEW c \in cur[w], Complete(w, c) \/ CompleteThrows(w, c)
      PROVE  d.attempt = attempts'[d.event]
  BY <1>1, <1>3, <1>6 DEF Complete, CompleteThrows, CompleteRow, Completed, Owns
<1>7. ASSUME NEW w \in Workers, NEW c \in cur[w], RetryOrDeadLetter(w, c)
      PROVE  d.attempt = attempts'[d.event]
  BY <1>1, <1>3, <1>7 DEF RetryOrDeadLetter, Owns
<1>8. ASSUME NEW w \in Workers, NEW c \in batch[w], Send(w, c)
      PROVE  d.attempt = attempts'[d.event]
  BY <1>1, <1>3, <1>8 DEF Send, Owns, rowVars
<1>9. ASSUME NEW w \in Workers, Abort(w)
      PROVE  d.attempt = attempts'[d.event]
  BY <1>1, <1>3, <1>9 DEF Abort, Owns, rowVars
<1>10. ASSUME UNCHANGED <<status, owner, attempts, batch, cur>>
       PROVE  d.attempt = attempts'[d.event]
  BY <1>1, <1>3, <1>10 DEF Owns
<1>11. QED
  BY <1>2, <1>4, <1>5, <1>6, <1>7, <1>8, <1>9, <1>10, PublishesAppend
     DEF Next, WorkerStep, WorkerFault, GatewayStep, Reply, Timeout, TimePasses,
         WriteElements, WriteCheckpoint, StatementFails, vars, rowVars, workerVars

\* A reply of success comes from an execution that reached its end.
LEMMA RepliesAreAppliedStep ==
  ASSUME DeliveryInv, [Next]_vars
  PROVE  RepliesAreApplied'
<1> USE DEF DeliveryInv, TypeOK, RepliesAreApplied, Requests
<1>1. ASSUME NEW w \in Workers, NEW S \in SUBSET Events, Claim(w, S)
      PROVE  RepliesAreApplied'
  BY <1>1 DEF Claim, gatewayVars
<1>2. ASSUME NEW w \in Workers, NEW c \in batch[w], Send(w, c)
      PROVE  RepliesAreApplied'
  BY <1>2 DEF Send
<1>3. ASSUME NEW w \in Workers, NEW c \in cur[w], Reply(w, c) \/ Timeout(w, c)
      PROVE  RepliesAreApplied'
  BY <1>3 DEF Reply, Timeout
<1>4. ASSUME NEW w \in Workers, NEW c \in cur[w],
             Complete(w, c) \/ CompleteThrows(w, c) \/ RetryOrDeadLetter(w, c)
      PROVE  RepliesAreApplied'
  BY <1>4 DEF Complete, CompleteThrows, RetryOrDeadLetter, gatewayVars
<1>5. ASSUME NEW w \in Workers, Abort(w)
      PROVE  RepliesAreApplied'
  BY <1>5 DEF Abort, gatewayVars
<1>6. ASSUME NEW r \in requests,
             WriteElements(r) \/ WriteCheckpoint(r) \/ StatementFails(r)
      PROVE  RepliesAreApplied'
  BY <1>6 DEF WriteElements, WriteCheckpoint, StatementFails, Finish, workerVars
<1>7. ASSUME UNCHANGED <<pc, cur, requests, applied>>
      PROVE  RepliesAreApplied'
  BY <1>7
<1>8. QED
  BY <1>1, <1>2, <1>3, <1>4, <1>5, <1>6, <1>7
     DEF Next, WorkerStep, WorkerFault, GatewayStep, Publish, PublishFromSnapshot, Append, Archive, TimePasses,
         vars, workerVars, gatewayVars

\* A claim that is still the row's owner is the latest claim of that row.
LEMMA ClaimsAreCurrentStep ==
  ASSUME DeliveryInv, [Next]_vars
  PROVE  ClaimsAreCurrent'
<1> USE DEF DeliveryInv, TypeOK
<1>1. RowsGrow
  BY StepRowsGrow
<1>2. ASSUME NEW e \in Events, status[e] # "ABSENT"
      PROVE  status'[e] # "ABSENT"
  BY <1>1, <1>2 DEF RowsGrow
<1>3. ASSUME NEW w \in Workers, NEW c \in batch[w] \cup cur[w]
      PROVE  c.event \in Events /\ status[c.event] # "ABSENT"
  BY DEF Claims, ClaimsAreCurrent
<1>4. ASSUME NEW r \in requests
      PROVE  r.claim.event \in Events /\ status[r.claim.event] # "ABSENT"
  BY DEF Claims, Requests, ClaimsAreCurrent
<1>5. ASSUME NEW w \in Workers, NEW c \in (batch[w] \cup cur[w])'
      PROVE  status'[c.event] # "ABSENT"
  BY <1>2, <1>3, ClaimsOrigin DEF Claimable
<1>6. ASSUME NEW r \in requests'
      PROVE  status'[r.claim.event] # "ABSENT"
  BY <1>2, <1>3, <1>4, ClaimsOrigin
<1>7. ASSUME NEW w \in Workers, NEW c \in (batch[w] \cup cur[w])', Owns(w, c.event)'
      PROVE  c.attempt = attempts'[c.event]
  BY <1>7, LatestClaimStep
<1>8. QED
  BY <1>5, <1>6, <1>7 DEF ClaimsAreCurrent

-----------------------------------------------------------------------------
(* The theorems.                                                           *)

\* The projector never leaves the inductive invariant.
THEOREM DeliveryInvariant == Spec => []DeliveryInv
<1>1. Init => DeliveryInv
  <2> SUFFICES ASSUME Init
               PROVE  DeliveryInv
    OBVIOUS
  <2> USE ConstantsAssumption DEF Init
  <2>1. TypeOK
    BY DEF TypeOK, Statuses, Places
  <2>2. RowsAreVersioned /\ RetryBudget /\ CompletedInOrder /\ CheckpointIsSound
    BY DEF RowsAreVersioned, RetryBudget, CompletedInOrder, CheckpointIsSound
  <2>3. ClaimsAreCurrent /\ RepliesAreApplied /\ NoOvertaking
    BY DEF ClaimsAreCurrent, RepliesAreApplied, NoOvertaking
  <2>4. QED
    BY <2>1, <2>2, <2>3 DEF DeliveryInv
<1>2. DeliveryInv /\ [Next]_vars => DeliveryInv'
  BY TypeStep, RowsAreVersionedStep, ClaimsAreCurrentStep, RepliesAreAppliedStep, NoOvertakingStep,
     CompletedInOrderStep, CheckpointIsSoundStep, RetryBudgetStep DEF DeliveryInv
<1>3. QED
  BY <1>1, <1>2, PTL DEF Spec

\* Every row up to the checkpoint of a scope is settled, and every completed
\* row has been executed by the gateway to its end.
THEOREM CheckpointSoundness == Spec => []CheckpointIsSound
BY DeliveryInvariant, PTL DEF DeliveryInv

\* No row is held or executed while a smaller version of its scope is left.
THEOREM NoOvertakingEver == Spec => []NoOvertaking
BY DeliveryInvariant, PTL DEF DeliveryInv

\* A row waits only with attempts left, and is a dead letter only without.
THEOREM RetriesAreBounded == Spec => []RetryBudget
BY DeliveryInvariant, PTL DEF DeliveryInv

\* No step, under whatever lease, undoes a terminal row.
THEOREM TerminalRowsAreFinal == Spec => TerminalIsFinal
<1>1. DeliveryInv /\ [Next]_vars =>
        [\A e \in Events :
           /\ Settled(e) => status'[e] = status[e]
           /\ status[e] = "DEAD_LETTER" => status'[e] \in {"DEAD_LETTER", "ARCHIVED"}]_vars
  BY StepRowsGrow DEF DeliveryInv, RowsGrow
<1>2. QED
  BY <1>1, DeliveryInvariant, PTL DEF Spec, TerminalIsFinal

\* A checkpoint moves forward only, with the completion of a row, and only over
\* rows that are settled, those written late included.
THEOREM CheckpointsFollowCompletion == Spec => CheckpointFollowsCompletion
<1>1. DeliveryInv /\ [Next]_vars =>
        [\A s \in Scopes :
           checkpoint'[s] # checkpoint[s] =>
             /\ checkpoint'[s] > checkpoint[s]
             /\ \E e \in Events :
                  ScopeOf[e] = s /\ status[e] = "DELIVERING" /\ status'[e] = "COMPLETED"
             /\ \A f \in Events :
                  status[f] # "ABSENT" /\ ScopeOf[f] = s /\ version[f] <= checkpoint'[s]
                  => SettledIn(status', f)]_vars
  <2> SUFFICES ASSUME DeliveryInv, [Next]_vars, NEW s \in Scopes, checkpoint'[s] # checkpoint[s]
               PROVE  /\ checkpoint'[s] > checkpoint[s]
                      /\ \E e \in Events :
                           ScopeOf[e] = s /\ status[e] = "DELIVERING" /\ status'[e] = "COMPLETED"
                      /\ \A f \in Events :
                           status[f] # "ABSENT" /\ ScopeOf[f] = s /\ version[f] <= checkpoint'[s]
                           => SettledIn(status', f)
    OBVIOUS
  <2> USE ConstantsAssumption DEF DeliveryInv, TypeOK
  <2>1. \A w \in Workers : \A c \in cur[w] : c.event \in Events
    BY DEF Claims
  <2>2. PICK e \in Events, t \in Scopes, d \in Events : CheckpointMove(t, e, d)
    BY <2>1, CheckpointStep
  <2>3. t = s
    BY <2>2 DEF CheckpointMove
  <2>4. QED
    BY <2>2, <2>3 DEF CheckpointMove, Completed
<1>2. QED
  BY <1>1, DeliveryInvariant, PTL DEF Spec, CheckpointFollowsCompletion

-----------------------------------------------------------------------------
(* Convergence: why the graph may go back, and that nothing else makes it. *)

\* The gateway writes the element of a row that has been settled: the request
\* was given up by its worker, and the row was delivered again or archived.
LateWrite == \E r \in requests : WriteElements(r) /\ Settled(r.claim.event)

\* The element of a row is a part of its scope.
ElementsAreScoped ==
  \A e, f \in Events : ElementOf[e] = ElementOf[f] => ScopeOf[e] = ScopeOf[f]

Written(e) == e \in applied \/ \E r \in requests : r.claim.event = e /\ r.stage = "written"

\* What has been written is shown as of that version or a newer one.
ElementsShow ==
  \A e \in Events :
    Written(e) => status[e] # "ABSENT" /\ InOrder(e) /\ graph[ElementOf[e]] >= version[e]

\* Where what is shown comes from after a step
LEMMA WritesOrigin ==
  ASSUME DeliveryInv, [Next]_vars
  PROVE  \/ \E r \in requests : WriteElements(r)
         \/ UNCHANGED graph /\ \A e \in Events : Written(e)' => Written(e)
<1> DEFINE Goal == UNCHANGED graph /\ \A e \in Events : Written(e)' => Written(e)
<1> USE DEF DeliveryInv, TypeOK, Requests
<1>1. ASSUME UNCHANGED <<graph, applied>>,
             \A r \in requests' : r.stage = "written" => r \in requests
      PROVE  Goal
  BY <1>1 DEF Written
<1>2. ASSUME NEW w \in Workers, NEW c \in batch[w], Send(w, c)
      PROVE  Goal
  BY <1>1, <1>2 DEF Send
<1>3. ASSUME NEW w \in Workers, NEW c \in cur[w], Reply(w, c) \/ Timeout(w, c)
      PROVE  Goal
  BY <1>1, <1>3 DEF Reply, Timeout
<1>4. ASSUME NEW w \in Workers, Abort(w)
      PROVE  Goal
  BY <1>1, <1>4 DEF Abort
<1>5. ASSUME NEW r \in requests, StatementFails(r)
      PROVE  Goal
  BY <1>1, <1>5 DEF StatementFails, Finish
<1>6. ASSUME NEW r \in requests, WriteCheckpoint(r)
      PROVE  Goal
  <2>1. \A q \in requests' : q.stage = "written" => q \in requests
    BY <1>6 DEF WriteCheckpoint, Finish
  <2>2. applied' = applied \cup {r.claim.event} /\ r.stage = "written" /\ UNCHANGED graph
    BY <1>6 DEF WriteCheckpoint
  <2>3. QED
    BY <2>1, <2>2 DEF Written
<1>7. ASSUME UNCHANGED gatewayVars
      PROVE  Goal
  BY <1>1, <1>7 DEF gatewayVars
<1>8. QED
  BY <1>2, <1>3, <1>4, <1>5, <1>6, <1>7
     DEF Next, WorkerStep, WorkerFault, GatewayStep, Publish, PublishFromSnapshot, Append, Archive, Claim, Complete,
         CompleteThrows, RetryOrDeadLetter, TimePasses, vars

\* A write that is not late is of no smaller version than what is shown: rows
\* of smaller versions were settled before the newer one was sent.
LEMMA ElementsShowStep ==
  ASSUME ElementsAreScoped, DeliveryInv, late = {}, ElementsShow, [Next]_vars, ~ LateWrite
  PROVE  ElementsShow'
<1> USE ConstantsAssumption DEF DeliveryInv
<1>1. RowsGrow
  BY StepRowsGrow
<1>2. ASSUME NEW e \in Events, status[e] # "ABSENT", InOrder(e)
      PROVE  status'[e] # "ABSENT" /\ version'[e] = version[e] /\ InOrder(e)'
  BY <1>1, <1>2, InOrderStable DEF RowsGrow
<1>3. ASSUME NEW r \in requests, WriteElements(r)
      PROVE  ElementsShow'
  <2> DEFINE f == r.claim.event
  <2>1. f \in Events /\ status[f] # "ABSENT" /\ InOrder(f) /\ ~ Settled(f)
    BY <1>3 DEF TypeOK, Requests, Claims, ClaimsAreCurrent, NoOvertaking, LateWrite
  <2>2. /\ graph' = [graph EXCEPT ![ElementOf[f]] = version[f]] /\ graph \in [Elements -> Nat]
        /\ ElementOf[f] \in Elements /\ version \in [Events -> Nat]
    BY <1>3, <2>1 DEF WriteElements, TypeOK
  <2>3. \A e \in Events : Written(e)' => Written(e) \/ e = f
    BY <1>3 DEF WriteElements, Written
  <2>4. ASSUME NEW e \in Events, Written(e)
        PROVE  status[e] # "ABSENT" /\ InOrder(e) /\ graph'[ElementOf[e]] >= version[e]
    <3>1. status[e] # "ABSENT" /\ InOrder(e) /\ graph[ElementOf[e]] >= version[e]
      BY <2>4 DEF ElementsShow
    <3>2. CASE ElementOf[e] = ElementOf[f]
      <4>1. ~ Earlier(f, e)
        BY <2>1, <3>1 DEF InOrder
      <4>2. version[f] >= version[e]
        BY <2>1, <2>2, <3>2, <4>1 DEF Earlier, ElementsAreScoped
      <4>3. QED
        BY <2>2, <3>1, <3>2, <4>2
    <3>3. CASE ElementOf[e] # ElementOf[f]
      BY <2>2, <3>1, <3>3
    <3>4. QED
      BY <3>2, <3>3
  <2>5. graph'[ElementOf[f]] >= version[f]
    BY <2>1, <2>2
  <2>6. QED
    BY <1>2, <2>1, <2>3, <2>4, <2>5 DEF ElementsShow
<1>4. CASE UNCHANGED graph /\ \A e \in Events : Written(e)' => Written(e)
  BY <1>2, <1>4 DEF ElementsShow
<1>5. QED
  BY <1>3, <1>4, WritesOrigin

\* "Replaying an event must converge on the same logical graph state": once
\* every row is completed each element shows the newest version authored for it,
\* whatever timed out, stopped or was sent twice, if no row was written late and
\* no write comes after its row has been settled; the run that refutes it has
\* such a write.
THEOREM ConvergesWithoutLateWrites ==
  ASSUME ElementsAreScoped
  PROVE  Spec /\ [](late = {}) /\ [][~ LateWrite]_vars => []GraphConverges
<1>1. Init => ElementsShow
  BY DEF Init, ElementsShow, Written
<1>2. DeliveryInv /\ late = {} /\ ElementsShow /\ [Next]_vars /\ [~ LateWrite]_vars => ElementsShow'
  <2>1. CASE UNCHANGED vars
    BY <2>1 DEF vars, rowVars, gatewayVars, ElementsShow, Written, InOrder, Earlier, Settled, SettledIn
  <2>2. QED
    BY <2>1, ElementsShowStep
<1>3. DeliveryInv /\ ElementsShow => GraphConverges
  BY DEF DeliveryInv, CheckpointIsSound, ElementsShow, Written, GraphConverges
<1>4. QED
  BY <1>1, <1>2, <1>3, DeliveryInvariant, PTL DEF Spec

-----------------------------------------------------------------------------
(* Refinement: rows, their versions, which of them are settled, and the    *)
(* checkpoints behave as OrderedDelivery says.                             *)

SettledRows == {e \in Events : Settled(e)}

\* The completion of an owned row settles it, in order.
LEMMA CompletionSettles ==
  ASSUME DeliveryInv, [Next]_vars, NEW w \in Workers, NEW c \in cur[w],
         CompleteRow(w, c.event), UNCHANGED <<head, version, late>>
  PROVE  [Ordered!Next]_(Ordered!vars)
<1> USE ConstantsAssumption DEF DeliveryInv, TypeOK, historyVars
<1> DEFINE e == c.event
<1>1. e \in Events /\ status[e] # "ABSENT"
  BY DEF Claims, ClaimsAreCurrent
<1>2. CASE ~Owns(w, e)
  <2>1. UNCHANGED <<status, checkpoint>>
    BY <1>2 DEF CompleteRow
  <2>2. SettledRows' = SettledRows
    BY <2>1 DEF SettledRows, Settled, SettledIn
  <2>3. QED
    BY <2>1, <2>2 DEF Ordered!vars, SettledRows
<1>3. CASE Owns(w, e)
  <2>1. status' = Completed(e) /\ status[e] = "DELIVERING"
    BY <1>3 DEF CompleteRow, Owns
  <2>2. SettledRows' = SettledRows \cup {e} /\ e \notin SettledRows
    BY <1>1, <2>1 DEF SettledRows, Settled, SettledIn, Completed
  <2>3. version[e] > 0
    BY <1>1 DEF RowsAreVersioned
  <2>4. \A f \in Ordered!RowsOf(ScopeOf[e]) :
          version[f] < version[e] => f \in SettledRows \cup late
    BY <1>1 DEF Ordered!RowsOf, NoOvertaking, InOrder, Earlier, SettledRows, RowsAreVersioned
  <2>5. ASSUME NEW s \in Scopes, NEW d \in Events, CheckpointMove(s, e, d)
        PROVE  /\ d \in Ordered!RowsOf(ScopeOf[e])
               /\ checkpoint[ScopeOf[e]] < version[d]
               /\ \A f \in Ordered!RowsOf(ScopeOf[e]) : version[f] <= version[d] => f \in SettledRows'
               /\ checkpoint' = [checkpoint EXCEPT ![ScopeOf[e]] = version[d]]
    BY <1>1, <2>5 DEF CheckpointMove, Ordered!RowsOf, SettledRows, Settled, RowsAreVersioned
  <2>6. UNCHANGED checkpoint \/ \E s \in Scopes, d \in Events : CheckpointMove(s, e, d)
    BY CompleteRowCheckpoint
  <2>7. Ordered!Settle(e)
    BY <1>1, <2>2, <2>3, <2>4, <2>5, <2>6 DEF Ordered!Settle, SettledRows
  <2>8. QED
    BY <1>1, <2>7 DEF Ordered!Next
<1>4. QED
  BY <1>2, <1>3

\* A step of the projector is a step of OrderedDelivery or leaves it as it is.
LEMMA StepImplements ==
  ASSUME DeliveryInv, [Next]_vars
  PROVE  [Ordered!Next]_(Ordered!vars)
<1> USE ConstantsAssumption DEF DeliveryInv, TypeOK, historyVars
<1>1. ASSUME NEW s \in Scopes, NEW E \in SUBSET Events,
             Publish(s, E) \/ \E v \in 1 .. head[s] : PublishFromSnapshot(s, E, v)
      PROVE  [Ordered!Next]_(Ordered!vars)
  <2>1. PICK v \in Nat : Append(s, E, v) /\ (v = head[s] + 1 \/ v \in 1 .. head[s])
    <3>1. head[s] + 1 \in Nat /\ 1 .. head[s] \subseteq Nat
      OBVIOUS
    <3>2. CASE Publish(s, E)
      BY <3>1, <3>2 DEF Publish
    <3>3. CASE \E v \in 1 .. head[s] : PublishFromSnapshot(s, E, v)
      BY <3>1, <3>3 DEF PublishFromSnapshot
    <3>4. QED
      BY <1>1, <3>2, <3>3
  <2>2. SettledRows' = SettledRows
    BY <2>1 DEF Append, SettledRows, Settled, SettledIn
  <2>3. \A e \in E : ScopeOf[e] = s /\ version[e] = 0
    BY <2>1 DEF Append, RowsAreVersioned
  <2>4. CASE v = head[s] + 1
    <3>1. head' = [head EXCEPT ![s] = @ + 1] /\ late' = late
      <4>1. v > head[s] /\ ~ (v <= head[s])
        BY <2>4
      <4>2. /\ head' = [head EXCEPT ![s] = IF v > head[s] THEN v ELSE head[s]]
            /\ late' = IF v <= head[s] THEN late \cup E ELSE late
        BY <2>1 DEF Append
      <4>3. QED
        BY <2>4, <4>1, <4>2
    <3>2. /\ version' = [e \in Events |-> IF e \in E THEN head[s] + 1 ELSE version[e]]
          /\ UNCHANGED checkpoint
      BY <2>1, <2>4 DEF Append
    <3>3. Ordered!Publish(s, E)
      BY <2>2, <2>3, <3>1, <3>2 DEF Ordered!Publish, SettledRows
    <3>4. QED
      BY <3>3 DEF Ordered!Next
  <2>5. CASE v \in 1 .. head[s]
    <3>1. Ordered!PublishBelated(s, E, v)
      BY <2>1, <2>2, <2>3, <2>5 DEF Append, Ordered!PublishBelated, SettledRows
    <3>2. QED
      BY <2>5, <3>1 DEF Ordered!Next
  <2>6. QED
    BY <2>1, <2>4, <2>5
<1>2. ASSUME NEW s \in Scopes, Archive(s)
      PROVE  [Ordered!Next]_(Ordered!vars)
  <2>1. SettledRows' = SettledRows \cup Ordered!RowsOf(s)
    BY <1>2 DEF Archive, SettledRows, Settled, SettledIn, Ordered!RowsOf, RowsAreVersioned, Statuses
  <2>2. Ordered!WriteOff(s)
    BY <1>2, <2>1 DEF Archive, Ordered!WriteOff, SettledRows
  <2>3. QED
    BY <2>2 DEF Ordered!Next
<1>3. ASSUME UNCHANGED <<head, version, late, checkpoint>>, SettledRows' = SettledRows
      PROVE  [Ordered!Next]_(Ordered!vars)
  BY <1>3 DEF Ordered!vars, SettledRows
<1>4. ASSUME NEW w \in Workers, NEW S \in SUBSET Events, Claim(w, S)
      PROVE  [Ordered!Next]_(Ordered!vars)
  <2>1. SettledRows' = SettledRows
    BY <1>4 DEF Claim, Claimable, SettledRows, Settled, SettledIn
  <2>2. QED
    BY <1>3, <1>4, <2>1 DEF Claim
<1>5. ASSUME NEW w \in Workers, NEW c \in cur[w], Complete(w, c) \/ CompleteThrows(w, c)
      PROVE  [Ordered!Next]_(Ordered!vars)
  <2>1. CASE CompleteRow(w, c.event)
    BY <1>5, <2>1, CompletionSettles DEF Complete, CompleteThrows
  <2>2. CASE UNCHANGED <<status, checkpoint>>
    <3>1. SettledRows' = SettledRows
      BY <2>2 DEF SettledRows, Settled, SettledIn
    <3>2. QED
      BY <1>3, <1>5, <2>2, <3>1 DEF Complete, CompleteThrows
  <2>3. QED
    BY <1>5, <2>1, <2>2 DEF Complete, CompleteThrows
<1>6. ASSUME NEW w \in Workers, NEW c \in cur[w], RetryOrDeadLetter(w, c)
      PROVE  [Ordered!Next]_(Ordered!vars)
  <2>1. c.event \in Events
    BY DEF Claims
  <2>2. SettledRows' = SettledRows
    BY <1>6, <2>1 DEF RetryOrDeadLetter, Owns, SettledRows, Settled, SettledIn
  <2>3. QED
    BY <1>3, <1>6, <2>2 DEF RetryOrDeadLetter
<1>7. ASSUME UNCHANGED <<head, version, late, status, checkpoint>>
      PROVE  [Ordered!Next]_(Ordered!vars)
  <2>1. SettledRows' = SettledRows
    BY <1>7 DEF SettledRows, Settled, SettledIn
  <2>2. QED
    BY <1>3, <1>7, <2>1
<1> HIDE DEF DeliveryInv, TypeOK
<1>8. QED
  BY <1>1, <1>2, <1>4, <1>5, <1>6, <1>7
     DEF Next, WorkerStep, WorkerFault, GatewayStep, Send, Reply, Timeout, Abort, TimePasses,
         WriteElements, WriteCheckpoint, StatementFails, vars, rowVars

\* The projector implements OrderedDelivery: whatever crashes, expires, fails
\* or answers late, rows settle in the order of their versions and a
\* checkpoint never passes a row that is not settled.
THEOREM Refinement == Spec => ImplementsOrderedDelivery
<1>1. Init => Ordered!Init
  BY ConstantsAssumption DEF Init, Ordered!Init, Settled, SettledIn
<1>2. DeliveryInv /\ [Next]_vars => [Ordered!Next]_(Ordered!vars)
  BY StepImplements
<1>3. QED
  BY <1>1, <1>2, DeliveryInvariant, PTL DEF Spec, ImplementsOrderedDelivery, Ordered!Spec
=============================================================================
