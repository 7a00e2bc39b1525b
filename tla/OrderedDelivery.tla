-------------------------- MODULE OrderedDelivery --------------------------
(***************************************************************************)
(* What the delivery of the relationship outbox promises to its readers    *)
(* (ADR 0006, ADR 0012), without workers, leases or a gateway:             *)
(*   - the rows of one command appear together, with the next version of   *)
(*     their scope, or belated: with a version that other commands use     *)
(*     already (the ADRs know no such rows, the code writes them);         *)
(*   - a row settles once, and only when no row of a smaller version of    *)
(*     its scope is left, belated ones apart;                              *)
(*   - the watermark of a scope never goes back, and moves only over rows  *)
(*     that are all settled, belated ones too; what it has passed it       *)
(*     cannot take back from a row that comes belated;                     *)
(*   - an operator may write off the rest of a scope.                      *)
(***************************************************************************)
EXTENDS Integers

CONSTANTS Scopes, Events, ScopeOf

VARIABLES
  latest,     \* newest version of each scope
  published,  \* version of each row, 0 while it does not exist
  belated,    \* rows published with a version not above the newest
  settled,    \* rows delivered or written off
  watermark   \* version up to which readers of a scope may rely on the graph

vars == <<latest, published, belated, settled, watermark>>

Init ==
  /\ latest = [s \in Scopes |-> 0]
  /\ published = [e \in Events |-> 0]
  /\ belated = {}
  /\ settled = {}
  /\ watermark = [s \in Scopes |-> 0]

RowsOf(s) == {e \in Events : ScopeOf[e] = s /\ published[e] > 0}

Publish(s, E) ==
  /\ \A e \in E : ScopeOf[e] = s /\ published[e] = 0
  /\ latest' = [latest EXCEPT ![s] = @ + 1]
  /\ published' = [e \in Events |-> IF e \in E THEN latest[s] + 1 ELSE published[e]]
  /\ UNCHANGED <<belated, settled, watermark>>

PublishBelated(s, E, v) ==
  /\ \A e \in E : ScopeOf[e] = s /\ published[e] = 0
  /\ v \in 1 .. latest[s]
  /\ published' = [e \in Events |-> IF e \in E THEN v ELSE published[e]]
  /\ belated' = belated \cup E
  /\ UNCHANGED <<latest, settled, watermark>>

\* The watermark may stay, or move to the version of a row, provided that every
\* row up to there is settled.
Settle(e) ==
  LET s == ScopeOf[e]
  IN  /\ published[e] > 0 /\ e \notin settled
      /\ \A f \in RowsOf(s) : published[f] < published[e] => f \in settled \cup belated
      /\ settled' = settled \cup {e}
      /\ \/ UNCHANGED watermark
         \/ \E d \in RowsOf(s) :
              /\ watermark[s] < published[d]
              /\ \A f \in RowsOf(s) : published[f] <= published[d] => f \in settled'
              /\ watermark' = [watermark EXCEPT ![s] = published[d]]
      /\ UNCHANGED <<latest, published, belated>>

WriteOff(s) ==
  /\ settled' = settled \cup RowsOf(s)
  /\ UNCHANGED <<latest, published, belated, watermark>>

Next ==
  \/ \E s \in Scopes, E \in SUBSET Events :
       \/ Publish(s, E)
       \/ \E v \in 1 .. latest[s] : PublishBelated(s, E, v)
  \/ \E e \in Events : Settle(e)
  \/ \E s \in Scopes : WriteOff(s)

Spec == Init /\ [][Next]_vars
=============================================================================
