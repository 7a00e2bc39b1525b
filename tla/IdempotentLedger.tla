-------------------------- MODULE IdempotentLedger --------------------------
(***************************************************************************)
(* What a scope promises the callers of its relationship commands: a key   *)
(* names at most one command, the command takes effect at most once, and   *)
(* it either leaves the graph as it is or makes its next version.  Callers *)
(* only learn of entries of the ledger, and may learn of them repeatedly.  *)
(***************************************************************************)
EXTENDS Naturals

CONSTANTS Keys, Commands

VARIABLES
  latest,   \* graph version of the scope
  ledger,   \* entries [key, command, graph]
  answers   \* entries callers have been told

vars == <<latest, ledger, answers>>

Init == latest = 0 /\ ledger = {} /\ answers = {}

Fresh(k) == \A r \in ledger : r.key # k

Record(k, m, v) ==
  /\ Fresh(k)
  /\ v \in {latest, latest + 1}
  /\ latest' = v
  /\ ledger' = ledger \cup {[key |-> k, command |-> m, graph |-> v]}
  /\ UNCHANGED answers

Tell(r) ==
  /\ r \in ledger
  /\ answers' = answers \cup {r}
  /\ UNCHANGED <<latest, ledger>>

Next ==
  \/ \E k \in Keys, m \in Commands : Record(k, m, latest) \/ Record(k, m, latest + 1)
  \/ \E r \in ledger : Tell(r)

Spec == Init /\ [][Next]_vars
=============================================================================
