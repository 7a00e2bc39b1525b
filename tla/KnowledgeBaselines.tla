------------------------- MODULE KnowledgeBaselines -------------------------
(***************************************************************************)
(* The governed path from candidate assertions to published baselines of   *)
(* one scope and one working stream: review bundles, decisions, promotion  *)
(* of one decision or of a whole review set into a change set,             *)
(* reconciliation and publication                                          *)
(* (src/apps/mcp-server/src/knowledge/).                                   *)
(*                                                                         *)
(* An assertion row belongs to at most one change set, the last that       *)
(* promoted it, and a baseline names a change set: what a baseline holds   *)
(* is read from the rows that still belong to it.                          *)
(***************************************************************************)
EXTENDS Naturals, Sequences, FiniteSets

CONSTANTS
    Assets, Relationships,  \* the assertions, of assets and of relationships
    Endpoints,              \* relationship -> <<source asset, target asset>>
    Bundles, Members,       \* the review bundles and their assertions
    Decisions,              \* the ids reviewers give to their decisions
    ReviewSets, Expected,   \* the review sets and the bundles each expects
    None,
    MaxBaselines,           \* bound: publications
    MaxOutside              \* bound: commands of others on the graph

Assertions == Assets \cup Relationships

ASSUME GovernanceAssumption ==
    /\ Endpoints \in [Relationships -> Assets \X Assets]
    /\ Members \in [Bundles -> SUBSET Assertions]
    /\ Expected \in [ReviewSets -> SUBSET Bundles]
    /\ MaxBaselines \in Nat /\ MaxOutside \in Nat
    /\ Assets \cap Relationships = {} /\ Decisions \cap ReviewSets = {}

VARIABLES
    bundle,      \* status of each review bundle
    decision,    \* what was decided under each id, None, or being decided
    blocked,     \* the design change session is BLOCKED
    accepted,    \* the assertions with status ACCEPTED
    changeSetOf, \* assertion -> sequence of its change set, 0 for none
    changeSets,  \* the change sets of the stream, in sequence
    graph,       \* the graph version of the scope
    outside,     \* the commands of others so far
    reconciled,  \* the change sets with a CONVERGED reconciliation
    baselines    \* the baselines, in order of publication

governance == <<bundle, decision, blocked, accepted, changeSetOf, changeSets,
                graph, outside, reconciled, baselines>>

BundleStatus == {"NONE", "READY", "BLOCKED", "APPROVED", "REJECTED"}

GovernanceInit ==
    /\ bundle = [b \in Bundles |-> "NONE"]
    /\ decision = [d \in Decisions |-> None]
    /\ blocked = FALSE
    /\ accepted = {}
    /\ changeSetOf = [a \in Assertions |-> 0]
    /\ changeSets = <<>>
    /\ graph = 0 /\ outside = 0
    /\ reconciled = {}
    /\ baselines = <<>>

-----------------------------------------------------------------------------
(* A bundle is created READY or BLOCKED, by its coverage, unless its       *)
(* session is; the call repeated returns what there is.                    *)
CreateBundle(b, status) ==
    /\ bundle[b] = "NONE" /\ ~blocked
    /\ bundle' = [bundle EXCEPT ![b] = status]
    /\ UNCHANGED <<decision, blocked, accepted, changeSetOf, changeSets, graph,
                   outside, reconciled, baselines>>

(* A decision is checked against the bundle it read, in a READ COMMITTED   *)
(* transaction that holds no lock on it: only an approval needs READY.     *)
ReadForDecision(d, b, approve, targets) ==
    /\ decision[d] = None
    /\ bundle[b] # "NONE"
    /\ approve => bundle[b] = "READY" /\ targets # {} /\ targets \subseteq Members[b]
    /\ ~approve => targets = {}
    /\ decision' = [decision EXCEPT ![d] = [open |-> TRUE, bundle |-> b,
                                            approve |-> approve, targets |-> targets]]
    /\ UNCHANGED <<bundle, blocked, accepted, changeSetOf, changeSets, graph,
                   outside, reconciled, baselines>>

RecordDecision(d) ==
    /\ decision[d] # None /\ decision[d].open
    /\ decision' = [decision EXCEPT ![d].open = FALSE]
    /\ accepted' = accepted \cup decision[d].targets
    /\ bundle' = [bundle EXCEPT ![decision[d].bundle] =
                      IF decision[d].approve THEN "APPROVED" ELSE "REJECTED"]
    /\ blocked' = ~decision[d].approve
    /\ UNCHANGED <<changeSetOf, changeSets, graph, outside, reconciled, baselines>>

-----------------------------------------------------------------------------
Approvals(b) ==
    {d \in Decisions : /\ decision[d] # None /\ ~decision[d].open
                       /\ decision[d].approve /\ decision[d].bundle = b}

Promoted == UNION {changeSets[c].assertions : c \in DOMAIN changeSets}

Receipts == {changeSets[c].by : c \in DOMAIN changeSets}

(* Both ends of a promoted relationship are assets of the same promotion   *)
(* or of the catalog already.                                              *)
Resolvable(batch) ==
    \A r \in batch \cap Relationships :
        {Endpoints[r][1], Endpoints[r][2]} \subseteq batch \cup Promoted

(* One serializable transaction: the next change set of the stream, a      *)
(* graph command for each relationship, and the assertions' rows moved to  *)
(* the new change set, whichever they belonged to.                         *)
Materialize(by, batch) ==
    /\ batch \subseteq accepted /\ Resolvable(batch)
    /\ graph' = graph + Cardinality(batch \cap Relationships)
    /\ changeSets' = Append(changeSets, [by |-> by, assertions |-> batch, version |-> graph'])
    /\ changeSetOf' = [a \in Assertions |->
                          IF a \in batch THEN Len(changeSets') ELSE changeSetOf[a]]
    /\ UNCHANGED <<bundle, decision, blocked, accepted, outside, reconciled, baselines>>

PromoteDecision(d) ==
    /\ d \notin Receipts
    /\ \E b \in Bundles : d \in Approvals(b) /\ bundle[b] = "APPROVED"
    /\ Materialize(d, decision[d].targets)

(* A review set is promoted under one approval of each expected bundle, of *)
(* all its assertions and of none twice.                                   *)
PromoteReviewSet(s) ==
    /\ s \notin Receipts /\ Expected[s] # {}
    /\ \E of \in [Expected[s] -> Decisions] :
          \A b \in Expected[s] : /\ bundle[b] = "APPROVED"
                                 /\ of[b] \in Approvals(b)
                                 /\ decision[of[b]].targets = Members[b]
    /\ \A b, c \in Expected[s] : b # c => Members[b] \cap Members[c] = {}
    /\ Materialize(s, UNION {Members[b] : b \in Expected[s]})

(* A command of another caller moves the graph version on; once all        *)
(* baselines of the bound are published, none could tell.                  *)
OutsideCommand ==
    /\ outside < MaxOutside /\ Len(baselines) < MaxBaselines
    /\ outside' = outside + 1 /\ graph' = graph + 1
    /\ UNCHANGED <<bundle, decision, blocked, accepted, changeSetOf, changeSets,
                   reconciled, baselines>>

(* A change set converges while the graph is at the version of its receipt. *)
Reconcile(c) ==
    /\ changeSets[c].version = graph
    /\ reconciled' = reconciled \cup {c}
    /\ UNCHANGED <<bundle, decision, blocked, accepted, changeSetOf, changeSets,
                   graph, outside, baselines>>

(* A new baseline supersedes the others of the stream, under their lock. *)
PublishBaseline(c) ==
    /\ c \in reconciled
    /\ Len(baselines) < MaxBaselines
    /\ baselines' = Append([b \in DOMAIN baselines |->
                               [baselines[b] EXCEPT !.status = "SUPERSEDED"]],
                           [changeSet |-> c, status |-> "PUBLISHED"])
    /\ UNCHANGED <<bundle, decision, blocked, accepted, changeSetOf, changeSets,
                   graph, outside, reconciled>>

GovernanceNext ==
    \/ \E b \in Bundles, status \in {"READY", "BLOCKED"} : CreateBundle(b, status)
    \/ \E d \in Decisions, b \in Bundles, approve \in BOOLEAN, targets \in SUBSET Assertions :
          ReadForDecision(d, b, approve, targets)
    \/ \E d \in Decisions : RecordDecision(d) \/ PromoteDecision(d)
    \/ \E s \in ReviewSets : PromoteReviewSet(s)
    \/ OutsideCommand
    \/ \E c \in DOMAIN changeSets : Reconcile(c) \/ PublishBaseline(c)

-----------------------------------------------------------------------------
(* What a projection reads of a baseline: the accepted assertions whose    *)
(* rows belong to its change set.                                          *)
Content(b) == {a \in accepted : changeSetOf[a] = baselines[b].changeSet}

(* What the baseline's change set was reviewed and promoted with. *)
Reviewed(b) == changeSets[baselines[b].changeSet].assertions

GovernanceTypeOK ==
    /\ bundle \in [Bundles -> BundleStatus]
    /\ decision \in [Decisions -> {None} \cup
           [open : BOOLEAN, bundle : Bundles, approve : BOOLEAN, targets : SUBSET Assertions]]
    /\ blocked \in BOOLEAN
    /\ accepted \in SUBSET Assertions
    /\ changeSetOf \in [Assertions -> 0..Len(changeSets)]
    /\ changeSets \in Seq([by : Decisions \cup ReviewSets, assertions : SUBSET Assertions,
                           version : Nat])
    /\ graph \in Nat /\ outside \in 0..MaxOutside
    /\ reconciled \in SUBSET (DOMAIN changeSets)
    /\ baselines \in Seq([changeSet : DOMAIN changeSets, status : {"PUBLISHED", "SUPERSEDED"}])
=============================================================================
