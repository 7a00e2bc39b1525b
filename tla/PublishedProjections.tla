------------------------ MODULE PublishedProjections ------------------------
(***************************************************************************)
(* What readers of projections are promised, without batches, leases or    *)
(* workers: "Readers can reach a generation only through a published       *)
(* Manifest and never observe partial rows", and "published Manifests and  *)
(* their reachable generations are immutable"                              *)
(* (docs/adr/0022-3a-architecture-navigation-workspace.md:23, 42).         *)
(*   - a baseline holds some of what it was reviewed with, and may lose    *)
(*     assertions to a later one, but never gets any;                      *)
(*   - a build is shown in one step, whole with respect to what its        *)
(*     baseline holds then, and is never shown otherwise afterwards.       *)
(***************************************************************************)
EXTENDS Naturals, Sequences

CONSTANTS Assertions, Relationships, Endpoints

VARIABLES
    holds,     \* what each baseline holds, in order of their publication
    reviewed,  \* what each was reviewed with
    builds,    \* the baseline of each build
    shown      \* what readers reach of each build: {}, or its one view

vars == <<holds, reviewed, builds, shown>>

Views == [nodes : SUBSET Assertions, edges : SUBSET Relationships, units : BOOLEAN]

Init == holds = <<>> /\ reviewed = <<>> /\ builds = <<>> /\ shown = <<>>

(* What a view of baseline b has to be when it is first shown. *)
Whole(view, b) ==
    /\ holds[b] \subseteq view.nodes /\ view.nodes \subseteq reviewed[b]
    /\ holds[b] \cap Relationships \subseteq view.edges /\ view.edges \subseteq reviewed[b]
    /\ \A r \in view.edges : {Endpoints[r][1], Endpoints[r][2]} \subseteq view.nodes
    /\ view.units

PublishBaseline(held, review) ==
    /\ held \subseteq review
    /\ holds' = Append(holds, held) /\ reviewed' = Append(reviewed, review)
    /\ UNCHANGED <<builds, shown>>

(* Assertions go to a change set that no baseline names yet. *)
Withdraw ==
    /\ DOMAIN holds' = DOMAIN holds
    /\ \A b \in DOMAIN holds : holds'[b] \subseteq holds[b]
    /\ UNCHANGED <<reviewed, builds, shown>>

Request(b) ==
    /\ builds' = Append(builds, b) /\ shown' = Append(shown, {})
    /\ UNCHANGED <<holds, reviewed>>

Show(g, view) ==
    /\ shown[g] = {} /\ Whole(view, builds[g])
    /\ shown' = [shown EXCEPT ![g] = {view}]
    /\ UNCHANGED <<holds, reviewed, builds>>

Next ==
    \/ \E review \in SUBSET Assertions : \E held \in SUBSET review : PublishBaseline(held, review)
    \/ Withdraw
    \/ \E b \in DOMAIN holds : Request(b)
    \/ \E g \in DOMAIN builds : \E view \in Views : Show(g, view)

Spec == Init /\ [][Next]_vars
=============================================================================
