--------------------------- MODULE ProjectionBuild ---------------------------
(***************************************************************************)
(* The 3A projection of published baselines: the requests for a build      *)
(* (src/apps/mcp-server/src/knowledge/projection-build.ts) and the         *)
(* projector's workers, which claim a build under a lease, write its rows  *)
(* batch by batch and publish a manifest (src/apps/knowledge-projector/).  *)
(*                                                                         *)
(* A build's number is its place in "jobs" and also its generation: every  *)
(* attempt has a generation of its own.  Each database transaction of a    *)
(* worker is a step; a worker that loses its lease is told only by the     *)
(* next fenced write.                                                      *)
(***************************************************************************)
EXTENDS KnowledgeBaselines

CONSTANTS
    Workers,
    Order,           \* the assertions in the order of their sort keys
    BatchLimit,
    Queries, Plain,  \* what a request may ask; Plain is the empty query
    MaxJobs,         \* bound: builds
    MaxFaults        \* bound: crashes, errors and leases that end too early

ASSUME ProjectionAssumption ==
    /\ Order \in Seq(Assertions)
    /\ \A a \in Assertions : \E i \in DOMAIN Order : Order[i] = a
    /\ \A i, k \in DOMAIN Order : Order[i] = Order[k] => i = k
    /\ BatchLimit \in Nat \ {0} /\ Plain \in Queries
    /\ MaxJobs \in Nat /\ MaxFaults \in Nat

VARIABLES
    jobs,         \* the builds, in order of creation
    generations,  \* the rows of each build
    manifests,    \* the builds that were published
    worker,       \* what each worker is doing
    faults

projection == <<jobs, generations, manifests, worker, faults>>
vars == <<governance, projection>>

Active == {"QUEUED", "BUILDING"}
Errors == {"ENDPOINT_UNRESOLVED", "LEASE_LOST", "COUNT_MISMATCH",
           "ENDPOINT_CLOSURE_FAILED", "BUILD_FAILED"}
Steps == {"renewLoad", "load", "relationships", "renewWrite", "write", "renewUnits",
          "units", "renewPublish", "publish", "commit", "fail"}

Idle == [pc |-> "idle", job |-> 0, from |-> 0, nodes |-> 0, edges |-> 0,
         page |-> {}, found |-> {}, complete |-> FALSE, error |-> "BUILD_FAILED"]

Init ==
    /\ GovernanceInit
    /\ jobs = <<>> /\ generations = <<>> /\ manifests = {}
    /\ worker = [w \in Workers |-> Idle]
    /\ faults = 0

-----------------------------------------------------------------------------
(* A request returns a published projection of the same key, or the active *)
(* build of the key, or makes the next attempt.  A manifest's key never    *)
(* has a query in it.                                                      *)
Reusable(b, query) == query = Plain /\ \E g \in manifests : jobs[g].baseline = b

InProgress(b, query) ==
    \E g \in DOMAIN jobs : /\ jobs[g].baseline = b /\ jobs[g].query = query
                           /\ jobs[g].status \in Active

Request(b, query) ==
    /\ Len(jobs) < MaxJobs
    /\ ~Reusable(b, query) /\ ~InProgress(b, query)
    /\ jobs' = Append(jobs, [baseline |-> b, query |-> query, status |-> "QUEUED",
                             owner |-> None, lease |-> FALSE, cursor |-> 0,
                             nodes |-> 0, edges |-> 0, error |-> None])
    /\ generations' = Append(generations, [nodes |-> {}, edges |-> {}, units |-> FALSE])
    /\ UNCHANGED <<governance, manifests, worker, faults>>

-----------------------------------------------------------------------------
At(w, pc) == worker[w].pc = pc

Job(w) == jobs[worker[w].job]

(* Fault: a build that nobody owns counts as one's own. *)
HoldsMutant(w) == Job(w).owner \in {w, None}

Holds(w) == Job(w).status = "BUILDING" /\ Job(w).owner = w

Goto(w, pc) == worker' = [worker EXCEPT ![w].pc = pc]

Throw(w, error) == worker' = [worker EXCEPT ![w].pc = "fail", ![w].error = error]

(* Fault: a build whose lease ended is not claimed. *)
ClaimableMutant(g) == jobs[g].status = "QUEUED"

Claimable(g) == \/ jobs[g].status = "QUEUED"
                \/ jobs[g].status = "BUILDING" /\ ~jobs[g].lease

(* The worker works on with the counts and the cursor it claimed. *)
Claim(w, g) ==
    /\ At(w, "idle") /\ Claimable(g)
    /\ jobs' = [jobs EXCEPT ![g].status = "BUILDING", ![g].owner = w, ![g].lease = TRUE]
    /\ worker' = [worker EXCEPT ![w] = [Idle EXCEPT !.pc = "renewLoad", !.job = g,
                      !.from = jobs[g].cursor, !.nodes = jobs[g].nodes, !.edges = jobs[g].edges]]
    /\ UNCHANGED <<governance, generations, manifests, faults>>

Renewals == [renewLoad |-> "load", renewWrite |-> "write", renewUnits |-> "units",
             renewPublish |-> "publish"]

Renew(w) ==
    /\ worker[w].pc \in DOMAIN Renewals
    /\ \/ /\ Holds(w)
          /\ jobs' = [jobs EXCEPT ![worker[w].job].lease = TRUE]
          /\ Goto(w, Renewals[worker[w].pc])
       \/ /\ ~Holds(w)
          /\ Throw(w, "LEASE_LOST")
          /\ UNCHANGED jobs
    /\ UNCHANGED <<governance, generations, manifests, faults>>

(* The next assertions of the baseline after the cursor, up to the limit. *)
Remaining(b, from) == {i \in DOMAIN Order : i > from /\ Order[i] \in Content(b)}

LoadPage(w) ==
    /\ At(w, "load")
    /\ LET rest == Remaining(Job(w).baseline, worker[w].from)
           page == {i \in rest : Cardinality({k \in rest : k < i}) < BatchLimit}
       IN worker' = [worker EXCEPT ![w].pc = "relationships", ![w].page = page,
                                   ![w].complete = (page = rest)]
    /\ UNCHANGED <<governance, jobs, generations, manifests, faults>>

(* All relationships come with the first batch, each with both its ends    *)
(* among the baseline's assertions; a later batch has none.                *)
LoadRelationships(w) ==
    /\ At(w, "relationships")
    /\ LET content == Content(Job(w).baseline)
           found   == IF worker[w].from = 0 THEN content \cap Relationships ELSE {}
           known   == content \cup {Order[i] : i \in worker[w].page}
       IN \/ /\ \A r \in found : {Endpoints[r][1], Endpoints[r][2]} \subseteq known
             /\ worker' = [worker EXCEPT ![w].pc = "renewWrite", ![w].found = found]
          \/ /\ ~\A r \in found : {Endpoints[r][1], Endpoints[r][2]} \subseteq known
             /\ Throw(w, "ENDPOINT_UNRESOLVED")
    /\ UNCHANGED <<governance, jobs, generations, manifests, faults>>

(* Fault: the cursor points one behind the last assertion. *)
NextCursorMutant(page) ==
    IF page = {} THEN 0 ELSE 1 + CHOOSE i \in page : \A k \in page : k <= i

(* An empty batch has no last assertion, and leaves no cursor. *)
NextCursor(page) ==
    IF page = {} THEN 0 ELSE CHOOSE i \in page : \A k \in page : k <= i

(* Rows, counts and cursor move in one transaction, fenced by the owner.   *)
(* A batch that is not the last leaves the build to its lease.             *)
WriteBatch(w) ==
    /\ At(w, "write")
    /\ LET g == worker[w].job
           page == worker[w].page
           found == worker[w].found
       IN \/ /\ Holds(w)
             /\ jobs' = [jobs EXCEPT ![g].cursor = NextCursor(page),
                            ![g].nodes = @ + Cardinality(page),
                            ![g].edges = @ + Cardinality(found)]
             /\ generations' = [generations EXCEPT
                            ![g].nodes = @ \cup {Order[i] : i \in page},
                            ![g].edges = @ \cup found]
             /\ IF worker[w].complete
                THEN Goto(w, "renewUnits")
                ELSE worker' = [worker EXCEPT ![w] = Idle]
          \/ /\ ~Holds(w)
             /\ Throw(w, "LEASE_LOST")
             /\ UNCHANGED <<jobs, generations>>
    /\ UNCHANGED <<governance, manifests, faults>>

WriteUnits(w) ==
    /\ At(w, "units")
    /\ \/ /\ Holds(w)
          /\ generations' = [generations EXCEPT ![worker[w].job].units = TRUE]
          /\ Goto(w, "renewPublish")
       \/ /\ ~Holds(w)
          /\ Throw(w, "LEASE_LOST")
          /\ UNCHANGED generations
    /\ UNCHANGED <<governance, jobs, manifests, faults>>

(* What the worker counted, from the claim on, is what there is. *)
CountsAgree(w) ==
    LET rows == generations[worker[w].job]
    IN /\ Cardinality(rows.nodes) = worker[w].nodes + Cardinality(worker[w].page)
       /\ Cardinality(rows.edges) = worker[w].edges + Cardinality(worker[w].found)

(* Fault: only the presence of nodes is checked. *)
ClosedMutant(g) == generations[g].nodes # {}

Closed(g) ==
    \A r \in generations[g].edges :
        {Endpoints[r][1], Endpoints[r][2]} \subseteq generations[g].nodes

(* Publication reads the build and checks its rows, then writes the        *)
(* manifest and sets the build READY by its key alone: between the two     *)
(* another worker may claim a build whose lease has ended.                 *)
CheckPublication(w) ==
    /\ At(w, "publish")
    /\ \/ ~Holds(w) /\ Throw(w, "LEASE_LOST")
       \/ Holds(w) /\ ~CountsAgree(w) /\ Throw(w, "COUNT_MISMATCH")
       \/ Holds(w) /\ CountsAgree(w) /\ ~Closed(worker[w].job)
            /\ Throw(w, "ENDPOINT_CLOSURE_FAILED")
       \/ Holds(w) /\ CountsAgree(w) /\ Closed(worker[w].job) /\ Goto(w, "commit")
    /\ UNCHANGED <<governance, jobs, generations, manifests, faults>>

CommitPublication(w) ==
    /\ At(w, "commit")
    /\ manifests' = manifests \cup {worker[w].job}
    /\ jobs' = [jobs EXCEPT ![worker[w].job] =
                   [@ EXCEPT !.status = "READY", !.owner = None, !.lease = FALSE,
                             !.nodes = worker[w].nodes + Cardinality(worker[w].page),
                             !.edges = worker[w].edges + Cardinality(worker[w].found)]]
    /\ worker' = [worker EXCEPT ![w] = Idle]
    /\ UNCHANGED <<governance, generations, faults>>

(* Fault: the failure is recorded without the fence. *)
FailMutant(w) ==
    /\ At(w, "fail")
    /\ jobs' = [jobs EXCEPT ![worker[w].job] =
                   [@ EXCEPT !.status = "FAILED", !.owner = None, !.lease = FALSE,
                             !.error = worker[w].error]]
    /\ worker' = [worker EXCEPT ![w] = Idle]
    /\ UNCHANGED <<governance, generations, manifests, faults>>

(* The worker's error ends the build, if the build is still its own. *)
Fail(w) ==
    /\ At(w, "fail")
    /\ IF Holds(w)
       THEN jobs' = [jobs EXCEPT ![worker[w].job] =
                        [@ EXCEPT !.status = "FAILED", !.owner = None, !.lease = FALSE,
                                  !.error = worker[w].error]]
       ELSE UNCHANGED jobs
    /\ worker' = [worker EXCEPT ![w] = Idle]
    /\ UNCHANGED <<governance, generations, manifests, faults>>

-----------------------------------------------------------------------------
Working(w, g) == ~At(w, "idle") /\ worker[w].job = g

(* A lease ends when nobody renews it; under a worker still at work that   *)
(* takes a delay, counted as a fault.                                      *)
LeaseEnds(g) ==
    /\ jobs[g].status = "BUILDING" /\ jobs[g].lease
    /\ jobs' = [jobs EXCEPT ![g].lease = FALSE]
    /\ IF \E w \in Workers : Working(w, g) /\ jobs[g].owner = w
       THEN faults < MaxFaults /\ faults' = faults + 1
       ELSE UNCHANGED faults
    /\ UNCHANGED <<governance, generations, manifests, worker>>

Crash(w) ==
    /\ ~At(w, "idle")
    /\ faults < MaxFaults /\ faults' = faults + 1
    /\ worker' = [worker EXCEPT ![w] = Idle]
    /\ UNCHANGED <<governance, jobs, generations, manifests>>

(* Any statement may fail; the error of the failing call itself is lost. *)
Break(w) ==
    /\ ~At(w, "idle")
    /\ faults < MaxFaults /\ faults' = faults + 1
    /\ IF At(w, "fail") THEN worker' = [worker EXCEPT ![w] = Idle]
                        ELSE Throw(w, "BUILD_FAILED")
    /\ UNCHANGED <<governance, jobs, generations, manifests>>

Work(w) ==
    \/ Renew(w) \/ LoadPage(w) \/ LoadRelationships(w) \/ WriteBatch(w) \/ WriteUnits(w)
    \/ CheckPublication(w) \/ CommitPublication(w) \/ Fail(w)

Next ==
    \/ GovernanceNext /\ UNCHANGED projection
    \/ \E b \in DOMAIN baselines, query \in Queries : Request(b, query)
    \/ \E w \in Workers, g \in DOMAIN jobs : Claim(w, g)
    \/ \E w \in Workers : Work(w) \/ Crash(w) \/ Break(w)
    \/ \E g \in DOMAIN jobs : LeaseEnds(g)

Spec == Init /\ [][Next]_vars

(* Workers poll for builds and work on what they claimed; time passes. *)
FairSpec ==
    /\ Spec
    /\ \A w \in Workers : WF_vars(Work(w))
    /\ WF_vars(\E w \in Workers, g \in DOMAIN jobs : Claim(w, g))
    /\ \A g \in 1..MaxJobs : WF_vars(g \in DOMAIN jobs /\ LeaseEnds(g))

-----------------------------------------------------------------------------
(* Every variable keeps its type, and no cursor or count leaves the rows. *)
TypeOK ==
    /\ GovernanceTypeOK
    /\ jobs \in Seq([baseline : DOMAIN baselines, query : Queries,
                     status : Active \cup {"READY", "FAILED"}, owner : Workers \cup {None},
                     lease : BOOLEAN, cursor : 0..Len(Order), nodes : Nat, edges : Nat,
                     error : Errors \cup {None}])
    /\ generations \in Seq([nodes : SUBSET Assertions, edges : SUBSET Relationships,
                            units : BOOLEAN])
    /\ Len(generations) = Len(jobs) /\ Len(jobs) <= MaxJobs
    /\ manifests \in SUBSET (DOMAIN jobs)
    /\ worker \in [Workers -> {Idle} \cup
           [pc : Steps, job : DOMAIN jobs, from : 0..Len(Order), nodes : Nat, edges : Nat,
            page : SUBSET (DOMAIN Order), found : SUBSET Relationships, complete : BOOLEAN,
            error : Errors]]
    /\ faults \in 0..MaxFaults

(* A published projection shows all the baseline holds and nothing it was  *)
(* not reviewed with, has its architecture units, and no edge without both *)
(* of its ends: no batch is lost between workers, crashes and restarts     *)
(* (repository.ts 337-371).                                                *)
PublishedIsWhole ==
    \A g \in manifests :
        LET b == jobs[g].baseline
        IN /\ Content(b) \subseteq generations[g].nodes
           /\ generations[g].nodes \subseteq Reviewed(b)
           /\ Content(b) \cap Relationships \subseteq generations[g].edges
           /\ generations[g].units
           /\ \A rel \in generations[g].edges :
                 \A end \in {1, 2} : Endpoints[rel][end] \in generations[g].nodes

(* A build is READY exactly if its manifest was published: an error or a   *)
(* lost lease never undoes a publication, and none stops half way          *)
(* (repository.ts 366-369, 419-422).                                       *)
ReadyIsPublished == \A g \in DOMAIN jobs : jobs[g].status = "READY" <=> g \in manifests

(* A worker whose build was taken over changes nothing of it any more,     *)
(* except that a publication it had already checked may still commit.      *)
LostBuildIsLost ==
    [][\A w \in Workers : \A g \in DOMAIN jobs :
          (Working(w, g) /\ ~Holds(w) /\ worker'[w] # worker[w])
              => \/ jobs'[g] = jobs[g] /\ generations'[g] = generations[g]
                 \/ At(w, "commit") /\ g \in manifests']_vars

(* Readers reach a build once it is in the manifests.                      *)
Readers == INSTANCE PublishedProjections WITH
    holds    <- [b \in DOMAIN baselines |-> Content(b)],
    reviewed <- [b \in DOMAIN baselines |-> Reviewed(b)],
    builds   <- [g \in DOMAIN jobs |-> jobs[g].baseline],
    shown    <- [g \in DOMAIN jobs |-> IF g \in manifests THEN {generations[g]} ELSE {}]

(* Whoever crashes, takes over or commits late, a projection appears to    *)
(* its readers at once, whole, and never changes: published manifests and  *)
(* their generations are immutable                                         *)
(* (docs/adr/0022-3a-architecture-navigation-workspace.md:23, 42).         *)
ShowsPublishedProjections == Readers!Spec

(* Every requested build comes to an end, whichever workers crash on it:   *)
(* its lease ends and another worker takes it from its cursor.             *)
BuildsEnd ==
    \A g \in 1..MaxJobs :
        (g \in DOMAIN jobs) ~> (g \in DOMAIN jobs /\ jobs[g].status \in {"READY", "FAILED"})

(* Restarts alone never fail a build: batches are resumable                *)
(* (docs/adr/0022-3a-architecture-navigation-workspace.md:23).  What is    *)
(* counted when a batch is written is what publication finds.              *)
ResumedBuildsPublish == \A g \in DOMAIN jobs : jobs[g].error # "COUNT_MISMATCH"
=============================================================================
