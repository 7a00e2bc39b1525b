------------------------------ MODULE ImpactRun ------------------------------
(***************************************************************************)
(* An impact analysis run and the calls of run, resume and retry that work *)
(* on it (apps/impact-worker/src/worker.ts).  Every statement is a step;   *)
(* the traversal is one hop after the other (BoundedTraversal), over a     *)
(* graph that stays what it is.  A worker has an owner name of its own and *)
(* one call at a time.                                                     *)
(***************************************************************************)
EXTENDS BoundedTraversal

CONSTANTS
  Workers,
  NoWorker,  \* leaseOwner of a run that is not claimed
  Roots,     \* the nodes of the assets of the proposal
  Required,  \* requiredGraphVersion
  MaxCalls,  \* bound: calls of the three operations
  MaxFaults  \* bound: crashes, failed statements, leases that end too early

ASSUME ImpactAssumption ==
  /\ NoWorker \notin Workers
  /\ Roots \in SUBSET Nodes /\ Roots # {}
  /\ Required \in Nat /\ MaxCalls \in Nat /\ MaxFaults \in Nat

VARIABLES
  status, owner, late,         \* status, leaseOwner; leaseExpiresAt has passed
  stamp,                       \* actualGraphCheckpoint
  result, frontier,            \* ImpactResultNode rows; summary.unexploredFrontier
  checkpoint,                  \* the least projection checkpoint of the scope
  pc, job,                     \* each call: where it is and what it knows
  forgotten,                   \* no column: nodes that belong on the frontier
                               \* of the results and are not there
  calls, faults

found == <<result, frontier, forgotten>>
row == <<status, owner, late, stamp, found>>
vars == <<row, checkpoint, pc, job, calls, faults>>

Statuses ==
  {"QUEUED", "WAITING_FOR_PROJECTION", "RUNNING", "COMPLETE", "PARTIAL", "FAILED",
   "CANCELLED", "CANCELLATION_REQUESTED"}

\* Statements of execute, from its first to its last
Executing ==
  {"checkpoint", "stamp", "wait", "look", "traverse", "lookAgain", "complete",
   "fail", "missed", "cancel"}

Places == {"idle", "check", "history", "requeue", "claim"} \cup Executing

\* from: where the traversal starts; before: the results it is added to; lost:
\* what would have to be followed from there besides
Jobs ==
  [kind : {"run", "resume", "retry"}, from : SUBSET Nodes, before : SUBSET Nodes,
   lost : SUBSET Nodes, seen : Nat, walk : Walks]

NoWalk == Walk("PARTIAL", {}, {}, {}, {})

NoJob ==
  [kind |-> "run", from |-> {}, before |-> {}, lost |-> {}, seen |-> 0, walk |-> NoWalk]

\* Every variable keeps its type, and an idle worker knows nothing.
TypeOK ==
  /\ status \in Statuses
  /\ owner \in Workers \cup {NoWorker} /\ (status = "RUNNING" => owner \in Workers)
  /\ late \in BOOLEAN
  /\ stamp \in Nat /\ checkpoint \in Nat
  /\ result \subseteq Nodes /\ frontier \subseteq Nodes /\ forgotten \subseteq Nodes
  /\ pc \in [Workers -> Places]
  /\ job \in [Workers -> Jobs]
  /\ \A w \in Workers : pc[w] = "idle" => job[w] = NoJob
  /\ calls \in 0 .. MaxCalls /\ faults \in 0 .. MaxFaults

Init ==
  /\ status = "QUEUED" /\ owner = NoWorker /\ late = FALSE
  /\ stamp = 0 /\ result = {} /\ frontier = {} /\ forgotten = {}
  /\ checkpoint \in 0 .. Required
  /\ pc = [w \in Workers |-> "idle"]
  /\ job = [w \in Workers |-> NoJob]
  /\ calls = 0 /\ faults = 0

Fault == faults < MaxFaults /\ faults' = faults + 1

-----------------------------------------------------------------------------
(* The calls                                                               *)

Goto(w, place) == pc' = [pc EXCEPT ![w] = place]

Know(w, j) == job' = [job EXCEPT ![w] = j]

\* Fault: what was found is kept for the next call.
LeaveMutant(w) == Goto(w, "idle") /\ UNCHANGED job

\* The call is over.
Leave(w) == Goto(w, "idle") /\ Know(w, NoJob)

Call(w, kind, place, from) ==
  /\ pc[w] = "idle"
  /\ calls < MaxCalls /\ calls' = calls + 1
  /\ Goto(w, place)
  /\ Know(w, [NoJob EXCEPT !.kind = kind, !.from = from])
  /\ UNCHANGED <<row, checkpoint, faults>>

Run(w) == Call(w, "run", "check", Roots)

\* resume reads the run, which must be PARTIAL and have a frontier ...
Resume(w) ==
  /\ status = "PARTIAL" /\ frontier # {}
  /\ Call(w, "resume", "history", frontier)

\* ... and then, with another statement, what has been found so far.  Another
\* call may have stored results and a frontier in between: then the results are
\* taken without the frontier that belongs to them.
LoadPersisted(w) ==
  /\ pc[w] = "history"
  /\ Know(w, [job[w] EXCEPT !.before = result,
                             !.lost = (frontier \cup forgotten) \ job[w].from])
  /\ Goto(w, "requeue")
  /\ UNCHANGED <<row, checkpoint, calls, faults>>

RetryRun(w) ==
  /\ status = "FAILED"
  /\ Call(w, "retry", "requeue", Roots)

\* updateRun of resume and retry: by the key of the run alone
Requeue(w) ==
  /\ pc[w] = "requeue"
  /\ status' = "QUEUED"
  /\ Goto(w, IF job[w].kind = "resume" THEN "claim" ELSE "check")
  /\ UNCHANGED <<owner, late, stamp, found, checkpoint, job, calls, faults>>

Cancelling == status \in {"CANCELLATION_REQUESTED", "CANCELLED"}

\* isCancellationRequested: the place to go on from when it is not
Look(w, at, next) ==
  /\ pc[w] = at
  /\ Goto(w, IF Cancelling THEN "cancel" ELSE next)
  /\ UNCHANGED <<row, checkpoint, job, calls, faults>>

Claimable ==
  \/ status \in {"QUEUED", "WAITING_FOR_PROJECTION"}
  \/ status = "RUNNING" /\ late

Claim(w) ==
  /\ pc[w] = "claim"
  /\ IF Claimable
     THEN /\ status' = "RUNNING" /\ owner' = w /\ late' = FALSE
          /\ Goto(w, "checkpoint") /\ UNCHANGED job
     ELSE Leave(w) /\ UNCHANGED <<status, owner, late>>
  /\ UNCHANGED <<stamp, found, checkpoint, calls, faults>>

-----------------------------------------------------------------------------
(* execute                                                                 *)

\* Fault: the owner is not compared.
HoldsMutant(w) == status = "RUNNING" /\ ~late

\* The fence of updateRunning, complete and fail
Holds(w) == status = "RUNNING" /\ owner = w /\ ~late

ReadCheckpoint(w) ==
  /\ pc[w] = "checkpoint"
  /\ Know(w, [job[w] EXCEPT !.seen = checkpoint])
  /\ Goto(w, "stamp")
  /\ UNCHANGED <<row, checkpoint, calls, faults>>

\* Fault: the checkpoint is compared with what was required less one.
ProjectedMutant(version) == version + 1 >= Required

Projected(version) == version >= Required

Stamp(w) ==
  /\ pc[w] = "stamp"
  /\ IF Holds(w)
     THEN stamp' = job[w].seen /\ Goto(w, IF Projected(job[w].seen) THEN "look" ELSE "wait")
     ELSE Goto(w, "missed") /\ UNCHANGED stamp
  /\ UNCHANGED <<status, owner, late, found, checkpoint, job, calls, faults>>

Wait(w) ==
  /\ pc[w] = "wait"
  /\ IF Holds(w)
     THEN status' = "WAITING_FOR_PROJECTION" /\ Leave(w)
     ELSE Goto(w, "missed") /\ UNCHANGED <<status, job>>
  /\ UNCHANGED <<owner, late, stamp, found, checkpoint, calls, faults>>

\* The cancellation is looked up before the traversal begins.
Begin(w) ==
  /\ pc[w] = "look"
  /\ IF Cancelling THEN Goto(w, "cancel") /\ UNCHANGED job
     ELSE \E walk \in Starts(job[w].from) :
            /\ Know(w, [job[w] EXCEPT !.walk = walk])
            /\ Goto(w, IF walk.status = "OPEN" THEN "traverse" ELSE "lookAgain")
  /\ UNCHANGED <<row, checkpoint, calls, faults>>

Hop(w) ==
  /\ pc[w] = "traverse"
  /\ \E walk \in Hops(job[w].walk) :
       /\ Know(w, [job[w] EXCEPT !.walk = walk])
       /\ Goto(w, IF walk.status = "OPEN" THEN "traverse" ELSE "lookAgain")
  /\ UNCHANGED <<row, checkpoint, calls, faults>>

\* composeResumedAnalysis; an analysis from the roots has nothing before it.
Composed(j) == j.before \cup Found(j.walk)

Complete(w) ==
  /\ pc[w] = "complete"
  /\ IF Holds(w)
     THEN /\ result' = Composed(job[w])
          /\ frontier' = job[w].walk.frontier
          /\ status' = job[w].walk.status
          /\ stamp' = job[w].seen
          /\ owner' = NoWorker
          /\ forgotten' = job[w].lost \cup job[w].walk.cut
          /\ Leave(w)
     ELSE Goto(w, "missed") /\ UNCHANGED <<status, owner, stamp, found, job>>
  /\ UNCHANGED <<late, checkpoint, calls, faults>>

\* The catch block
Fail(w) ==
  /\ pc[w] = "fail"
  /\ IF Holds(w)
     THEN status' = "FAILED" /\ owner' = NoWorker /\ Leave(w)
     ELSE Goto(w, "missed") /\ UNCHANGED <<status, owner, job>>
  /\ UNCHANGED <<late, stamp, found, checkpoint, calls, faults>>

\* Fault: whoever misses the fence leaves.
MissedMutant(w) ==
  /\ pc[w] = "missed"
  /\ Leave(w)
  /\ UNCHANGED <<row, checkpoint, calls, faults>>

\* afterFencedWriteMiss
Missed(w) ==
  /\ pc[w] = "missed"
  /\ IF Cancelling THEN Goto(w, "cancel") /\ UNCHANGED job ELSE Leave(w)
  /\ UNCHANGED <<row, checkpoint, calls, faults>>

Cancel(w) ==
  /\ pc[w] = "cancel"
  /\ IF status \in {"QUEUED", "WAITING_FOR_PROJECTION", "RUNNING", "CANCELLATION_REQUESTED"}
     THEN status' = "CANCELLED" /\ owner' = NoWorker
     ELSE UNCHANGED <<status, owner>>
  /\ Leave(w)
  /\ UNCHANGED <<late, stamp, found, checkpoint, calls, faults>>

Execute(w) ==
  \/ ReadCheckpoint(w) \/ Stamp(w) \/ Wait(w) \/ Begin(w) \/ Hop(w)
  \/ Look(w, "lookAgain", "complete")
  \/ Complete(w) \/ Fail(w) \/ Missed(w) \/ Cancel(w)

Step(w) ==
  \/ LoadPersisted(w) \/ Requeue(w) \/ Look(w, "check", "claim") \/ Claim(w)
  \/ Execute(w)

-----------------------------------------------------------------------------
(* Around the calls                                                        *)

\* Whoever cancels sets the status of a run that has not ended.
RequestCancel ==
  /\ status \in {"QUEUED", "WAITING_FOR_PROJECTION", "RUNNING"}
  /\ status' = "CANCELLATION_REQUESTED"
  /\ UNCHANGED <<owner, late, stamp, found, checkpoint, pc, job, calls, faults>>

\* The projector delivers the scope.
Project ==
  /\ checkpoint < Required
  /\ checkpoint' = checkpoint + 1
  /\ UNCHANGED <<row, pc, job, calls, faults>>

\* A statement or the traversal throws: inside the try block of execute that
\* leads to its catch block, anywhere else it ends the call.  What follows a
\* missed fence is inside after complete and outside after the others.
Throws(w) ==
  /\ pc[w] # "idle" /\ Fault
  /\ \/ /\ pc[w] \in Executing \ {"fail", "cancel"}
        /\ Goto(w, "fail") /\ UNCHANGED job
     \/ pc[w] \notin Executing \ {"fail", "missed", "cancel"} /\ Leave(w)
  /\ UNCHANGED <<row, checkpoint, calls>>

Crash(w) ==
  /\ pc[w] # "idle" /\ Fault
  /\ Leave(w)
  /\ UNCHANGED <<row, checkpoint, calls>>

\* The heartbeat renews the lease every ten seconds while the call is alive.
LeaseExpires ==
  /\ status = "RUNNING" /\ ~late
  /\ late' = TRUE
  /\ IF pc[owner] \in Executing THEN Fault ELSE UNCHANGED faults
  /\ UNCHANGED <<status, owner, stamp, found, checkpoint, pc, job, calls>>

Next ==
  \/ RequestCancel \/ Project \/ LeaseExpires
  \/ \E w \in Workers :
       Run(w) \/ Resume(w) \/ RetryRun(w) \/ Step(w) \/ Throws(w) \/ Crash(w)

Spec == Init /\ [][Next]_vars

\* A call that has begun goes on; nobody owes one.
FairSpec == Spec /\ \A w \in Workers : WF_vars(Step(w))

-----------------------------------------------------------------------------
(* Properties                                                              *)

Ended == status \in {"COMPLETE", "PARTIAL"}

\* Whoever wrote it and however often the run was interrupted and resumed, a
\* result and its frontier lead to everything but what lies behind forgotten
\* nodes, and a node is forgotten in three ways only: rows beyond the one that
\* shows there are more, start nodes found and not expanded for there were too
\* many, and the frontier of results that a resume took with an older frontier.
FrontierBelongs == Ended => Covers(result, frontier \cup forgotten, Roots)

\* Nothing is reported that cannot be reached.
OnlyReachable == Reached(result, Roots)

\* "It must not silently read stale" data: who ended the run saw a projection
\* as new as it requires.
EndedAsProjected == Ended => stamp >= Required

\* "Complete means the reachable graph was exhausted."
CompleteIsWhole == status = "COMPLETE" => Roots \subseteq result /\ Closed(result)

\* A call that executes a run changes its row only while the lease it claimed is
\* its own, except to cancel it: what its successor did stays.
LostLeaseIsLost ==
  [][\A w \in Workers :
       pc[w] \in Executing \ {"cancel"} /\ pc'[w] # pc[w] /\ row' # row => owner = w /\ ~late]_vars

\* A request to cancel a run that a call is executing is honoured by that call,
\* or overwritten by a resume or retry that read the run before it.
CancellationIsHonoured ==
  (status = "CANCELLATION_REQUESTED" /\ \E w \in Workers : pc[w] \in Executing)
    ~> (status # "CANCELLATION_REQUESTED" \/ faults > 0)

=============================================================================
