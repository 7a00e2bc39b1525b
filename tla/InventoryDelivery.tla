-------------------------- MODULE InventoryDelivery --------------------------
(***************************************************************************)
(* What a stream of observations promises of the inventories it delivers,  *)
(* without workers, leases, tokens or cursors (docs/superpowers/specs/     *)
(* 2026-08-17-enterprise-continuous-inbound-connectors-design.md):         *)
(*   - "Duplicate delivery is idempotent, sequence gaps fail closed, and   *)
(*     worker takeover resumes from the last accepted checkpoint" (245):   *)
(*     after each page of a run comes its next one;                        *)
(*   - "No incomplete scan can infer deletion or replace a prior complete  *)
(*     snapshot" (246): a run completes after all of its pages, and deletes*)
(*     only what these lacked and a complete snapshot of its boundary has. *)
(* Nothing is promised of what must be deleted: the design asks for it     *)
(* (247), the code does not do it when the source version stays the same.  *)
(***************************************************************************)
EXTENDS Naturals, Sequences

CONSTANTS Runs, Items, Boundary, Versions, Pages

VARIABLES
  delivered,  \* the pages of all runs, in the order of their acceptance
  snapshots,  \* the runs of the complete snapshots, in order
  facts       \* what is known of the identities

vars == <<delivered, snapshots, facts>>

Init == delivered = <<>> /\ snapshots = <<>> /\ facts = {}

Latest(n, r) ==
  /\ delivered[n].run = r
  /\ \A k \in DOMAIN delivered : k > n => delivered[k].run # r

Ends(n, r) == delivered[n].page + 1 = Pages[r]

\* Page p of run r comes after what was delivered of it.
Follows(r, p) ==
  \/ p = 0 /\ \A n \in DOMAIN delivered : delivered[n].run # r
  \/ \E n \in DOMAIN delivered :
       Latest(n, r) /\ p = IF Ends(n, r) THEN 0 ELSE delivered[n].page + 1

\* Of an identity and a source version the first is kept that is heard of it.
Heard(found, r, op) ==
  facts \cup
    {[item |-> e.item, version |-> e.version, run |-> r, op |-> op] :
       e \in {x \in found : \A f \in facts : f.item = x.item => f.version # x.version}}

\* An identity that is deleted does not come back under the same version.
Deliver(r, p, found) ==
  /\ delivered' = Append(delivered, [run |-> r, page |-> p, found |-> found])
  /\ Follows(r, p)
  /\ \A f \in facts, e \in found : f.item = e.item /\ f.version = e.version => f.op = "UPSERT"
  /\ facts' = Heard(found, r, "UPSERT")
  /\ UNCHANGED snapshots

\* The first n pages have identity i in run r.
Has(r, i, n) ==
  \E k \in 1 .. n : delivered[k].run = r /\ \E e \in delivered[k].found : e.item = i

\* The first n pages have all of run r.
Whole(r, n) == \A p \in 0 .. Pages[r] - 1 : \E k \in 1 .. n : delivered[k].run = r /\ delivered[k].page = p

\* What the first n pages of run r lack of the complete snapshots of its boundary
Lost(r, n) ==
  {i \in Items : /\ ~Has(r, i, n)
                 /\ \E k \in DOMAIN snapshots : /\ Boundary[snapshots[k]] = Boundary[r]
                                                /\ Has(snapshots[k], i, Len(delivered))}

Complete(r) ==
  /\ snapshots' = Append(snapshots, r)
  /\ \E n \in 0 .. Len(delivered) :
       /\ Whole(r, n)
       /\ \E lost \in SUBSET Lost(r, n), v \in Versions :
            facts' = Heard([item : lost, version : {v}], r, "TOMBSTONE")
  /\ UNCHANGED delivered

Next == \E r \in Runs :
  \/ Complete(r)
  \/ \E p \in 0 .. Pages[r] - 1, found \in SUBSET [item : Items, version : Versions] :
       Deliver(r, p, found)

Spec == Init /\ [][Next]_vars
=============================================================================
