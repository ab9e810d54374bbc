---------------------------- MODULE MCReconcile ----------------------------
(***************************************************************************)
(* An instance of Reconcile for TLC: the zone of r1 has one binding, that  *)
(* of r2 none, so that an item on r2 fails.                                *)
(***************************************************************************)
EXTENDS Reconcile

CONSTANTS r1, r2, b1, z1, z2, k1, k2, good, bad

MCRecordZone == [r \in Records |-> IF r = r1 THEN z1 ELSE z2]
MCBindingZone == [b \in Bindings |-> z1]
MCKey == [r \in Records |-> k1]
MCDesired == [r \in Records |-> good]

\* A record that no changeset is about.
MCContents == {[k \in Keys |-> IF k = k1 THEN Absent ELSE bad]}

Rec(v) == [key |-> k1, val |-> v]
Row(r, op, before, after) ==
    [record |-> r, op |-> op, before |-> before, after |-> after]
Body(policy, items) == [policy |-> policy, items |-> items]

\* A record as it is desired, and one that is taken back because a second item
\* fails; an edit away from what is desired; the deletion of what is not there.
MCRequests ==
    {Body("auto", <<Row(r1, "create", NULL, Rec(good))>>),
     Body("auto", <<Row(r1, "create", NULL, Rec(good)),
                    Row(r2, "create", NULL, Rec(good))>>),
     Body("auto", <<Row(r1, "update", NULL, Rec(bad))>>),
     Body("manual", <<Row(r1, "delete", Rec(good), NULL)>>)}
=============================================================================
