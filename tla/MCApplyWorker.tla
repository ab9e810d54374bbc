--------------------------- MODULE MCApplyWorker ---------------------------
(***************************************************************************)
(* Instances of ApplyWorker for TLC.  Records r1 and r2 belong to zone z1, *)
(* r3 to z2; bindings b1 and b2 serve z1, b3 serves z2.                    *)
(***************************************************************************)
EXTENDS ApplyWorker, TLC

CONSTANTS r1, r2, r3, b1, b2, b3, z1, z2, k1, k2, old, new

MCRecordZone == (r1 :> z1) @@ (r2 :> z1) @@ (r3 :> z2)
MCBindingZone == [b \in Bindings |-> IF b = b3 THEN z2 ELSE z1]

Rec(k, v) == [key |-> k, val |-> v]
Row(r, op, before, after) ==
    [record |-> r, op |-> op, before |-> before, after |-> after]
Body(policy, items) == [policy |-> policy, items |-> items]

Empty == [k \in Keys |-> Absent]
Holding1 == (k1 :> old) @@ (k2 :> Absent)
MCContents == {Empty, Holding1}
EmptyContents == {Empty}

Create1   == Row(r1, "create", NULL, Rec(k1, new))
Create2   == Row(r2, "create", NULL, Rec(k2, new))
Update1   == Row(r1, "update", Rec(k1, old), Rec(k1, new))
Delete1   == Row(r1, "delete", Rec(k1, old), NULL)
Recreate1 == Row(r2, "create", NULL, Rec(k1, new))
Create3   == Row(r3, "create", NULL, Rec(k2, new))
Bad2      == Row(r2, "update", NULL, NULL)
Broken3   == Row(r3, "update", Malformed, Rec(k2, new))

\* Two items on two keys; two items on one key; an item of another zone; a
\* last item that only the worker finds wrong; one that the API refuses.
ItemRequests ==
    { Body("auto",   <<Update1, Create2>>),
      Body("auto",   <<Delete1, Recreate1, Create3>>),
      Body("auto",   <<Create1, Broken3>>),
      Body("manual", <<Update1, Bad2>>),
      Body("auto",   <<Create1, Update1>>) }

\* One item each: what counts is who takes the changeset up, and how often.
ClaimRequests == { Body("auto", <<Create1>>), Body("manual", <<Create3>>) }

\* As many items as a changeset needs to fail halfway.
FlowRequests == { Body("auto", <<Create1, Create2>>), Body("manual", <<Bad2>>) }
=============================================================================
