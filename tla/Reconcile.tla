----------------------------- MODULE Reconcile -----------------------------
(***************************************************************************)
(* The reconcile worker as a whole (start_all of crates/worker/src/lib.rs, *)
(* started by crates/api/src/main.rs): one process in which the apply      *)
(* loop, the observe loop and the retry loop run side by side.  They share *)
(* the database (desired records, bindings) and the zones of the           *)
(* providers: what the apply loop and its rollbacks write is what the two  *)
(* other loops list.  Nobody else writes the zones here.                   *)
(*                                                                         *)
(* A step of the whole is a step of ApplyWorker or of SyncLoops, or of     *)
(* both where they share something.                                        *)
(***************************************************************************)
EXTENDS Naturals, Sequences

CONSTANTS
    Workers, Clients, Changesets, Records, Bindings, Zones, RecordZone,
    BindingZone, InitialBindings, Keys, Values, Absent, NULL, Malformed,
    NoChangeset, Requests, InitialContents, MaxFaults,
    InitialRecords, Key, Desired, Unparsable, NoRow, NoBinding, Failed,
    RetryLimit, MaxTime, MaxRetry,
    MaxSyncFaults   \* bound on the database errors and restarts of SyncLoops

VARIABLES
    bindings, provider,                                            \* shared
    status, request, earlier, validating, worker, faults,     \* ApplyWorker
    abandoned, known, origin, sent, again,
    records, rows, reachable, clock, observer, retrier,         \* SyncLoops
    syncFaults, changedAt, failures

Apply == INSTANCE ApplyValuesProofs
Sync  == INSTANCE SyncLoopsProofs WITH faults <- syncFaults, MaxFaults <- MaxSyncFaults

ASSUME PartsAssumption ==
    /\ Apply!ZonesAssumption /\ Apply!RequestsAssumption /\ Apply!SentinelsAssumption
    /\ Sync!SyncAssumption /\ Sync!ContentsAssumption /\ Sync!NoRowAssumption

\* What only one of the two has.
applyOnly == <<status, request, earlier, validating, worker, faults, abandoned,
               known, origin, sent, again>>
syncOnly  == <<records, rows, reachable, clock, observer, retrier, syncFaults,
               failures>>

vars == <<bindings, provider, applyOnly, syncOnly, changedAt>>

-----------------------------------------------------------------------------
\* The foreign key of changeset_items: the records of the items exist.
CreateChangeset(c, r) ==
    /\ \A i \in DOMAIN r.items : r.items[i].record \in records
    /\ Apply!CreateChangeset(c, r)
    /\ UNCHANGED <<syncOnly, changedAt>>

Validate ==
    /\ \E v \in Clients :
          \/ \E c \in Changesets : Apply!ValidateRead(v, c)
          \/ Apply!ValidateWrite(v)
          \/ Apply!ValidateAbort(v)
    /\ UNCHANGED <<syncOnly, changedAt>>

CreateProvider(b) == Apply!CreateProvider(b) /\ UNCHANGED <<syncOnly, changedAt>>

\* The loops of SyncLoops see nothing of a step of the apply loop but what
\* the zones hold after it.
Stamps ==
    /\ changedAt' = [b \in Bindings |-> [k \in Keys |->
                        IF provider'[b][k] # provider[b][k] THEN clock
                                                            ELSE changedAt[b][k]]]
    /\ UNCHANGED syncOnly

ApplyLoop(w) == Apply!WorkerStep(w) /\ Stamps

\* A step of the apply loop in which something fails but the process lives.
ApplyFails(w) ==
    /\ \/ Apply!Abandon(w) \/ Apply!ItemFails(w) \/ Apply!UndoFails(w)
       \/ \E c \in Changesets : Apply!ClaimFails(w, c)
       \/ \E b \in Bindings : Apply!PushLandsAndFails(w, b)
                                 \/ Apply!RestoreLandsAndFails(w, b)
    /\ Stamps

SyncStep ==
    /\ \/ Sync!Observe \/ Sync!Retry
       \/ Sync!Tick
       \/ \E r \in Records : Sync!CreateRecord(r)
       \/ \E b \in Bindings : Sync!ReachabilityChanges(b)
    /\ UNCHANGED applyOnly

SyncFails ==
    /\ \/ Sync!ObserveWriteFails
       \/ \E b \in Bindings : Sync!ObserveReadFails(b) \/ Sync!RetryReadFails(b)
       \/ \E p \in Sync!Pairs : Sync!RetryWriteFails(p)
    /\ UNCHANGED applyOnly

\* The loops are tasks of one process, and stop together.
Restart(w) == /\ Apply!Crash(w) \/ (worker[w].pc = "poll" /\ UNCHANGED applyOnly)
              /\ Sync!Restart

Init == Apply!Init /\ Sync!Init

Next ==
    \/ \E c \in Changesets, r \in Requests : CreateChangeset(c, r)
    \/ Validate
    \/ \E b \in Bindings : CreateProvider(b)
    \/ \E w \in Workers : ApplyLoop(w) \/ ApplyFails(w) \/ Restart(w)
    \/ SyncStep \/ SyncFails

Spec == Init /\ [][Next]_vars

\* Every loop ticks for ever, and its calls return.
FairSpec ==
    /\ Spec
    /\ \A w \in Workers : WF_vars(ApplyLoop(w))
    /\ WF_vars(Sync!Observe /\ UNCHANGED applyOnly)
    /\ WF_vars(Sync!Retry /\ UNCHANGED applyOnly)

-----------------------------------------------------------------------------
(* Properties.                                                             *)

\* With the two other loops around it the apply loop does what ApplyWorker
\* says: the zones change through changesets and in no other way.  Drift is
\* reported and never overwritten (design.md 5.4).
ImplementsApply == Apply!Spec

\* With the apply loop around them the two other loops do what SyncLoops
\* says: every write of the apply loop and of its rollbacks, those that land
\* although the call fails included, changes one record set of one binding,
\* so the verdicts of the loops hold for zones that changesets change.
ImplementsSync == Sync!Spec

\* c is applied, and v is what its last item for the record of p leaves at
\* the binding of p.
Edits(c, p, v) ==
    LET items == Apply!ItemsOf(c) IN
    /\ status[c] = "applied"
    /\ p[2] \in known[c]
    /\ \E i \in DOMAIN items :
          /\ Apply!InZone(p[2], items[i])
          /\ Apply!KeyOf(items[i]) = Key[p[1]]
          /\ Apply!Image(items[i]) = v
          /\ \A j \in DOMAIN items : ~ Apply!Shadows(items, i, j)

NoOther(c) == \A d \in Changesets \ {c} : status[d] \in {"absent", "draft", "validated"}

\* What an applied changeset means for its records, when no other follows and
\* its bindings stay reachable: the observed status settles, at in_sync if
\* the last item on the record writes the desired content, and at drift if
\* it writes another or deletes it, as applying does not change
\* desired_records.
EditsAreSeen ==
    \A c \in Changesets, p \in {q \in Sync!Pairs : Sync!Parsable(q)},
       v \in Values \union {Absent} :
        <>[](/\ Edits(c, p, v) /\ NoOther(c)
             /\ p[1] \in records /\ p[2] \in reachable)
        => <>[](/\ rows[p] # NoRow
                /\ rows[p].status = IF v = Desired[p[1]] THEN "in_sync" ELSE "drift")

=============================================================================
