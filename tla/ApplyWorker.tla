---------------------------- MODULE ApplyWorker ----------------------------
(***************************************************************************)
(* The path of a changeset from the API that creates and validates it to   *)
(* the DNS providers: crates/api/src/routes/changesets.rs and the apply    *)
(* loop of crates/worker/src/lib.rs, with the database and the providers   *)
(* they share.  A step is what happens between two awaits: one statement   *)
(* or transaction on the database, or one call of a provider.              *)
(*                                                                         *)
(* Snapshots (before_value, after_value) are free JSON given by the client *)
(* and parsed only by the worker: NULL, Malformed, or a ProviderRecord,    *)
(* here a key (name and type) and a value (rdata and TTL).                 *)
(***************************************************************************)
EXTENDS ChangesetStatus, Naturals, Sequences

CONSTANTS
    Workers,         \* processes that run the apply loop on one database
    Clients,         \* API requests that can be open at the same time
    Changesets,      \* changeset identifiers
    Records,         \* identifiers of the rows of desired_records
    Bindings,        \* identifiers of provider_bindings, created or not yet
    Zones,           \* zone identifiers
    RecordZone,      \* the zone of each record
    BindingZone,     \* the zone of each binding
    InitialBindings, \* the bindings that exist at the start
    Keys,            \* record keys: name and type
    Values,          \* record contents: rdata and TTL
    Absent,          \* the provider holds no record of a key
    NULL,            \* SQL NULL
    Malformed,       \* JSON that is not a ProviderRecord
    NoChangeset,     \* no changeset
    Requests,        \* the bodies clients may send to create_changeset
    InitialContents, \* what a provider's zone may hold at the start
    MaxFaults        \* bound on the faults of a behaviour

Snapshots == [key : Keys, val : Values] \union {NULL, Malformed}

Item == [record : Records \union {NULL}, op : STRING,
         before : Snapshots, after : Snapshots]

Contents == [Keys -> Values \union {Absent}]

ASSUME ZonesAssumption ==
    /\ RecordZone \in [Records -> Zones]
    /\ BindingZone \in [Bindings -> Zones]
    /\ InitialBindings \subseteq Bindings

ASSUME RequestsAssumption ==
    /\ Requests \subseteq [policy : STRING, items : Seq(Item)]
    /\ InitialContents \subseteq Contents
    /\ MaxFaults \in Nat

ASSUME SentinelsAssumption ==
    /\ NULL \notin Requests /\ NULL \notin Records
    /\ NULL \notin [key : Keys, val : Values]
    /\ Malformed \notin [key : Keys, val : Values]
    /\ NULL # Malformed
    /\ NoChangeset \notin Changesets
    /\ Absent \notin Values

VARIABLES
    status,     \* the database: status of each changeset
    request,    \* the database: policy and items of each changeset
    earlier,    \* the database: the changesets with a smaller created_at
    bindings,   \* the database: active provider bindings
    provider,   \* the providers: what the zone of each binding holds
    validating, \* the changeset a client's open validate transaction has read
    worker,     \* the local state of the apply loop of each worker
    faults,     \* number of faults so far
    abandoned,  \* history: changesets a worker claimed and dropped halfway
    known,      \* history: the bindings active when a changeset was claimed
    origin,     \* history: the providers when a worker claimed its changeset
    sent,       \* history: the items of each changeset written to a binding
    again       \* history: the items written a second time

db == <<status, request, earlier, bindings>>
history == <<abandoned, known, origin, sent, again>>
vars == <<status, request, earlier, bindings, provider, validating, worker,
          faults, abandoned, known, origin, sent, again>>

-----------------------------------------------------------------------------
(* The API: create_changeset, validate_changeset, create_provider.         *)

Operations == {"create", "update", "delete"}
Policies == {"auto", "manual", "frozen_on_failure"}

\* The body passes the checks of the handler, the foreign key on record_id
\* and the primary key (changeset_id, record_id).
Acceptable(r) ==
    /\ r.items # << >>
    /\ r.policy \in Policies
    /\ \A i \in DOMAIN r.items :
          LET it == r.items[i] IN
          /\ it.op \in Operations
          /\ it.op = "create" => it.after # NULL
          /\ it.op = "delete" => it.before # NULL
          /\ it.record \in Records
          /\ \A j \in DOMAIN r.items : r.items[j].record = it.record => j = i

CreateChangeset(c, r) ==
    /\ status[c] = "absent"
    /\ Acceptable(r)
    /\ status' = [status EXCEPT ![c] = "draft"]
    /\ request' = [request EXCEPT ![c] = r]
    /\ earlier' = [earlier EXCEPT ![c] =
                      {d \in Changesets : status[d] # "absent"}]
    /\ UNCHANGED <<bindings, provider, validating, worker, faults, history>>

\* The transaction of validate_changeset reads the status ...
ValidateRead(v, c) ==
    /\ validating[v] = NoChangeset
    /\ CanTransition(status[c], "validated")
    /\ validating' = [validating EXCEPT ![v] = c]
    /\ UNCHANGED <<db, provider, worker, faults, history>>

\* Mutant: the handler reads and writes without a transaction.
SerializableNot(c) == TRUE

\* ... and updates it without looking at it again.  The database makes the
\* transaction serializable: it commits only if what it read still stands.
Serializable(c) == CanTransition(status[c], "validated")

\* Mutant: status_to_db writes a word the schema does not know.
ValidateWriteMisspelt(v) ==
    /\ validating[v] # NoChangeset
    /\ Serializable(validating[v])
    /\ status' = [status EXCEPT ![validating[v]] = "valid"]
    /\ validating' = [validating EXCEPT ![v] = NoChangeset]
    /\ UNCHANGED <<request, earlier, bindings, provider, worker, faults, history>>

ValidateWrite(v) ==
    /\ validating[v] # NoChangeset
    /\ Serializable(validating[v])
    /\ status' = [status EXCEPT ![validating[v]] = "validated"]
    /\ validating' = [validating EXCEPT ![v] = NoChangeset]
    /\ UNCHANGED <<request, earlier, bindings, provider, worker, faults, history>>

\* The transaction fails (SQLITE_BUSY, a lost connection) and is rolled back.
ValidateAbort(v) ==
    /\ validating[v] # NoChangeset
    /\ validating' = [validating EXCEPT ![v] = NoChangeset]
    /\ UNCHANGED <<db, provider, worker, faults, history>>

CreateProvider(b) ==
    /\ b \notin bindings
    /\ bindings' = bindings \union {b}
    /\ UNCHANGED <<status, request, earlier, provider, validating, worker,
                   faults, history>>

-----------------------------------------------------------------------------
(* The local state of a worker.                                            *)
(*   pc       where it is in process_apply_batch / apply_single_changeset  *)
(*   batch    rows of the last poll it has not taken up yet                *)
(*   cs       the changeset it has claimed                                 *)
(*   applied  length of the vector `applied`: items written everywhere     *)
(*   item     index of the item being applied or undone                    *)
(*   todo     bindings the loop over `bindings` has not reached yet        *)

PCs == {"poll", "row", "load", "item", "push", "commit",
        "failed", "undo", "restore", "undone", "undofailed"}

\* Where the changeset the worker has claimed is "applying" / "rolling_back".
Applying    == {"load", "item", "push", "commit", "failed"}
RollingBack == {"undo", "restore", "undone", "undofailed"}
Holding     == Applying \union RollingBack

\* apply_single_changeset has returned: on to the next row, or the next tick.
Return(rows) == [pc |-> IF rows = {} THEN "poll" ELSE "row", batch |-> rows,
                 cs |-> NoChangeset, applied |-> 0, item |-> 0, todo |-> {}]

\* The changeset w works on: the oldest row of the batch, or the claimed one.
WorksOn(w, c) ==
    IF worker[w].pc = "row"
    THEN c \in worker[w].batch /\ earlier[c] \intersect worker[w].batch = {}
    ELSE worker[w].pc \in Holding /\ c = worker[w].cs

ItemsOf(c) == request[c].items

\* Mutant: the items are read in the reverse of rowid order.
CurrentItemReversed(w) ==
    LET items == ItemsOf(worker[w].cs)
    IN  items[Len(items) + 1 - worker[w].item]

CurrentItem(w) == ItemsOf(worker[w].cs)[worker[w].item]

\* Active bindings of the zone of the item's record.
Targets(it) == {b \in bindings : BindingZone[b] = RecordZone[it.record]}

\* The snapshots deserialize.
Parses(it) == it.before # Malformed /\ it.after # Malformed

\* The value the operation needs is there.
Writable(it) == IF it.op = "delete" THEN it.before # NULL ELSE it.after # NULL

\* Mutant: the adapter replaces the zone instead of one record set.
WrittenAlone(it, contents) ==
    [k \in Keys |-> IF it.op = "delete" THEN Absent
                   ELSE IF k = it.after.key THEN it.after.val ELSE Absent]

\* upsert_record / delete_record of an item on a zone.
Written(it, contents) ==
    IF it.op = "delete" THEN [contents EXCEPT ![it.before.key] = Absent]
                        ELSE [contents EXCEPT ![it.after.key] = it.after.val]

\* The call rollback_items makes for an item that was applied.
Undone(it, contents) ==
    IF it.op = "create" THEN [contents EXCEPT ![it.after.key] = Absent]
    ELSE IF it.before = NULL THEN contents
    ELSE [contents EXCEPT ![it.before.key] = it.before.val]

\* Mutant: the UPDATE has no "AND status = ?".
UpdateStatusBlind(c, from, to) ==
    /\ CanTransition(from, to)
    /\ status' = [status EXCEPT ![c] = to]

\* update_changeset_status: compare and swap on the status column.
UpdateStatus(c, from, to) ==
    /\ CanTransition(from, to)
    /\ status[c] = from
    /\ status' = [status EXCEPT ![c] = to]

\* The status a worker at pc believes its changeset to have.
Expected(pc) == IF pc = "row" THEN "validated"
                ELSE IF pc \in Applying THEN "applying" ELSE "rolling_back"

\* The program counters at which the next statement updates the status of a
\* claimed changeset.
Updating == {"commit", "failed", "undone", "undofailed"}

\* A step that only moves worker w.
Local == UNCHANGED <<db, provider, validating, faults, history>>

-----------------------------------------------------------------------------
(* process_apply_batch *)

\* A tick that finds validated changesets.
Poll(w) ==
    LET rows == {c \in Changesets : status[c] = "validated"} IN
    /\ worker[w].pc = "poll"
    /\ rows # {}
    /\ worker' = [worker EXCEPT ![w] = Return(rows)]
    /\ Local

\* The status update of the next row succeeds: validated -> applying.
Claim(w, c) ==
    /\ worker[w].pc = "row"
    /\ WorksOn(w, c)
    /\ UpdateStatus(c, "validated", "applying")
    /\ worker' = [worker EXCEPT ![w].pc = "load", ![w].cs = c,
                                ![w].batch = @ \ {c}]
    /\ known' = [known EXCEPT ![c] = bindings]
    /\ origin' = [origin EXCEPT ![w] = provider]
    /\ UNCHANGED <<request, earlier, bindings, provider, validating, faults,
                   abandoned, sent, again>>

\* Mutant: the number of rows affected is not looked at.
LostGoesOn(w, c) ==
    /\ worker[w].pc = "row"
    /\ WorksOn(w, c)
    /\ status[c] # "validated"
    /\ worker' = [worker EXCEPT ![w].pc = "load", ![w].cs = c,
                                ![w].batch = @ \ {c}]
    /\ Local

\* A status update affects no row: somebody else has moved the changeset.
Lost(w, c) ==
    /\ worker[w].pc \in {"row"} \union Updating
    /\ WorksOn(w, c)
    /\ status[c] # Expected(worker[w].pc)
    /\ worker' = [worker EXCEPT ![w] = Return(worker[w].batch \ {c})]
    /\ Local

-----------------------------------------------------------------------------
(* apply_items, apply_one_item *)

Load(w) ==
    /\ worker[w].pc = "load"
    /\ worker' = [worker EXCEPT ![w].pc = "item", ![w].item = 1]
    /\ Local

\* Snapshots are parsed and the bindings of the item read.
StartItem(w) ==
    /\ worker[w].pc = "item"
    /\ Parses(CurrentItem(w))
    /\ Targets(CurrentItem(w)) # {}
    /\ worker' = [worker EXCEPT ![w].pc = "push",
                                ![w].todo = Targets(CurrentItem(w))]
    /\ Local

\* The item cannot be applied: a snapshot does not parse or is missing, or
\* the zone has no active binding.
Refuse(w) ==
    /\ \/ worker[w].pc = "item" /\ ~ Parses(CurrentItem(w))
       \/ worker[w].pc = "item" /\ Targets(CurrentItem(w)) = {}
       \/ worker[w].pc = "push" /\ ~ Writable(CurrentItem(w))
    /\ worker' = [worker EXCEPT ![w].pc = "failed", ![w].todo = {}]
    /\ Local

\* The write of the current item to b takes effect.
Land(w, b) ==
    LET c == worker[w].cs
        write == <<worker[w].item, b>> IN
    /\ provider' = [provider EXCEPT ![b] = Written(CurrentItem(w), @)]
    /\ sent' = [sent EXCEPT ![c] = @ \union {write}]
    /\ again' = IF write \in sent[c] THEN again \union {<<c, write>>} ELSE again
    /\ UNCHANGED <<db, validating, abandoned, known, origin>>

\* upsert_record or delete_record returns Ok.
Push(w, b) ==
    /\ worker[w].pc = "push"
    /\ Writable(CurrentItem(w))
    /\ b \in worker[w].todo
    /\ Land(w, b)
    /\ worker' = [worker EXCEPT ![w].todo = @ \ {b}]
    /\ UNCHANGED faults

AfterItem(w) ==
    IF worker[w].item < Len(ItemsOf(worker[w].cs)) THEN "item" ELSE "commit"

\* Mutant: the item is done after its first binding.
ItemDoneEarly(w) ==
    /\ worker[w].pc = "push"
    /\ worker[w].todo # Targets(CurrentItem(w))
    /\ worker' = [worker EXCEPT ![w].pc = AfterItem(w), ![w].applied = @ + 1,
                                ![w].item = @ + 1]
    /\ Local

\* All bindings have the item: it joins `applied`.
ItemDone(w) ==
    /\ worker[w].pc = "push"
    /\ worker[w].todo = {}
    /\ worker' = [worker EXCEPT ![w].pc = AfterItem(w), ![w].applied = @ + 1,
                                ![w].item = @ + 1]
    /\ Local

\* The last status update of apply_single_changeset, whatever the outcome.
Close(w, pc, from, to) ==
    /\ worker[w].pc = pc
    /\ UpdateStatus(worker[w].cs, from, to)
    /\ worker' = [worker EXCEPT ![w] = Return(worker[w].batch)]
    /\ UNCHANGED <<request, earlier, bindings, provider, validating, faults,
                   history>>

Commit(w) == Close(w, "commit", "applying", "applied")

\* Mutant: the early return comes before the status update.
FreezeForgets(w) ==
    /\ worker[w].pc = "failed"
    /\ worker' = [worker EXCEPT ![w] = Return(worker[w].batch)]
    /\ Local

\* The policy is not "auto", or 30 s have elapsed since the claim.
Freeze(w) == Close(w, "failed", "applying", "frozen")

-----------------------------------------------------------------------------
(* rollback_items: the items of `applied`, last one first. *)

UndoFrom(k) == IF k = 0 THEN "undone" ELSE "undo"

BeginRollback(w) ==
    /\ worker[w].pc = "failed"
    /\ request[worker[w].cs].policy = "auto"
    /\ UpdateStatus(worker[w].cs, "applying", "rolling_back")
    /\ worker' = [worker EXCEPT ![w].pc = UndoFrom(worker[w].applied),
                                ![w].item = worker[w].applied]
    /\ UNCHANGED <<request, earlier, bindings, provider, validating, faults,
                   history>>

\* The bindings of the item's zone are read again.
StartUndo(w) ==
    /\ worker[w].pc = "undo"
    /\ worker' = [worker EXCEPT ![w].pc = "restore",
                                ![w].todo = Targets(CurrentItem(w))]
    /\ Local

\* Mutant: the applied items are undone first one first.
RestoreForward(w, b) ==
    LET W == worker[w] IN
    /\ W.pc = "restore"
    /\ b \in W.todo
    /\ provider' = [provider EXCEPT ![b] =
                       Undone(ItemsOf(W.cs)[W.applied + 1 - W.item], @)]
    /\ worker' = [worker EXCEPT ![w].todo = @ \ {b}]
    /\ UNCHANGED <<db, validating, faults, history>>

Restore(w, b) ==
    /\ worker[w].pc = "restore"
    /\ b \in worker[w].todo
    /\ provider' = [provider EXCEPT ![b] = Undone(CurrentItem(w), @)]
    /\ worker' = [worker EXCEPT ![w].todo = @ \ {b}]
    /\ UNCHANGED <<db, validating, faults, history>>

UndoDone(w) ==
    /\ worker[w].pc = "restore"
    /\ worker[w].todo = {}
    /\ worker' = [worker EXCEPT ![w].pc = UndoFrom(worker[w].item - 1),
                                ![w].item = @ - 1]
    /\ Local

CloseRolledBack(w) == Close(w, "undone", "rolling_back", "rolled_back")

\* Mutant: a failed rollback is logged and nothing else.
CloseRollbackFailedForgets(w) ==
    /\ worker[w].pc = "undofailed"
    /\ worker' = [worker EXCEPT ![w] = Return(worker[w].batch)]
    /\ Local

CloseRollbackFailed(w) ==
    Close(w, "undofailed", "rolling_back", "rollback_failed")

-----------------------------------------------------------------------------
(* Faults of the database, of the providers and of the process.            *)

Fault == faults < MaxFaults /\ faults' = faults + 1

\* The claim fails: the row is skipped and found again by the next poll.
ClaimFails(w, c) ==
    /\ worker[w].pc = "row"
    /\ WorksOn(w, c)
    /\ Fault
    /\ worker' = [worker EXCEPT ![w] = Return(worker[w].batch \ {c})]
    /\ UNCHANGED <<db, provider, validating, history>>

\* Reading the items, or a later status update, fails: the error is logged
\* and the changeset is left in the status it has.
Abandon(w) ==
    /\ worker[w].pc \in {"load"} \union Updating
    /\ Fault
    /\ worker' = [worker EXCEPT ![w] = Return(worker[w].batch)]
    /\ abandoned' = abandoned \union {worker[w].cs}
    /\ UNCHANGED <<db, provider, validating, known, origin, sent, again>>

\* Reading an item's zone or bindings fails, or before a call the adapter is
\* missing, the credentials do not decrypt, or the provider refuses.
ItemFails(w) ==
    /\ worker[w].pc = "item" \/ (worker[w].pc = "push" /\ worker[w].todo # {})
    /\ Fault
    /\ worker' = [worker EXCEPT ![w].pc = "failed", ![w].todo = {}]
    /\ UNCHANGED <<db, provider, validating, history>>

\* The provider carries the write out and the caller sees an error (timeout).
PushLandsAndFails(w, b) ==
    /\ worker[w].pc = "push"
    /\ Writable(CurrentItem(w))
    /\ b \in worker[w].todo
    /\ Fault
    /\ Land(w, b)
    /\ worker' = [worker EXCEPT ![w].pc = "failed", ![w].todo = {}]

\* The same for the reads and calls of a rollback.
UndoFails(w) ==
    /\ worker[w].pc = "undo" \/ (worker[w].pc = "restore" /\ worker[w].todo # {})
    /\ Fault
    /\ worker' = [worker EXCEPT ![w].pc = "undofailed", ![w].todo = {}]
    /\ UNCHANGED <<db, provider, validating, history>>

RestoreLandsAndFails(w, b) ==
    /\ worker[w].pc = "restore"
    /\ b \in worker[w].todo
    /\ Fault
    /\ provider' = [provider EXCEPT ![b] = Undone(CurrentItem(w), @)]
    /\ worker' = [worker EXCEPT ![w].pc = "undofailed", ![w].todo = {}]
    /\ UNCHANGED <<db, validating, history>>

\* The process stops and is started again; nothing looks for what it left.
Crash(w) ==
    /\ worker[w].pc # "poll"
    /\ Fault
    /\ worker' = [worker EXCEPT ![w] = Return({})]
    /\ abandoned' = abandoned \union ({worker[w].cs} \ {NoChangeset})
    /\ UNCHANGED <<db, provider, validating, known, origin, sent, again>>

-----------------------------------------------------------------------------
Init ==
    /\ status = [c \in Changesets |-> "absent"]
    /\ request = [c \in Changesets |-> NULL]
    /\ earlier = [c \in Changesets |-> {}]
    /\ bindings = InitialBindings
    /\ provider \in [Bindings -> InitialContents]
    /\ validating = [v \in Clients |-> NoChangeset]
    /\ worker = [w \in Workers |-> Return({})]
    /\ faults = 0
    /\ abandoned = {}
    /\ known = [c \in Changesets |-> {}]
    /\ origin = [w \in Workers |-> provider]
    /\ sent = [c \in Changesets |-> {}]
    /\ again = {}

Api == \/ \E c \in Changesets, r \in Requests : CreateChangeset(c, r)
       \/ \E v \in Clients, c \in Changesets : ValidateRead(v, c)
       \/ \E v \in Clients : ValidateWrite(v) \/ ValidateAbort(v)
       \/ \E b \in Bindings : CreateProvider(b)

\* What the apply loop of w does as long as nothing fails.
WorkerStep(w) ==
    \/ Poll(w) \/ Load(w) \/ StartItem(w) \/ Refuse(w) \/ ItemDone(w)
    \/ Commit(w) \/ Freeze(w) \/ BeginRollback(w) \/ StartUndo(w)
    \/ UndoDone(w) \/ CloseRolledBack(w) \/ CloseRollbackFailed(w)
    \/ \E c \in Changesets : Claim(w, c) \/ Lost(w, c)
    \/ \E b \in Bindings : Push(w, b) \/ Restore(w, b)

FaultStep(w) ==
    \/ Abandon(w) \/ ItemFails(w) \/ UndoFails(w) \/ Crash(w)
    \/ \E c \in Changesets : ClaimFails(w, c)
    \/ \E b \in Bindings : PushLandsAndFails(w, b) \/ RestoreLandsAndFails(w, b)

Next == Api \/ \E w \in Workers : WorkerStep(w) \/ FaultStep(w)

Spec == Init /\ [][Next]_vars

\* The apply loop never stops: it ticks every 5 s and its calls return.
FairSpec == Spec /\ \A w \in Workers : WF_vars(WorkerStep(w))

-----------------------------------------------------------------------------
(* Properties.  Those that compare what a provider holds with what it held *)
(* before are about one worker: a second one writes the same zones.        *)

WorkerState == [pc : PCs, batch : SUBSET Changesets,
                cs : Changesets \union {NoChangeset},
                applied : Nat, item : Nat, todo : SUBSET Bindings]

\* Every variable has the shape its comment gives it.
TypeOK ==
    /\ status \in [Changesets -> Statuses]
    /\ request \in [Changesets -> Requests \union {NULL}]
    /\ earlier \in [Changesets -> SUBSET Changesets]
    /\ bindings \in SUBSET Bindings
    /\ provider \in [Bindings -> Contents]
    /\ validating \in [Clients -> Changesets \union {NoChangeset}]
    /\ worker \in [Workers -> WorkerState]
    /\ faults \in 0 .. MaxFaults
    /\ abandoned \in SUBSET Changesets
    /\ known \in [Changesets -> SUBSET Bindings]
    /\ origin \in [Workers -> [Bindings -> Contents]]
    /\ sent \in [Changesets -> SUBSET (Nat \X Bindings)]
    /\ again \in SUBSET (Changesets \X (Nat \X Bindings))

Holds(w, c) == worker[w].pc \in Holding /\ worker[w].cs = c

\* A changeset is in the hands of at most one worker, and the status column
\* says what that worker is doing with it, whatever other workers, late
\* validations and crashes do: the compare-and-swap of update_changeset_status
\* is the only lock there is.
SingleHolder ==
    \A w \in Workers, c \in Changesets :
        Holds(w, c) =>
            /\ status[c] = Expected(worker[w].pc)
            /\ \A u \in Workers : Holds(u, c) => u = w

\* No item of a changeset is written to a binding a second time: stale
\* batches, validations that overlap the claim, failed updates and restarts
\* never make the apply loop take a changeset up again.
AtMostOnce == again = {}

InZone(b, it) == BindingZone[b] = RecordZone[it.record]

\* "applied" is said only when every item has been written to every binding
\* that its zone had when the changeset was claimed.
AppliedReachesKnown ==
    \A c \in Changesets :
        status[c] = "applied" =>
            \A i \in DOMAIN ItemsOf(c), b \in known[c] :
                InZone(b, ItemsOf(c)[i]) => <<i, b>> \in sent[c]

\* A changeset that is "applying" or "rolling_back" is in the hands of a
\* worker, or a crash or a database error made a worker drop it: no path of
\* apply_single_changeset forgets one.
OrphansAreAbandoned ==
    \A c \in Changesets :
        status[c] \in {"applying", "rolling_back"} =>
            c \in abandoned \/ \E w \in Workers : Holds(w, c)

\* The key an item writes, what it leaves there, and what it says was there.
KeyOf(it) == IF it.op = "delete" THEN it.before.key ELSE it.after.key
Image(it) == IF it.op = "delete" THEN Absent ELSE it.after.val
BeforeImage(it) == IF it.op = "create" THEN Absent ELSE it.before.val

\* j is the last item before i that writes the key of i in the zone of i.
Shadows(items, j, i) ==
    LET Same(k) == /\ KeyOf(items[k]) = KeyOf(items[i])
                   /\ RecordZone[items[k].record] = RecordZone[items[i].record]
    IN  j < i /\ Same(j) /\ \A k \in j + 1 .. i - 1 : ~ Same(k)

\* Just before "applied" is written, each binding known at the claim holds
\* what the last item on each key says: the order of the items survives the
\* loops over items and bindings.
AppliedAsWritten ==
    \A w \in Workers :
        worker[w].pc = "commit" =>
            LET c == worker[w].cs
                items == ItemsOf(c)
            IN  \A i \in DOMAIN items, b \in known[c] :
                   /\ InZone(b, items[i])
                   /\ \A j \in DOMAIN items : ~ Shadows(items, i, j)
                   => provider[b][KeyOf(items[i])] = Image(items[i])

\* The snapshots of the changeset of w told the truth when it was claimed:
\* each item's before_value is what the binding held, or what an earlier item
\* was about to write, and an update keeps the key.
Accurate(w) ==
    LET c == worker[w].cs
        items == ItemsOf(c)
    IN  \A i \in DOMAIN items :
          /\ Parses(items[i]) /\ Writable(items[i])
          /\ items[i].op # "create" => items[i].before # NULL
          /\ items[i].op = "update" => items[i].before.key = items[i].after.key
          /\ \A b \in known[c] : InZone(b, items[i]) =>
                \/ \E j \in DOMAIN items : /\ Shadows(items, j, i)
                                           /\ BeforeImage(items[i]) = Image(items[j])
                \/ /\ \A j \in DOMAIN items : ~ Shadows(items, j, i)
                   /\ BeforeImage(items[i]) = origin[w][b][KeyOf(items[i])]

\* Bindings known at the claim hold again what they held at the claim.
Reverted(w) ==
    \A b \in known[worker[w].cs] : provider[b] = origin[w][b]

\* Just before "rolled_back" is written, a changeset with accurate snapshots
\* whose failing item wrote nothing has been taken back on every binding.
RollbackReverts ==
    \A w \in Workers :
        /\ worker[w].pc = "undone"
        /\ Accurate(w)
        /\ \A write \in sent[worker[w].cs] : write[1] <= worker[w].applied
        => Reverted(w)

\* design.md 5.4, "restore each provider from ChangeSetItem.before_value",
\* and 5.2, "atomic": at the step that writes "rolled_back", a changeset with
\* accurate snapshots has left nothing behind.
RollbackIsAtomic ==
    [][\A w \in Workers :
          /\ worker[w].pc = "undone"
          /\ status'[worker[w].cs] = "rolled_back"
          /\ Accurate(w)
          => Reverted(w)]_vars

\* design.md 6.5, "applied" once every provider is confirmed: at the step that
\* writes "applied", every binding of the items' zones has every item.
AppliedEverywhere ==
    [][\A c \in Changesets :
          status[c] = "applying" /\ status'[c] = "applied" =>
            \A i \in DOMAIN ItemsOf(c), b \in bindings :
                InZone(b, ItemsOf(c)[i]) => <<i, b>> \in sent[c]]_vars

\* The status column moves only as the abstract specification allows.
Lifecycle == INSTANCE ChangesetLifecycle
FollowsLifecycle == Lifecycle!Spec

\* Every validated changeset ends, unless a crash or a database error made
\* its worker drop it: provider errors alone never leave one unfinished.
Settles ==
    \A c \in Changesets :
        status[c] = "validated" ~> (IsTerminal(status[c]) \/ c \in abandoned)

\* design.md 5.6, crash recovery: changesets found "applying" after a restart
\* are resumed, so that every one of them ends.
ApplyingIsResumed ==
    \A c \in Changesets :
        status[c] = "applying" ~> IsTerminal(status[c])

=============================================================================
