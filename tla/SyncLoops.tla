----------------------------- MODULE SyncLoops -----------------------------
(***************************************************************************)
(* The observe loop and the retry loop of crates/worker/src/lib.rs: two    *)
(* tasks of one process that list the zones of the providers, compare them *)
(* with desired_records and write the verdicts into the same rows of       *)
(* sync_states.  Neither loop locks anything, and both carry what they     *)
(* read (rows, timestamps, listings) across several awaits.  The zones     *)
(* change meanwhile: the apply loop writes them, and so do people.         *)
(***************************************************************************)
EXTENDS Naturals

CONSTANTS
    Records,        \* identifiers of desired_records, created or not yet
    Bindings,       \* identifiers of provider_bindings, created or not yet
    Zones,
    RecordZone,     \* the zone of each record
    BindingZone,    \* the zone of each binding
    InitialRecords, \* the records that exist at the start
    InitialBindings,\* the bindings that exist at the start
    InitialContents,\* what a provider's zone may hold at the start
    Keys,           \* record keys: name and type
    Values,         \* record contents up to normalization: rdata and TTL
    Key,            \* the key of each record
    Desired,        \* the desired content of each record, or Unparsable
    Unparsable,     \* parse_desired_record fails: the API took a TTL > u32
    Absent,         \* the provider holds no record of a key
    NULL,           \* SQL NULL
    NoRow,          \* sync_states has no row for a pair
    NoBinding,      \* no binding
    Failed,         \* list_records returned an error
    RetryLimit,     \* the retry count past which the code asks for help: 10
    MaxTime,        \* bound on the clock
    MaxRetry,       \* retry_count is counted up to here
    MaxFaults       \* bound on database errors and restarts

ASSUME SyncAssumption ==
    /\ RecordZone \in [Records -> Zones] /\ BindingZone \in [Bindings -> Zones]
    /\ InitialRecords \subseteq Records /\ InitialBindings \subseteq Bindings
    /\ Key \in [Records -> Keys]
    /\ Desired \in [Records -> Values \union {Unparsable}]
    /\ Unparsable \notin Values /\ Absent \notin Values /\ NULL \notin Values
    /\ NoBinding \notin Bindings
    /\ RetryLimit \in Nat /\ MaxTime \in Nat /\ MaxRetry \in Nat /\ MaxFaults \in Nat

Contents == [Keys -> Values \union {Absent}]

ASSUME ContentsAssumption == InitialContents \subseteq Contents /\ Failed \notin Contents

Row == [status : {"in_sync", "drift", "sync_failed"}, value : Values \union {NULL},
        at : 0 .. MaxTime \union {NULL}, retry : 0 .. MaxRetry]

ASSUME NoRowAssumption == NoRow \notin Row

Pairs == {p \in Records \X Bindings : RecordZone[p[1]] = BindingZone[p[2]]}

VARIABLES
    records,   \* the database: desired records
    bindings,  \* the database: active provider bindings
    rows,      \* the database: sync_states
    provider,  \* what the zone of each binding holds
    reachable, \* the bindings whose list_records succeeds
    clock,     \* the time
    observer,  \* local state of the observe loop
    retrier,   \* local state of the retry loop
    faults,    \* number of database errors and restarts so far
    changedAt, \* history: when a key of a binding last changed
    failures   \* history: sync_failed writes of a pair since the last other one

vars == <<records, bindings, rows, provider, reachable, clock, observer, retrier,
          faults, changedAt, failures>>
world == <<records, bindings, provider, reachable, clock, changedAt>>
loops == <<rows, observer, retrier, faults, failures>>

-----------------------------------------------------------------------------
(* The world around the loops.                                             *)

CreateRecord(r) ==
    /\ r \notin records
    /\ records' = records \union {r}
    /\ UNCHANGED <<bindings, provider, reachable, clock, changedAt, loops>>

CreateProvider(b) ==
    /\ b \notin bindings
    /\ bindings' = bindings \union {b}
    /\ UNCHANGED <<records, provider, reachable, clock, changedAt, loops>>

\* The apply loop or somebody at the provider's console changes a record.
ProviderChanges(b, k, v) ==
    /\ provider[b][k] # v
    /\ provider' = [provider EXCEPT ![b][k] = v]
    /\ changedAt' = [changedAt EXCEPT ![b][k] = clock]
    /\ UNCHANGED <<records, bindings, reachable, clock, loops>>

\* list_records starts to fail, or to succeed again: the network, the
\* credentials, throttling.
ReachabilityChanges(b) ==
    /\ reachable' = IF b \in reachable THEN reachable \ {b} ELSE reachable \union {b}
    /\ UNCHANGED <<records, bindings, provider, clock, changedAt, loops>>

\* Any time may pass between two steps.
Tick ==
    /\ \E t \in clock + 1 .. MaxTime : clock' = t
    /\ UNCHANGED <<records, bindings, provider, reachable, changedAt, loops>>

-----------------------------------------------------------------------------
(* Helpers of both loops.                                                  *)

Capped(n) == IF n < MaxRetry THEN n + 1 ELSE MaxRetry

\* Mutant: the CASE looks at the new status only.
RetryCountKeeps(old, status) ==
    IF status # "sync_failed" \/ old = NoRow THEN 0 ELSE Capped(old.retry)

\* The CASE of upsert_sync_state: retry_count is computed by the database.
RetryCount(old, status) ==
    IF status # "sync_failed" \/ old = NoRow THEN 0
    ELSE IF old.status = "sync_failed" THEN Capped(old.retry)
    ELSE 0

\* upsert_sync_state, one statement.
Upsert(r, b, status, value, at) ==
    /\ rows' = [rows EXCEPT ![<<r, b>>] =
                   [status |-> status, value |-> value, at |-> at,
                    retry |-> RetryCount(rows[<<r, b>>], status)]]
    /\ failures' = [failures EXCEPT ![<<r, b>>] =
                       IF status # "sync_failed" THEN 0
                       ELSE IF @ > MaxRetry THEN @ ELSE @ + 1]

\* fetch_actual_records: the map of the listing, or the error.
Listing(b) == IF b \in reachable THEN provider[b] ELSE Failed

\* Mutant: a record is in sync as soon as the provider has one of its key.
VerdictByKey(r, actual) == IF actual[Key[r]] # Absent THEN "in_sync" ELSE "drift"

\* The verdict on r, given a listing that succeeded.
Verdict(r, actual) == IF actual[Key[r]] = Desired[r] THEN "in_sync" ELSE "drift"

\* Mutant: a missing record is observed as an empty value.
SeenAbsent(r, actual) == actual[Key[r]]

\* last_observed_value
Seen(r, actual) == IF actual[Key[r]] = Absent THEN NULL ELSE actual[Key[r]]

\* One row is written, or skipped because the desired record does not parse.
Judge(r, b, actual, now) ==
    IF actual = Failed THEN Upsert(r, b, "sync_failed", NULL, now)
    ELSE IF Desired[r] = Unparsable THEN UNCHANGED <<rows, failures>>
    ELSE Upsert(r, b, Verdict(r, actual), Seen(r, actual), now)

\* A loop between two bindings, or waiting for its next tick.  todo holds the
\* records (observe) or the entries (retry) still to be judged.
Between(queue) == [pc |-> IF queue = {} THEN "tick" ELSE "binding", queue |-> queue,
                   binding |-> NoBinding, now |-> 0, actual |-> NULL, todo |-> {}]

\* The state of a loop L after it has judged one of its rows.
Judged(L, x) == IF L.todo = {x} THEN Between(L.queue)
                ELSE [L EXCEPT !.todo = @ \ {x}]

-----------------------------------------------------------------------------
(* The observe loop: every 300 s, every active binding.                    *)

ObserveTick ==
    /\ observer.pc = "tick"
    /\ bindings # {}
    /\ observer' = Between(bindings)
    /\ UNCHANGED <<world, rows, retrier, faults, failures>>

\* observe_one_binding takes the time and reads the desired records.
ObserveBinding(b) ==
    LET mine == {r \in records : RecordZone[r] = BindingZone[b]} IN
    /\ observer.pc = "binding"
    /\ b \in observer.queue
    /\ observer' = IF mine = {} THEN Between(observer.queue \ {b})
                   ELSE [observer EXCEPT !.pc = "list", !.queue = @ \ {b},
                                         !.binding = b, !.now = clock, !.todo = mine]
    /\ UNCHANGED <<world, rows, retrier, faults, failures>>

ObserveList ==
    /\ observer.pc = "list"
    /\ observer' = [observer EXCEPT !.pc = "write", !.actual = Listing(observer.binding)]
    /\ UNCHANGED <<world, rows, retrier, faults, failures>>

\* Mutant: every row is stamped with the time of its write.
ObserveWriteLate(r) ==
    /\ observer.pc = "write"
    /\ r \in observer.todo
    /\ Judge(r, observer.binding, observer.actual, clock)
    /\ observer' = Judged(observer, r)
    /\ UNCHANGED <<world, retrier, faults>>

\* Mutant: drift is overwritten with the desired record.
ObserveOverwrites(r) ==
    LET b == observer.binding IN
    /\ observer.pc = "write"
    /\ r \in observer.todo
    /\ Judge(r, b, observer.actual, observer.now)
    /\ observer' = Judged(observer, r)
    /\ provider' = IF observer.actual = Failed \/ Desired[r] = Unparsable THEN provider
                   ELSE [provider EXCEPT ![b][Key[r]] = Desired[r]]
    /\ changedAt' = changedAt
    /\ UNCHANGED <<records, bindings, reachable, clock, retrier, faults>>

\* Mutant: a provider error ends the whole batch.
ObserveErrorEndsBatch(r) ==
    /\ observer.pc = "write"
    /\ r \in observer.todo
    /\ Judge(r, observer.binding, observer.actual, observer.now)
    /\ observer' = IF observer.actual = Failed THEN Between({}) ELSE Judged(observer, r)
    /\ UNCHANGED <<world, retrier, faults>>

ObserveWrite(r) ==
    /\ observer.pc = "write"
    /\ r \in observer.todo
    /\ Judge(r, observer.binding, observer.actual, observer.now)
    /\ observer' = Judged(observer, r)
    /\ UNCHANGED <<world, retrier, faults>>

-----------------------------------------------------------------------------
(* The retry loop: every 60 s, the failed rows whose backoff has elapsed.  *)

\* backoff_secs; 2^12 > 3600, so larger exponents need not be computed.
Backoff(n) == IF n < 12 THEN 2 ^ n ELSE 3600

\* should_retry
Due(row) == row.at = NULL \/ clock - row.at >= Backoff(row.retry)

RetryTick ==
    LET due == {p \in Pairs : /\ rows[p] # NoRow
                              /\ rows[p].status = "sync_failed"
                              /\ Due(rows[p])}
    IN  /\ retrier.pc = "tick"
        /\ due # {}
        /\ retrier' = Between(due)
        /\ UNCHANGED <<world, rows, observer, faults, failures>>

\* retry_one_binding takes the time and reads the binding.
RetryBinding(b) ==
    LET mine == {p \in retrier.queue : p[2] = b} IN
    /\ retrier.pc = "binding"
    /\ mine # {}
    /\ retrier' = [retrier EXCEPT !.pc = "list", !.queue = @ \ mine,
                                  !.binding = b, !.now = clock, !.todo = mine]
    /\ UNCHANGED <<world, rows, observer, faults, failures>>

RetryList ==
    /\ retrier.pc = "list"
    /\ retrier' = [retrier EXCEPT !.pc = "write", !.actual = Listing(retrier.binding)]
    /\ UNCHANGED <<world, rows, observer, faults, failures>>

RetryWrite(p) ==
    /\ retrier.pc = "write"
    /\ p \in retrier.todo
    /\ Judge(p[1], p[2], retrier.actual, retrier.now)
    /\ retrier' = Judged(retrier, p)
    /\ UNCHANGED <<world, observer, faults>>

-----------------------------------------------------------------------------
(* Database errors and restarts.                                           *)

Fault == faults < MaxFaults /\ faults' = faults + 1

\* The desired records of b cannot be read: the binding is skipped.
ObserveReadFails(b) ==
    /\ observer.pc = "binding"
    /\ b \in observer.queue
    /\ Fault
    /\ observer' = Between(observer.queue \ {b})
    /\ UNCHANGED <<world, rows, retrier, failures>>

\* A write of the observe loop fails: the rest of the binding is skipped.
ObserveWriteFails ==
    /\ observer.pc = "write"
    /\ Fault
    /\ observer' = Between(observer.queue)
    /\ UNCHANGED <<world, rows, retrier, failures>>

\* The row of b cannot be read: its entries wait for the next batch.
RetryReadFails(b) ==
    LET mine == {p \in retrier.queue : p[2] = b} IN
    /\ retrier.pc = "binding"
    /\ mine # {}
    /\ Fault
    /\ retrier' = Between(retrier.queue \ mine)
    /\ UNCHANGED <<world, rows, observer, failures>>

\* A write of the retry loop fails: the next entry is judged.
RetryWriteFails(p) ==
    /\ retrier.pc = "write"
    /\ p \in retrier.todo
    /\ Fault
    /\ retrier' = Judged(retrier, p)
    /\ UNCHANGED <<world, rows, observer, failures>>

\* Both loops are tasks of one process.
Restart ==
    /\ Fault
    /\ observer' = Between({})
    /\ retrier' = Between({})
    /\ UNCHANGED <<world, rows, failures>>

-----------------------------------------------------------------------------
Init ==
    /\ records = InitialRecords
    /\ bindings = InitialBindings
    /\ rows = [p \in Pairs |-> NoRow]
    /\ provider \in [Bindings -> InitialContents]
    /\ reachable = Bindings
    /\ clock = 0
    /\ observer = Between({})
    /\ retrier = Between({})
    /\ faults = 0
    /\ changedAt = [b \in Bindings |-> [k \in Keys |-> 0]]
    /\ failures = [p \in Pairs |-> 0]

World == \/ \E r \in Records : CreateRecord(r)
         \/ \E b \in Bindings : CreateProvider(b) \/ ReachabilityChanges(b)
         \/ \E b \in Bindings, k \in Keys, v \in Values \union {Absent} :
               ProviderChanges(b, k, v)
         \/ Tick

Observe == \/ ObserveTick \/ ObserveList
           \/ \E b \in Bindings : ObserveBinding(b)
           \/ \E r \in Records : ObserveWrite(r)

Retry == \/ RetryTick \/ RetryList
         \/ \E b \in Bindings : RetryBinding(b)
         \/ \E p \in Pairs : RetryWrite(p)

Faults == \/ ObserveWriteFails \/ Restart
          \/ \E b \in Bindings : ObserveReadFails(b) \/ RetryReadFails(b)
          \/ \E p \in Pairs : RetryWriteFails(p)

Next == World \/ Observe \/ Retry \/ Faults

Spec == Init /\ [][Next]_vars

\* Both tickers fire for ever, and calls of the provider and the database return.
FairSpec == Spec /\ WF_vars(Observe) /\ WF_vars(Retry)

-----------------------------------------------------------------------------
(* Properties.                                                             *)

Loop(Queue, Todo) ==
    [pc : {"tick", "binding", "list", "write"}, queue : SUBSET Queue,
     binding : Bindings \union {NoBinding}, now : 0 .. MaxTime,
     actual : Contents \union {Failed, NULL}, todo : SUBSET Todo]

\* Every variable has the shape its comment gives it.
TypeOK ==
    /\ records \in SUBSET Records
    /\ bindings \in SUBSET Bindings
    /\ rows \in [Pairs -> Row \union {NoRow}]
    /\ provider \in [Bindings -> Contents]
    /\ reachable \in SUBSET Bindings
    /\ clock \in 0 .. MaxTime
    /\ observer \in Loop(Bindings, Records)
    /\ retrier \in Loop(Pairs, Pairs)
    /\ faults \in 0 .. MaxFaults
    /\ changedAt \in [Bindings -> [Keys -> 0 .. MaxTime]]
    /\ failures \in [Pairs -> 0 .. MaxRetry + 1]

\* The verdict a fresh look at the provider would give on a pair.
Truth(p) == Verdict(p[1], provider[p[2]])

\* A verdict that is wrong now is explained by a change of the record at or
\* after last_observed_at: however long a listing or its writes take, and
\* whichever loop writes last, the timestamp never makes a row look fresher
\* than what it says.
StaleIsExplained ==
    \A p \in Pairs :
        /\ rows[p] # NoRow
        /\ rows[p].status # "sync_failed"
        /\ rows[p].status # Truth(p)
        => changedAt[p[2]][Key[p[1]]] >= rows[p].at

\* retry_count is the number of failures after the first since the pair was
\* last observed: no failure is lost when the two loops write the same row.
NoLostFailure ==
    \A p \in Pairs :
        rows[p] # NoRow /\ rows[p].status = "sync_failed" =>
            failures[p] > 0 /\ rows[p].retry = failures[p] - 1

Parsable(p) == Desired[p[1]] # Unparsable

\* When a binding stays reachable and its zone is left alone, each of its
\* records ends with the right verdict and keeps it: no failure of another
\* binding, stale listing or late retry stands in the way.
Converges ==
    \A p \in {q \in Pairs : Parsable(q)} :
        /\ <>[](p[1] \in records /\ p[2] \in bindings /\ p[2] \in reachable)
        /\ <>[][provider'[p[2]] = provider[p[2]]]_provider
        => <>[](rows[p] # NoRow /\ rows[p].status = Truth(p))

\* design.md 5.4, of the retry phase: "after N failures go to frozen and wait
\* for somebody".  The retry loop counts no failure past the limit.
GivesUp == [][\A p \in Pairs : RetryWrite(p) => rows'[p].retry <= RetryLimit]_vars

=============================================================================
