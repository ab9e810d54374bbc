# A verification of multi-cloud-dns-manager

TLA+ models of the control logic of `multi-cloud-dns-manager`, model-checked with
TLC and proved about with TLAPS. The program keeps the DNS records of a zone in a
SQLite database, applies *changesets* of record edits to every DNS provider bound
to the zone, and compares the providers with the database.

Paths below are relative to `src/backend/crates/`; `lib.rs` alone is
`worker/src/lib.rs`, `design.md` is `src/docs/design.md`.

## 1. The system

| Part | State it keeps | Operations | Talks to |
|---|---|---|---|
| Status machine (`core/src/changeset.rs`) | none | `can_transition_to`, `is_terminal` | consulted by every writer of `changesets.status` |
| Changeset API (`api/src/routes/changesets.rs`) | `changesets`, `changeset_items` | create, validate (transaction), read; apply and rollback are stubs | the apply loop, through the database only |
| Apply loop (`lib.rs:151-453`) | a batch of rows, the claimed changeset, the items applied so far | poll every 5 s, claim, apply items, freeze, roll back | database, providers |
| Observe loop (`lib.rs:471-637`) | the bindings of the batch, a listing, a timestamp | every 300 s list each active binding and write a verdict per record | database (`sync_states`), providers |
| Retry loop (`lib.rs:639-859`) | the failed rows that are due, a listing, a timestamp | every 60 s list again the bindings of failed rows | the same rows as the observe loop |
| Bindings API (`api/src/routes/providers.rs`) | `provider_bindings`, encrypted credentials | create, list, sync state; update and delete are stubs | all three loops, through the database |
| Zones and records API (`api/src/routes/zones.rs`) | `zones`, `desired_records` | create, list; update and delete are stubs | apply loop (zone of a record), observe and retry loops |
| Record comparison (`core/src/record.rs`) | none | `diff`, `normalize_for_comparison`, `RecordKey` | observe and retry loops |
| Route53 adapter (`adapters/route53/src`) | none (stateless) | list (paged), upsert, delete (list, then delete), validate | AWS |
| Credential encryption (`core/src/crypto.rs`) | none | envelope `encrypt`, `decrypt` | bindings API, worker |
| Start-up (`api/src/main.rs`) | none | migrate, start the worker, serve | everything |

The parts share nothing but the database and the providers: there is no lock, no
channel and no in-memory state common to two tasks. What makes the program hard is
therefore in the gaps between its awaits:

* several API requests, and possibly several processes, write one status column;
* a changeset is many provider calls, each of which may fail, or land and *then*
  fail, and the process may stop between any two of them;
* bindings appear while a changeset is being applied;
* two loops write the same rows of `sync_states` from listings of different age,
  while the zones they describe change.

What makes each part correct:

* *Status machine and API* - the column only moves along the table, whoever writes it.
* *Apply loop* - one holder per changeset; no item goes to a provider twice;
  "applied" means written, in order; "rolled back" means taken back; every
  changeset ends.
* *Observe and retry loops* - a verdict that is wrong is explained by its
  timestamp; no failure is forgotten; verdicts converge.
* *Adapter and comparison* - a call does what its caller takes it for, however many
  requests it is made of; what is written is what is read back; "no difference" is
  said only of what was there.
* *Zones, records and bindings API* - a client may repeat what failed and is told the
  truth; the worker gets the credentials that were sent, or none.
* *The worker as a whole* - the three loops do not disturb each other, and the
  observed status ends as the applied changesets make it.

`PROJECT.json` lists all components with their status and 40 hazards, each at
the line of code where it bites, with the properties that cover it or the reason why
none does.

## 2. The modules

| Module | Models | Kind |
|---|---|---|
| `ChangesetStatus` | `ChangeSetStatus`: statuses, transition table, terminal statuses | constants only |
| `ChangesetLifecycle` | abstract specification: changesets are created and move along the table | one variable |
| `ApplyWorker` | changeset API, bindings API, apply loop, providers, faults | the core |
| `MCApplyWorker` | its instances for TLC | |
| `ApplyWorkerProofs` | types, claims, refinement | proofs |
| `ApplyDeliveryProofs` | what has been written where | proofs |
| `ApplyValuesProofs` | what the providers hold when a changeset ends | proofs |
| `SyncLoops` | observe and retry loops, records and bindings API, zones, clock, faults | |
| `MCSyncLoops` | its instances for TLC | |
| `SyncLoopsProofs` | types, stale verdicts, counted failures | proofs |
| `RecordCodec` | `convert.rs` and `record.rs`: names, values, `normalize_for_comparison`, `diff` | operators only |
| `RecordCodecProofs` | what comes back, and what `diff` is | proofs |
| `ProviderCalls` | abstract specification: what `ProviderAdapter` promises of a call | |
| `Route53Adapter` | the Route53 adapter, request by request, and the service as it uses it | |
| `MCRoute53Adapter` | its instance for TLC | |
| `Route53AdapterProofs` | types, pages, refinement, what a listing shows | proofs |
| `Catalog` | the API of zones, records and bindings, with `crypto.rs` | |
| `MCCatalog` | its instance for TLC | |
| `CatalogProofs` | types, answers, listings, credentials | proofs |
| `Reconcile` | `ApplyWorker` and `SyncLoops` on one database and the same zones | composition |
| `MCReconcile` | its instance for TLC | |
| `ReconcileProofs` | the composition implements both parts | proofs |

**Grain.** A step is what happens between two awaits: one SQL statement, one
transaction, or one call of a provider, together with the Rust code up to the next
await. `validate_changeset` is two steps, because its transaction is open between its
SELECT and its UPDATE.

### ApplyWorker

*Database*: `status`, `request` (policy and items), `earlier` (the order of
`created_at`), `bindings`. *Providers*: `provider[b]`, the zone of each binding as a
function from record keys to contents. *Clients*: `validating`. *Workers*: a record
with a program counter and the locals of `process_apply_batch`,
`apply_single_changeset`, `apply_items` and `rollback_items`.

| Code | Action |
|---|---|
| `create_changeset` | `CreateChangeset` |
| `validate_changeset` SELECT / UPDATE and COMMIT / any error | `ValidateRead`, `ValidateWrite`, `ValidateAbort` |
| `create_provider` | `CreateProvider` |
| SELECT of `process_apply_batch` | `Poll` |
| claim: UPDATE with a row, without a row, in error | `Claim`, `Lost`, `ClaimFails` |
| `apply_items`, `apply_one_item` | `Load`, `StartItem`, `Refuse`, `Push`, `ItemDone` |
| last status updates | `Commit`, `Freeze`, `CloseRolledBack`, `CloseRollbackFailed`, `Lost` |
| `rollback_items` | `BeginRollback`, `StartUndo`, `Restore`, `UndoDone` |
| a provider or database error in an item / in an undo | `ItemFails`, `PushLandsAndFails` / `UndoFails`, `RestoreLandsAndFails` |
| a database error at a `?` or logged status update | `Abandon` |
| the process stops and is started again | `Crash` |

Each status update of a claimed changeset is `UpdateStatus`, the compare-and-swap
`UPDATE ... WHERE id = ? AND status = ?`. Snapshots are NULL, malformed, or a key
and a value: the API stores free JSON and only the worker parses it. Whether 30 s
have passed since the claim is left open, so that an `auto` changeset that fails may
be frozen or rolled back. The variables `abandoned`, `known`, `origin`, `sent` and
`again` are histories: no action reads them.

SQLite makes transactions serializable; `Serializable` is the one assumption
about it, stated as a definition of its own (external in the map): a transaction
commits only if what it read still stands. Its mutant shows what the program
would do on a database that gave less.

### SyncLoops

*Database*: `records`, `bindings`, `rows` (`sync_states`). *World*: `provider`,
`reachable`, `clock`. *Loops*: `observer` and `retrier`, each with the batch it works
through, the timestamp it took, and the listing it holds. `Upsert` is
`upsert_sync_state` with the CASE that counts failures (`RetryCount`); `Due` and
`Backoff` are `should_retry` and `backoff_secs`. A record's desired content is a value
or `Unparsable`: `create_record` takes any positive i64 as TTL and the worker
only a u32. Writes of the apply loop and of people at a provider's console are
`ProviderChanges`. The two periods are left open: either loop may start a batch at any
time, which includes every alignment of 60 s and 300 s, and `Tick` lets any time pass.
`MCSyncLoops` has a specification that keeps the periods, for the run `sync_gives_up`.
`changedAt` and `failures` are histories.

### RecordCodec

Texts are sequences of tokens: a name or host name is split at its dots (a trailing
dot is a trailing `Empty`), a TXT string into quotes and what is between them. So the
code's `strip_suffix`, `to_lowercase`, comparison of suffixes and quoting act on
tokens as they do on characters, and `normalize_for_comparison` is what it does per
type: TXT verbatim, MX with a priority that parses, all others as host names, then
sorted (here: counted). Blanks are modelled only between the priority of an MX value
and its host.

A TXT value of several strings may start and end with an empty one, as `"" ""` does.
`strip_txt_quotes` takes its outermost quotes and leaves `" "`, a blank in quotes, which
is also what a desired value of one blank is written as: the two differ at Route53 and
are reported `in_sync`. `InSyncWasTrue` does not hold for such values; the run has none,
and the theorem names their absence (`QuotedOnce`).

### Route53Adapter and ProviderCalls

A step is one request to AWS. *Service* (external, as the adapter uses it): `zone`, a
record set per key, in the order of the keys; listings in pages of `PageSize`; a
DELETE that is refused unless it names exactly what is there, the values of a record set
given back in any order. Of a zone the adapter may rely on two things, which are
assumptions: its names end with the zone's (`NamesAssumption`; a label `@` is listed as
`\100`, so no name is listed like the apex), and TXT values are in quotes, which Route53
insists on (`ContentsAssumption`). *Calls*: the locals of
the three methods. `held` and `landed` are histories.

| Code | Action |
|---|---|
| a call of `list_records`, `upsert_record`, `delete_record` | `Begin` |
| `zone_fqdn` | `ZoneFqdn` |
| the loop of `list_records` | `ListPage`, with `NextCursor` |
| UPSERT of `upsert_record`: carried out / answered | `Upsert` / `Succeeds` |
| listing of `delete_record`, and "already absent" | `Fetch` |
| DELETE: carried out / answered / refused | `Remove` / `Succeeds` / `Refused` |
| an answer lost: the SDK repeats the request / gives up | `Resend` / `AnswerLost` |
| any other `?` | `Fails` |
| other writers of the zone | `Others` |

Whether a refused DELETE is taken for "not found" depends on the text of an SDK error
(`is_record_not_found`), so `RefusalMeans` allows both outcomes when the record set is
gone. A request whose call was answered with an error is assumed not to be carried
out later.

`ProviderCalls` says what the worker expects: an "ok" write took effect at some moment
of the call (a delete may also have met the key absent), an "ok" listing gives each
key a content it had at some moment of the call, and an error says nothing. This is
what `ApplyWorker` (`Push`, `PushLandsAndFails`, ...) and `SyncLoops` assume, more
narrowly: there, a listing is taken at one moment. `ImplementsCalls` is the refinement.

### Catalog

*Database*: `rows`, one set of records tagged with the call that makes them. *Calls*:
a program counter per open call, at the statement it is to execute next. *Process*:
`kek`. `answers` is a history, and so is `since`, the rows clients had been shown when
a call began.

| Code | Action |
|---|---|
| the checks of a body | `Receive` with `Accepts` (a refused body changes nothing) |
| `SELECT COUNT(*) FROM zones` | `CheckZone` |
| INSERT of `create_zone`, `create_record`, `create_provider` (after `encrypt`) | `Insert` |
| SELECT of the new row | `Fetch` |
| SELECT of `list_zones`, `list_records` | `Read` |
| a statement in error | `StatementFails` |
| a restart, perhaps with another `MASTER_KEY` | `Restart` |

`Encrypt` and `Decrypt` are the envelope encryption, up to what AES-GCM promises: a
seal opens with its own key only. `main` refuses to start without a valid key, so a
running process always has one. `DecryptCredentials` is the worker's side, which wants
a JSON object of strings where the API takes any JSON.

### Reconcile

A step is a step of `ApplyWorker` with `changedAt` brought up to date (`Stamps`), a
step of `SyncLoops`, or both for what they share: `bindings`, `provider`, a restart.
The foreign key of `changeset_items` is a guard of `CreateChangeset` here, as
`desired_records` belongs to the other part. Nobody but the apply loop writes the
zones. The two parts are `INSTANCE`s, so no line of them is repeated.

## 3. What the runs check

| Run | Instance | Shows |
|---|---|---|
| `apply_items` | 1 worker, 2 changesets of up to 3 items, 3 bindings of 2 zones, 1 fault | `TypeOK`; `AppliedReachesKnown`: "applied" has reached each binding active at the claim; `AppliedAsWritten`: and holds what the last item on each key says; `RollbackReverts`: "rolled back" restores the zones when the snapshots are accurate and the failing item wrote nothing |
| `apply_claims` | 2 workers, 2 clients, 2 changesets of 1 item, 1 fault | `SingleHolder`, `AtMostOnce`, `OrphansAreAbandoned`, `FollowsLifecycle` (refinement) |
| `apply_settles` | 1 worker, 2 changesets, 2 faults, no binding at first | `Settles`: every validated changeset ends unless a crash or database error dropped it |
| `sync_verdicts` | 2 records (one unparsable), 1 binding, 2 times, 1 fault | `TypeOK`, `StaleIsExplained`, `NoLostFailure` |
| `sync_converges` | 1 record, 2 bindings, 2 times | `Converges`: a zone at rest on a reachable binding gets the right verdict for good |
| `route53_calls` | 1 listing, 2 writes, 1 change by others, 4 keys in pages of 2, every request sent at most twice | `TypeOK`; `ReadsBack`: what is written is listed back, once and without a difference; `InSyncWasTrue`: no difference is shown for what was not there; `ImplementsCalls` (refinement); `Returns`: every call returns, however the zone changes |
| `catalog` | 2 clients, 4 calls of 10 kinds, 2 faults, 2 keys | `TypeOK`; `AnswersAreTrue`: 201 and 409 are true whatever failed before; `ListingsGrow`: nothing shown is missing later; `CredentialsComeBack` |
| `reconcile` | 1 changeset of 4 kinds, 1 binding, 2 records, 2 times, 1 fault of each part | `ImplementsApply`, `ImplementsSync` (refinements); `EditsAreSeen`: after an applied changeset the observed status settles, at drift when the edit is not what `desired_records` says, which applying never changes |

Four runs expect a violation; each states what a document or comment of the
repository says and the code does not do (`findings` of `PROJECT.json`):

| Run | Statement | Behaviour found |
|---|---|---|
| `rollback_atomic` | design.md:396, 249: a rollback restores each provider, a changeset is atomic | the failing item's writes to its first bindings stay, and the status is set to `rolled_back` |
| `applied_everywhere` | design.md:504, 339: applied once every provider is confirmed | a binding created between two items misses the first one |
| `crash_recovery` | design.md:411-415: `applying` changesets are resumed at start-up | nothing looks for them |
| `sync_gives_up` | design.md:392, of the retry phase: frozen after N failures | a warning past 10, and the retry loop counts on |

`sync_gives_up` runs under `PeriodicSpec`, a part of the behaviours of `SyncLoops`: the
tickers fire every 60 s and 300 s, every call returns at once except the listings
of one binding, and the other binding refuses its listings. The observe and retry loops
count its failures together. The counterexample reaches `retry_count` 10 after 900 s;
then a listing of the slow binding keeps the observe loop, the backoff of 1024 s elapses,
and at 1980 s the retry loop takes the pair up, lists again and writes 11. A slow pass is
needed: each failed observation sets `last_observed_at`, so while the passes
are on time a backoff of 512 s never elapses, and from the ninth failure on the observe
loop alone tries. `GivesUp` is about `RetryWrite` only, and a retry loop that
left rows at the limit alone would satisfy it.

One more disagreement has no run, because a single assignment shows it: `0001_initial.sql:148`
has `last_observed_at` "NULL if never observed", but a failed listing sets it to the
time of the failure (`lib.rs:545`), so that `should_retry`'s "never observed - retry
immediately" (`lib.rs:849`) is not reached by rows the program writes.

**Bounds.** `MaxFaults` bounds database errors, failed calls and crashes; `MaxTime`
the clock (in seconds in `sync_gives_up`, where 3000 leave the backoff of 1024 time to
elapse); `MaxRetry` the counting of `retry_count`. Two workers are enough for a
race on a claim, since workers interact only through the status of a changeset and
each changeset has one. Three items let a failing item come after two that touched the
same key; two bindings of one zone let an item be half written; a binding of another
zone lets it be confused. Two times distinguish before and after. One fault
suffices for every partial failure of one changeset, and two let a rollback fail
after its apply did. The theorems below hold without these bounds.

In `Route53Adapter`, pages of two over four keys put the border between two names or
between two types of one name, and the one change by others falls before or behind it;
`MaxCalls` lets one listing meet two writes, and `Attempts` = 2 a write that is carried out twice.
In `Catalog`, four calls are a zone, two calls in it that compete, and one that
reads or repeats; two faults are a failed statement and a restart, or two of either.
In `Reconcile` one changeset is enough, since `apply_items` and `apply_claims` have
the interplay of several, and what is new is between the loops.

**Fairness.** `FairSpec` of `ApplyWorker` is weak fairness of each worker's own
steps: a tokio task that is ready runs, the ticker fires for ever, and calls of
the database and of the providers return, with an answer or an error. The last is an
assumption: the code sets no timeout of its own (see the hazards). Clients and faults
are never fair: nobody has to validate a changeset. A `Crash` is a stop
and a restart; that a restart follows is the operator's part. `FairSpec` of
`SyncLoops` is weak fairness of each loop, for the same reasons. `Converges`
assumes of a binding only that from some time on it is reachable and left alone.
`FairSpec` of `Reconcile` is the same for all three loops. `FairSpec` of
`Route53Adapter` is weak fairness of `Proceeds`, the answer to the request that is
due, but not of failures, so `Returns` does not rest on a call being given up.

`CHECK_DEADLOCK FALSE`: with its changesets done and its faults spent, a bounded
instance stops; the program waits for requests.

## 4. What is proved

TLAPS proves, for every value of the constants that meets the assumptions
(the named `ASSUME`s of the modules, such as `ZonesAssumption` or `ServiceAssumption`:
functions have their domains, sentinels are not values, numbers are natural), hence
for any number of workers, clients, changesets, items, bindings, record sets and faults:

| Theorem | Statement |
|---|---|
| `TypeCorrect` | `Spec => []TypeOK` |
| `SingleHolderHolds` | `Spec => []SingleHolder` |
| `Refinement` | `Spec => FollowsLifecycle`: `ApplyWorker` implements `ChangesetLifecycle` |
| `AtMostOnceHolds` | `Spec => []AtMostOnce` |
| `AppliedReachesKnownHolds` | `Spec => []AppliedReachesKnown` |
| `OrphansAreAbandonedHolds` | `Spec => []OrphansAreAbandoned` |
| `AppliedAsWrittenHolds`, `RollbackRevertsHolds` | `Spec => []` of these, for one worker (`OneWorker`), as the program starts it |
| `SyncTypeCorrect`, `StaleIsExplainedHolds`, `NoLostFailureHolds` | `Spec => []` of these, in `SyncLoops` |
| `ImplementsApplyHolds`, `ImplementsSyncHolds` | `Reconcile` implements `ApplyWorker` and `SyncLoops` |
| `TogetherSafe`, `TogetherAsWritten` | the proved invariants of both hold in `Reconcile`, the last two for one worker |
| `CatalogTypeCorrect`, `AnswersAreTrueHolds`, `ListingsGrowHolds`, `CredentialsComeBackHolds` | `Spec => []` of these, in `Catalog` |
| `AdapterTypeCorrect`, `AdapterImplements` | `Spec => []TypeOK` and `Spec => ImplementsCalls`: `Route53Adapter` implements `ProviderCalls` |
| `ReadsBackHolds` | `Spec => []ReadsBack`, in `Route53Adapter` |
| `InSyncWasTrueHolds` | `Spec => []InSyncWasTrue`, if no TXT value is quoted twice (`QuotedOnce`) |
| `NameReadsBack`, `ApexReadsBack`, `ValueReadsBack`, `QuotedIsStripped` | what comes back of a name or value that is sent, and what never does |
| `ListedNameIsSent` | a listed name, sent again, means the record set it was listed from |
| `SameOrder`, `PermutedSame` | values compare as the same if and only if they are the same, normalized, in some order |
| `DiffIsEquivalence`, `WrittenIsInSync` | "no difference" is an equivalence, and holds between a record and what is listed for it |

*First argument* (`ApplyWorkerProofs`). `TypeOK` is not inductive: a worker
dereferences items and snapshots, so one must know that the changeset it holds
was accepted by the API, that its indices are within the items, and that an item
being written has parsed. `IInv` adds these (`CreatedIsAcceptable`, `WorkersOK`)
and `SingleHolder`, which ties program counters to the status column: it is what
makes the compare-and-swap of a holder succeed, and what makes a claim exclusive.
`Refinement` needs it for the one write that is not a compare-and-swap: the
UPDATE of `validate_changeset`.

*Second argument* (`ApplyDeliveryProofs`). `DInv` ties the history `sent` to the
worker's progress: a changeset never claimed has sent nothing; a worker at item
`i` with bindings `todo` left has sent the items before `i` to every binding
of their zone known at the claim, item `i` to those not in `todo`, and nothing
that is still to come. A write is
therefore new (`AtMostOnce`), and at `commit` nothing known is missing
(`AppliedReachesKnown`). It holds only together with `SingleHolder`, since a
second holder would start again from item 1.

*Third argument* (`ApplyValuesProofs`). A binding known at the claim *follows* the first
`n` items when each key holds what the last of them on it says, or what it held at the
claim if none is on it (`Follows`). `VInv` says with which `n` a worker's program counter
and locals go (`Stage`: an item more for the bindings already pushed, one less for those
already restored), and in which states the number tells (`Telling`). Going forward it
always does. After a failure it does only if the failing item wrote nothing, and on the
way back only if the snapshots are accurate: `before_value` of an item is then what the
item before it on that key wrote, or what was there at the claim, so undoing
takes `Follows` from `n` to `n - 1`. Reaching 0, the binding is what it was. `OneWorker` is
needed because a second worker writes the same zones (see the hazards); the steps of
clients and new bindings do not matter. `VInv` uses `IInv` for types and `DInv` for what has
not been sent.

*The sync loops* (`SyncLoopsProofs`). A row is written from a listing that is older
than the write. The inductive invariant says of a loop that carries a listing: if the
listing differs from the zone now, the zone changed at or after the time `now` the loop
took before listing (`Carries`), no timestamp is in the future (`Past`), and a pair
whose row says anything but a failure has none counted (`Counted`). It does not matter which loop carries the listing, so the proof is the same for both.

*The composition* (`ReconcileProofs`). `ImplementsApply` is a step simulation: a step of
the sync loops leaves the variables of `ApplyWorker` alone, or is one of its own. For
`ImplementsSync` a step of the apply loop must be a `ProviderChanges` of `SyncLoops`: it
changes one record set of one binding, to a content of the right type, which needs the
inductive invariant of `ApplyWorker`, and `Stamped`, that `changedAt` is a function of
bindings and keys. `TogetherSafe` then follows without another induction. `PartsAssumption`
collects the assumptions of the parts; TLC evaluates it.

*The catalog* (`CatalogProofs`). Answers are about rows, so `IInv` says which rows a
call has: the ids of open calls, answers and rows are all different, a call has a row
with its id only between `Insert` and its answer, and that row is what it asked for,
sealed under a key of its own. A row never changes, so this outlives the answer.

*The adapter* (`Route53AdapterProofs`). A listing of several pages must look like one
choice of a content per key. `IInv` therefore says of an open listing that there is a
`pick` of contents, each held by its key during the call, which for the keys before
the cursor shows exactly what has been collected (`ListedOK`). A page extends it,
because a page that is not the last ends right before the next cursor (`PageBorder`,
which counts finite sets and takes the first of a set by well-foundedness) and what
lies between is absent. `HeldOK`, that the history of an open call ends with the
present, supplies the new contents, and `LandedOK` lets "ok" answer a write. Pages that
are not the last, `Fetch` of a record set that is there, and repeated requests are
stutters of `ProviderCalls`.

`SInv` carries that `pick` over to the answer (`ShownOK`) and keeps TXT record sets in
quotes (`QuotedOK`). From there both properties of listings are facts about one moment.
The entries with the key of a desired record come from the key the record is sent to,
and from no other, because no two names of a zone are listed alike (`ListedNameIsSent`,
`EntryKey`). For `ReadsBack` the picked content is one the record is encoded as, so its values
are a permutation of what was sent and compare as the same (`PermutedSame`). For
`InSyncWasTrue` the other direction is needed: values that compare as the same *are* a
permutation (`SameOrder`, which glues bijections between the places of each value), which is the order in which the content means the record (`Means`).

*The codec* (`RecordCodecProofs`). Facts about sequences; texts are arbitrary, and
the zone's name is not empty. They say where `ReadsBack` ends: names come back in
lower case, and a TXT value with quotes of its own never comes back. (Wildcards do not
come back either; `RequestsAssumption` leaves them out.)

Each invariant was checked with TLC before it was proved.

Every safety property and refinement that a run expects to hold is thus a theorem. Only
model-checked is liveness (`Settles`, `Converges`, `Returns`, `EditsAreSeen`), which is out of
the prover's reach; and the four violations are counterexamples, not theorems.

## 5. What is not modelled

* Characters: texts are tokens, so the trimming of blanks, blanks inside values, the
  length of a name and the spelling of RFC 3339 times are outside.
* Two bindings that point to one provider zone; weighted, geographic and other record
  sets of which Route53 keeps several per name and type; the names and values Route53
  refuses (such a call gets an error, like any that fails); wildcards, which Route53
  accepts but lists as `\052`, so that a desired `*` is reported as missing for ever.
* AES, nonces and base64; HTTP routing, CORS, logging, migrations, the pool.
* `validate_record`, `list_zones` and `get_zone` of the adapter: pure or reading, and
  called by nothing but tests. `get_sync_state`, `list_providers`, `get_changeset`
  and `list_changesets` only read.
* Handlers that return 501, and fields nothing reads (`desired_hash`,
  `bindings.status` other than `active`, `sync_states.status` `syncing`,
  `deleted_at`), since no code writes anything but their defaults.
* The two periods, except in `sync_gives_up`: elsewhere the loops tick at any time, and
  `Backoff` is exercised up to the bound of the clock. The 30 s after which a failed
  changeset is frozen: `ApplyWorker` has no clock, and the decision may go either way.
* A loop that panics while the other two go on.
* Azure DNS, Google Cloud and the frontend: their directories are empty.

## 6. Plan

Done: all modules of section 2. What would add to them:

1. `AppliedAsWritten` for several workers, under the weaker hypothesis that changesets in
   different hands touch different record sets.
2. Two bindings of one provider zone in `ApplyWorker`.
3. A panic in one of the three loops, with the two others going on.
