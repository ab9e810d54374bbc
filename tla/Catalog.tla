------------------------------ MODULE Catalog ------------------------------
(***************************************************************************)
(* The API that fills the tables zones, desired_records and                *)
(* provider_bindings: crates/api/src/routes/zones.rs and providers.rs,     *)
(* with the envelope encryption of the credentials                         *)
(* (crates/core/src/crypto.rs) and their way back to the worker.           *)
(*                                                                         *)
(* Handlers hold no transaction: between two statements of one call any    *)
(* other call may run, a statement may fail, or the process may be         *)
(* restarted, with another MASTER_KEY: main does not start without a valid *)
(* one.  Clients repeat calls as they like.  No handler updates or deletes *)
(* a row.                                                                  *)
(***************************************************************************)
EXTENDS Naturals, FiniteSets

CONSTANTS
    Clients,       \* API calls that can be open at the same time
    Requests,      \* what clients send, without the id of the zone
    Blank,         \* a name, type or zone id that trims to nothing
    TooLong,       \* a zone name of more than 255 characters
    Registered,    \* the provider types with an adapter
    MapsOfStrings, \* the credentials that are a JSON object of strings
    Keks,          \* the master keys operators use: 32 bytes in base64
    Failed,        \* the worker gets no credentials
    NoZone,        \* the id of no zone
    MaxCalls,      \* bound on the calls of a behaviour
    MaxFaults      \* bound on database errors and restarts

Creations == {"create_zone", "create_record", "create_provider"}
Listings == {"list_zones", "list_records"}

\* Every request gets a fresh UUID: here the number of the call.
Ids == 1 .. MaxCalls

ASSUME CatalogAssumption ==
    /\ MaxCalls \in Nat /\ MaxFaults \in Nat
    /\ NoZone \notin Ids /\ Failed \notin Ids
    /\ \A q \in Requests : q.op \in Creations \union Listings

VARIABLES
    rows,    \* the database: the rows of the three tables
    call,    \* per client: its open call
    made,    \* number of calls so far
    kek,     \* MASTER_KEY of the process
    faults,  \* number of database errors and restarts so far
    answers  \* history: the answers clients got

vars == <<rows, call, made, kek, faults, answers>>

Idle == [pc |-> "idle"]

ZonesIn(table) == {row \in table : row.op = "create_zone"}

-----------------------------------------------------------------------------
(* crypto.rs: AES-GCM gives back what was sealed with the same key, and an *)
(* error for any other key.                                                *)

Seal(key, content) == [key |-> key, content |-> content]
Unseal(key, box) == IF box.key = key THEN box.content ELSE Failed

\* Mutant: the key-encryption key is used for the credentials, too.
EncryptOneKey(key, dek, content) ==
    [blob |-> Seal(key, content), dek |-> Seal(key, dek)]

\* encrypt; dek is the random key of the call.
Encrypt(key, dek, content) == [blob |-> Seal(dek, content), dek |-> Seal(key, dek)]

\* decrypt
Decrypt(key, sealed) ==
    IF Unseal(key, sealed.dek) = Failed THEN Failed
    ELSE Unseal(Unseal(key, sealed.dek), sealed.blob)

\* decrypt_credentials of the worker, which wants a map of strings.
DecryptCredentials(row) ==
    LET credentials == Decrypt(kek, row.sealed) IN
    IF credentials \in MapsOfStrings THEN credentials ELSE Failed

-----------------------------------------------------------------------------
(* A call.  Its answer is history, except for the client.                  *)

Answered(p, status, shows) ==
    /\ answers' = answers \union {[id |-> call[p].id, request |-> call[p].request,
                                   zone |-> call[p].zone, since |-> call[p].since,
                                   status |-> status, shows |-> shows]}
    /\ call' = [call EXCEPT ![p] = Idle]

\* The checks of the body, before any statement.
Accepts(q) ==
    CASE q.op = "create_zone"     -> q.name \notin {Blank, TooLong}
      [] q.op = "create_record"   -> q.ttl > 0 /\ q.name # Blank /\ q.values # {}
      [] q.op = "create_provider" -> q.type \in Registered /\ q.target # Blank
      [] q.op \in Listings        -> TRUE

\* The zone in the path or the body: one that exists, or a wrong one.
NamesZone(q, z) ==
    IF q.op \in {"create_zone", "list_zones"} THEN z = NoZone
    ELSE z \in {row.id : row \in ZonesIn(rows)} \union {NoZone}

\* What follows the checks.
FirstStatement(q) == CASE q.op = "create_zone" -> "insert"
                       [] q.op = "list_zones"  -> "read"
                       [] OTHER                -> "zone"

\* since is history: the rows clients have been told of before the call.
Told == UNION {a.shows : a \in {a \in answers : a.status \in {"created", "ok"}}}

Receive(p, q, z) ==
    /\ call[p] = Idle
    /\ made < MaxCalls
    /\ Accepts(q)
    /\ NamesZone(q, z)
    /\ made' = made + 1
    /\ call' = [call EXCEPT ![p] = [pc |-> FirstStatement(q), request |-> q, zone |-> z,
                                    id |-> made + 1, since |-> Told]]
    /\ UNCHANGED <<rows, kek, faults, answers>>

\* SELECT COUNT(*) FROM zones WHERE id = ?
CheckZone(p) ==
    LET next == IF call[p].request.op = "list_records" THEN "read" ELSE "insert" IN
    /\ call[p].pc = "zone"
    /\ IF call[p].zone \in {row.id : row \in ZonesIn(rows)}
       THEN call' = [call EXCEPT ![p].pc = next] /\ UNCHANGED answers
       ELSE Answered(p, "not_found", {})
    /\ UNCHANGED <<rows, made, kek, faults>>

\* The row of a request.
RowOf(id, q, z) ==
    CASE q.op = "create_zone" -> [op |-> q.op, id |-> id, name |-> q.name]
      [] q.op = "create_record" ->
            [op |-> q.op, id |-> id, zone |-> z, name |-> q.name, type |-> q.type,
             ttl |-> q.ttl, values |-> q.values]
      [] q.op = "create_provider" ->
            [op |-> q.op, id |-> id, zone |-> z, type |-> q.type, target |-> q.target,
             sealed |-> Encrypt(kek, id, q.credentials)]

\* Two rows a unique index keeps apart: zones.name, and (zone_id, name,
\* record_type) of desired_records.
SameKey(row, other) ==
    /\ row.op = other.op
    /\ \/ row.op = "create_zone" /\ row.name = other.name
       \/ /\ row.op = "create_record"
          /\ <<row.zone, row.name, row.type>> = <<other.zone, other.name, other.type>>

Insert(p) ==
    LET q == call[p].request
        new == RowOf(call[p].id, q, call[p].zone)
    IN  /\ call[p].pc = "insert"
        /\ \/ /\ \E row \in rows : SameKey(row, new)
              /\ Answered(p, "conflict", {})
              /\ UNCHANGED rows
           \/ /\ ~ \E row \in rows : SameKey(row, new)
              /\ rows' = rows \union {new}
              /\ call' = [call EXCEPT ![p].pc = "fetch"]
              /\ UNCHANGED answers
        /\ UNCHANGED <<made, kek, faults>>

\* Mutant: the new row is looked up by its zone, as the latest one.
FetchByZone(p) ==
    /\ call[p].pc = "fetch"
    /\ \E row \in rows :
          /\ row.op = call[p].request.op
          /\ row.op # "create_zone" => row.zone = call[p].zone
          /\ row.id >= call[p].id
          /\ Answered(p, "created", {row})
    /\ UNCHANGED <<rows, made, kek, faults>>

\* SELECT ... WHERE id = ?
Fetch(p) ==
    /\ call[p].pc = "fetch"
    /\ Answered(p, "created", {row \in rows : row.id = call[p].id})
    /\ UNCHANGED <<rows, made, kek, faults>>

\* Mutant: the records are looked up by their own id.
ListedById(op, z) ==
    IF op = "list_zones" THEN ZonesIn(rows)
    ELSE {row \in rows : row.op = "create_record" /\ row.id = z}

\* What list_zones and list_records select.
Listed(op, z) ==
    IF op = "list_zones" THEN ZonesIn(rows)
    ELSE {row \in rows : row.op = "create_record" /\ row.zone = z}

Read(p) ==
    /\ call[p].pc = "read"
    /\ Answered(p, "ok", Listed(call[p].request.op, call[p].zone))
    /\ UNCHANGED <<rows, made, kek, faults>>

-----------------------------------------------------------------------------
Fault == faults < MaxFaults /\ faults' = faults + 1

\* Mutant: the error of the database is answered as it is.
StatementFailsRaw(p) ==
    /\ call[p].pc \in {"zone", "insert", "fetch", "read"}
    /\ Fault
    /\ Answered(p, "database is locked", {})
    /\ UNCHANGED <<rows, made, kek>>

\* The next statement fails (SQLITE_BUSY, a full disk): the answer is 500,
\* also when the row has been stored and only its fetch fails.
StatementFails(p) ==
    /\ call[p].pc \in {"zone", "insert", "fetch", "read"}
    /\ Fault
    /\ Answered(p, "error", {})
    /\ UNCHANGED <<rows, made, kek>>

\* The process is started again, perhaps with another key; nobody answers the
\* open calls.
Restart(key) ==
    /\ Fault
    /\ call' = [p \in Clients |-> Idle]
    /\ kek' = key
    /\ UNCHANGED <<rows, made, answers>>

Init ==
    /\ rows = {}
    /\ call = [p \in Clients |-> Idle]
    /\ made = 0
    /\ kek \in Keks
    /\ faults = 0
    /\ answers = {}

Next ==
    \/ \E p \in Clients :
          \/ CheckZone(p) \/ Insert(p) \/ Fetch(p) \/ Read(p) \/ StatementFails(p)
          \/ \E q \in Requests, z \in Ids \union {NoZone} : Receive(p, q, z)
    \/ \E key \in Keks : Restart(key)

Spec == Init /\ [][Next]_vars

-----------------------------------------------------------------------------
(* Properties.                                                             *)

Statuses == {"created", "ok", "conflict", "not_found", "error"}

\* Every variable has the shape its comment gives it.
TypeOK ==
    /\ \A row \in rows : row.op \in Creations /\ row.id \in Ids
    /\ \A p \in Clients :
          \/ call[p] = Idle
          \/ /\ call[p].pc \in {"zone", "insert", "fetch", "read"}
             /\ call[p].request \in Requests
             /\ call[p].zone \in Ids \union {NoZone}
             /\ call[p].id \in Ids
             /\ call[p].since \subseteq rows
    /\ made \in 0 .. MaxCalls
    /\ kek \in Keks
    /\ faults \in 0 .. MaxFaults
    /\ \A a \in answers : a.status \in Statuses /\ a.request \in Requests

\* The row that the request of the answer a asks for is row, up to its id
\* and the secrets of its encryption.
Matches(row, a) ==
    /\ row.op = a.request.op
    /\ row.op # "create_zone" => row.zone = a.zone
    /\ CASE row.op = "create_zone"     -> row.name = a.request.name
         [] row.op = "create_record"   ->
               <<row.name, row.type, row.ttl, row.values>>
                  = <<a.request.name, a.request.type, a.request.ttl, a.request.values>>
         [] row.op = "create_provider" ->
               <<row.type, row.target>> = <<a.request.type, a.request.target>>

\* A client may repeat a creation until it is told 201 or 409, whatever has
\* failed before: 201 means that its own row is stored as it was sent, and
\* 409 that there is one row with its key, and only one, that some call has
\* stored, perhaps its own earlier one.
AnswersAreTrue ==
    \A a \in answers :
        /\ a.status = "created" =>
              /\ a.shows \subseteq rows
              /\ \E row \in a.shows : row.id = a.id /\ Matches(row, a)
        /\ a.status = "conflict" =>
              /\ a.request.op \in Creations
              /\ \E row \in rows :
                    /\ SameKey(row, RowOf(a.id, a.request, a.zone))
                    /\ \A other \in rows : SameKey(row, other) => other = row

\* A listing shows every row its clients had been told of when it began, by
\* their own answers or by earlier listings: what has been shown once is
\* never missing later.
ListingsGrow ==
    \A a \in answers :
        a.status = "ok" =>
            \A row \in a.since :
               \/ a.request.op = "list_zones" /\ row.op = "create_zone"
               \/ a.request.op = "list_records" /\ row.op = "create_record"
                     /\ row.zone = a.zone
               => row \in a.shows

\* The credentials the worker gets for a binding are those of the request
\* that created it, under the master key of that time, whichever restarts
\* and bindings came since; under another key, or when they are no map of
\* strings, it gets none, and never those of another binding.
CredentialsComeBack ==
    \A a \in answers :
        a.status = "created" /\ a.request.op = "create_provider" =>
            \A row \in rows :
                row.id = a.id =>
                    DecryptCredentials(row) =
                        IF /\ row.sealed.dek.key = kek
                           /\ a.request.credentials \in MapsOfStrings
                        THEN a.request.credentials ELSE Failed

=============================================================================
