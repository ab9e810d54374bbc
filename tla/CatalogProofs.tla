--------------------------- MODULE CatalogProofs ---------------------------
(***************************************************************************)
(* Catalog is type correct, and what it answers, lists and decrypts is     *)
(* true, for any clients, requests, keys, and number of calls and faults.  *)
(*                                                                         *)
(* The inductive invariant IInv says which rows a call has stored: those   *)
(* with its id, as the ids of calls are all different, and only when it is *)
(* about to fetch or has been answered with "created".                     *)
(***************************************************************************)
EXTENDS Catalog, TLAPS

IsOpen(p) == call[p].pc # "idle"

OpenCalls == [pc : {"zone", "insert", "fetch", "read"}, request : Requests,
              zone : Ids \union {NoZone}, id : Ids, since : SUBSET rows]

Typed ==
    /\ made \in 0 .. MaxCalls
    /\ call \in [Clients -> {Idle} \union OpenCalls]
    /\ kek \in Keks
    /\ faults \in 0 .. MaxFaults

\* Which requests get to which statement.
StagesOK ==
    \A p \in Clients :
        /\ call[p].pc = "zone" =>
              call[p].request.op \in {"create_record", "create_provider", "list_records"}
        /\ call[p].pc \in {"insert", "fetch"} => call[p].request.op \in Creations
        /\ call[p].pc = "read" => call[p].request.op \in Listings

RowsOK == \A row \in rows : row.op \in Creations /\ row.id \in 1 .. made

\* The unique indexes.
Unique == \A row, other \in rows : SameKey(row, other) => row = other

\* Open calls, answered calls and rows have ids of their own.
IdsOK ==
    /\ \A p \in Clients : IsOpen(p) => call[p].id \in 1 .. made
    /\ \A p, q \in Clients : IsOpen(p) /\ IsOpen(q) /\ p # q => call[p].id # call[q].id
    /\ \A p \in Clients, a \in answers : IsOpen(p) => call[p].id # a.id
    /\ \A p \in Clients, row \in rows :
          IsOpen(p) /\ call[p].pc # "fetch" => row.id # call[p].id

\* The row is what the call or answer c asked for.
StoredFor(row, c) ==
    /\ Matches(row, c)
    /\ c.request.op = "create_provider" =>
          \E key : row.sealed = [blob |-> Seal(c.id, c.request.credentials),
                                 dek |-> Seal(key, c.id)]

Stored(c) == /\ \E row \in rows : row.id = c.id
             /\ \A row \in rows : row.id = c.id => StoredFor(row, c)

CallsOK == \A p \in Clients : call[p].pc = "fetch" => Stored(call[p])

\* row has the key of the request q for the zone z.
HasKeyOf(row, q, z) ==
    /\ row.op = q.op
    /\ \/ q.op = "create_zone" /\ row.name = q.name
       \/ /\ q.op = "create_record"
          /\ <<row.zone, row.name, row.type>> = <<z, q.name, q.type>>

GrowsBy(c, shows) ==
    \A row \in c.since :
       \/ c.request.op = "list_zones" /\ row.op = "create_zone"
       \/ c.request.op = "list_records" /\ row.op = "create_record" /\ row.zone = c.zone
       => row \in shows

\* What holds of an answer with this status to the call c.
Fits(c, status, shows) ==
    /\ status \in Statuses
    /\ shows \subseteq rows
    /\ status = "created" => Stored(c) /\ \E row \in shows : row.id = c.id
    /\ status = "conflict" =>
          c.request.op \in Creations /\ \E row \in rows : HasKeyOf(row, c.request, c.zone)
    /\ status = "ok" => GrowsBy(c, shows)

AnswersOK ==
    \A a \in answers :
        /\ a.id \in 1 .. made
        /\ a.request \in Requests
        /\ Fits(a, a.status, a.shows)

IInv ==
    /\ Typed /\ StagesOK /\ RowsOK /\ Unique /\ IdsOK /\ CallsOK /\ AnswersOK

-----------------------------------------------------------------------------
LEMMA InitInv == Init => IInv
<1> SUFFICES ASSUME Init PROVE IInv
  OBVIOUS
<1> \A p \in Clients : call[p] = Idle
  BY DEF Init
<1> QED
  BY CatalogAssumption DEF Init, IInv, Typed, Idle, StagesOK, RowsOK, Unique, IdsOK,
     IsOpen, CallsOK, AnswersOK

\* An open call has the fields of one.
LEMMA OpenCall ==
    ASSUME Typed, NEW p \in Clients, IsOpen(p)
    PROVE  call[p] \in OpenCalls
BY DEF Typed, IsOpen, Idle

\* A step that answers the call of p, and leaves the rows alone, keeps the
\* invariant if the answer fits.
LEMMA AnsweredKeeps ==
    ASSUME IInv, NEW p \in Clients, IsOpen(p), NEW status, NEW shows,
           Answered(p, status, shows), Fits(call[p], status, shows),
           UNCHANGED <<rows, made, kek>>, faults' \in 0 .. MaxFaults
    PROVE  IInv'
<1> DEFINE a == [id |-> call[p].id, request |-> call[p].request, zone |-> call[p].zone,
                 since |-> call[p].since, status |-> status, shows |-> shows]
<1>1. call[p] \in OpenCalls
  BY OpenCall DEF IInv
<1>2. /\ answers' = answers \union {a}
      /\ call' = [call EXCEPT ![p] = Idle]
      /\ rows' = rows /\ made' = made /\ kek' = kek
  BY DEF Answered
<1>3. \A q \in Clients : call'[q] = IF q = p THEN Idle ELSE call[q]
  BY <1>2 DEF IInv, Typed
<1> HIDE DEF a
<1>4. Typed'
  BY <1>2 DEF IInv, Typed, OpenCalls
<1>5. StagesOK'
  BY <1>3 DEF IInv, StagesOK, Idle
<1>6. RowsOK' /\ Unique'
  BY <1>2 DEF IInv, RowsOK, Unique, SameKey
<1>7. a.id = call[p].id /\ a.request = call[p].request
  BY DEF a
<1>8. IdsOK'
  BY <1>2, <1>3, <1>7 DEF IInv, IdsOK, IsOpen, Idle
<1>9. CallsOK'
  BY <1>2, <1>3 DEF IInv, CallsOK, Stored, Idle
<1>10. AnswersOK'
  <2>1. \A c, s, x : Fits(c, s, x) => Fits(c, s, x)'
    BY <1>2 DEF Fits, Stored
  <2>2. Fits(a, a.status, a.shows)
    <3>1. a.status = status /\ a.shows = shows /\ a.zone = call[p].zone /\ a.since = call[p].since
      BY DEF a
    <3>2. Stored(call[p]) => Stored(a)
      BY <1>7, <3>1 DEF Stored, StoredFor, Matches
    <3>3. GrowsBy(call[p], shows) => GrowsBy(a, shows)
      BY <1>7, <3>1 DEF GrowsBy
    <3> QED
      BY <1>7, <3>1, <3>2, <3>3 DEF Fits
  <2>3. a.id \in 1 .. made /\ a.request \in Requests
    BY <1>1, <1>7 DEF IInv, IdsOK, OpenCalls
  <2> QED
    BY <1>2, <2>1, <2>2, <2>3 DEF IInv, AnswersOK
<1> QED
  BY <1>4, <1>5, <1>6, <1>8, <1>9, <1>10 DEF IInv

-----------------------------------------------------------------------------
(* One lemma for each action. *)

LEMMA ReceiveStep ==
    ASSUME IInv, NEW p \in Clients, NEW q \in Requests, NEW z \in Ids \union {NoZone},
           Receive(p, q, z)
    PROVE  IInv'
<1> DEFINE c == [pc |-> FirstStatement(q), request |-> q, zone |-> z,
                 id |-> made + 1, since |-> Told]
<1>1. /\ rows' = rows /\ answers' = answers /\ kek' = kek /\ faults' = faults
      /\ made' = made + 1 /\ made < MaxCalls
      /\ call' = [call EXCEPT ![p] = c]
      /\ call[p] = Idle
  BY DEF Receive
<1>2. made \in Nat /\ MaxCalls \in Nat /\ made + 1 \in Ids /\ 1 .. made \subseteq 1 .. (made + 1)
  BY <1>1, CatalogAssumption DEF IInv, Typed, Ids
<1>3. \A o \in Clients : call'[o] = IF o = p THEN c ELSE call[o]
  BY <1>1 DEF IInv, Typed
<1>4. Told \subseteq rows
  BY DEF Told, IInv, AnswersOK, Fits
<1>5. /\ q.op \in Creations \union Listings
      /\ c.pc \in {"zone", "insert", "read"}
      /\ c.pc = "zone" => q.op \in {"create_record", "create_provider", "list_records"}
      /\ c.pc = "insert" => q.op \in Creations
      /\ c.pc = "read" => q.op \in Listings
  BY CatalogAssumption DEF FirstStatement, Creations, Listings
<1>6. c \in OpenCalls /\ c.id = made + 1 /\ c.request = q
  BY <1>2, <1>4, <1>5 DEF OpenCalls
<1> HIDE DEF c
<1>7. Typed'
  BY <1>1, <1>2, <1>6 DEF IInv, Typed, OpenCalls
<1>8. StagesOK'
  BY <1>3, <1>5, <1>6 DEF IInv, StagesOK
<1>9. RowsOK' /\ Unique'
  BY <1>1, <1>2 DEF IInv, RowsOK, Unique, SameKey
<1>10. IdsOK'
  <2>1. \A row \in rows : row.id # made + 1
    BY <1>2 DEF IInv, RowsOK
  <2>2. \A a \in answers : a.id # made + 1
    BY <1>2 DEF IInv, AnswersOK
  <2>3. \A o \in Clients : IsOpen(o) => call[o].id # made + 1
    BY <1>2 DEF IInv, IdsOK
  <2>4. made + 1 \in 1 .. (made + 1)
    BY <1>2
  <2> QED
    BY <1>1, <1>2, <1>3, <1>6, <2>1, <2>2, <2>3, <2>4 DEF IInv, IdsOK, IsOpen
<1>11. CallsOK'
  BY <1>1, <1>3, <1>5 DEF IInv, CallsOK, Stored
<1>12. AnswersOK'
  BY <1>1, <1>2 DEF IInv, AnswersOK, Fits, Stored
<1> QED
  BY <1>7, <1>8, <1>9, <1>10, <1>11, <1>12 DEF IInv

LEMMA CheckZoneStep ==
    ASSUME IInv, NEW p \in Clients, CheckZone(p)
    PROVE  IInv'
<1> DEFINE next == IF call[p].request.op = "list_records" THEN "read" ELSE "insert"
<1>1. IsOpen(p) /\ call[p].pc = "zone" /\ UNCHANGED <<rows, made, kek, faults>>
  BY DEF CheckZone, IsOpen
<1>2. call[p] \in OpenCalls
  BY <1>1, OpenCall DEF IInv
<1>3. CASE Answered(p, "not_found", {})
  <2>1. Fits(call[p], "not_found", {})
    BY DEF Fits, Statuses
  <2> QED
    BY <1>1, <1>3, <2>1, AnsweredKeeps DEF IInv, Typed
<1>4. CASE call' = [call EXCEPT ![p].pc = next] /\ UNCHANGED answers
  <2>1. \A o \in Clients : call'[o] = IF o = p THEN [call[p] EXCEPT !.pc = next] ELSE call[o]
    BY <1>4 DEF IInv, Typed
  <2>2. /\ call'[p].pc = next /\ call'[p].request = call[p].request
        /\ call'[p].id = call[p].id
        /\ [call[p] EXCEPT !.pc = next] \in OpenCalls
    BY <1>2, <2>1 DEF OpenCalls
  <2>3. Typed'
    BY <1>1, <1>4, <2>2 DEF IInv, Typed, OpenCalls
  <2>4. \/ next = "read" /\ call[p].request.op \in Listings
        \/ next = "insert" /\ call[p].request.op \in Creations
    <3>1. call[p].request.op \in {"create_record", "create_provider", "list_records"}
      BY <1>1 DEF IInv, StagesOK
    <3>2. CASE call[p].request.op = "list_records"
      BY <3>2 DEF Listings
    <3>3. CASE call[p].request.op # "list_records"
      BY <3>1, <3>3 DEF Creations
    <3> QED
      BY <3>2, <3>3
  <2>5. StagesOK'
    BY <2>1, <2>2, <2>4 DEF IInv, StagesOK
  <2>6. RowsOK' /\ Unique'
    BY <1>1 DEF IInv, RowsOK, Unique, SameKey
  <2>7. IdsOK'
    BY <1>1, <1>4, <2>1, <2>2 DEF IInv, IdsOK, IsOpen
  <2>8. CallsOK'
    BY <1>1, <2>1, <2>2, <2>4 DEF IInv, CallsOK, Stored
  <2>9. AnswersOK'
    BY <1>1, <1>4 DEF IInv, AnswersOK, Fits, Stored
  <2> QED
    BY <2>3, <2>5, <2>6, <2>7, <2>8, <2>9 DEF IInv
<1> QED
  BY <1>3, <1>4 DEF CheckZone

\* The row of a request has its id and what it asks for.
LEMMA RowOfRequest ==
    ASSUME NEW id, NEW q, q.op \in Creations, NEW z
    PROVE  /\ RowOf(id, q, z).op = q.op
           /\ RowOf(id, q, z).id = id
           /\ \A c : c.id = id /\ c.request = q /\ c.zone = z => StoredFor(RowOf(id, q, z), c)
           /\ \A row : SameKey(row, RowOf(id, q, z)) <=> HasKeyOf(row, q, z)
<1>1. CASE q.op = "create_zone"
  BY <1>1 DEF RowOf, StoredFor, Matches, SameKey, HasKeyOf
<1>2. CASE q.op = "create_record"
  BY <1>2 DEF RowOf, StoredFor, Matches, SameKey, HasKeyOf
<1>3. CASE q.op = "create_provider"
  BY <1>3 DEF RowOf, StoredFor, Matches, SameKey, HasKeyOf, Encrypt
<1> QED
  BY <1>1, <1>2, <1>3 DEF Creations

LEMMA InsertStep ==
    ASSUME IInv, NEW p \in Clients, Insert(p)
    PROVE  IInv'
<1> DEFINE q   == call[p].request
           new == RowOf(call[p].id, q, call[p].zone)
<1>1. IsOpen(p) /\ call[p].pc = "insert" /\ UNCHANGED <<made, kek, faults>>
  BY DEF Insert, IsOpen
<1>2. call[p] \in OpenCalls /\ q.op \in Creations
  BY <1>1, OpenCall DEF IInv, StagesOK
<1>3. /\ new.op = q.op /\ new.id = call[p].id
      /\ \A c : c.id = call[p].id /\ c.request = q /\ c.zone = call[p].zone
                    => StoredFor(new, c)
      /\ \A row : SameKey(row, new) <=> HasKeyOf(row, q, call[p].zone)
  BY <1>2, RowOfRequest
<1>4. CASE /\ \E row \in rows : SameKey(row, new)
           /\ Answered(p, "conflict", {}) /\ UNCHANGED rows
  <2>1. Fits(call[p], "conflict", {})
    BY <1>2, <1>3, <1>4 DEF Fits, Statuses
  <2> QED
    BY <1>1, <1>4, <2>1, AnsweredKeeps DEF IInv, Typed
<1>5. CASE /\ ~ \E row \in rows : SameKey(row, new)
           /\ rows' = rows \union {new}
           /\ call' = [call EXCEPT ![p].pc = "fetch"]
           /\ UNCHANGED answers
  <2> HIDE DEF new
  <2>1. \A o \in Clients : call'[o] = IF o = p THEN [call[p] EXCEPT !.pc = "fetch"] ELSE call[o]
    BY <1>5 DEF IInv, Typed
  <2>2. /\ call'[p].pc = "fetch" /\ call'[p].request = q /\ call'[p].id = call[p].id
        /\ call'[p].zone = call[p].zone
        /\ [call[p] EXCEPT !.pc = "fetch"] \in OpenCalls
    BY <1>2, <2>1 DEF OpenCalls
  <2>3. Typed'
    BY <1>1, <1>5, <2>2 DEF IInv, Typed, OpenCalls
  <2>4. StagesOK'
    BY <1>2, <2>1, <2>2 DEF IInv, StagesOK
  <2>5. RowsOK'
    BY <1>1, <1>2, <1>3, <1>5 DEF IInv, RowsOK, IdsOK
  <2>6. Unique'
    <3>1. \A row \in rows : ~ SameKey(row, new) /\ ~ SameKey(new, row)
      BY <1>5 DEF SameKey
    <3> QED
      BY <1>5, <3>1 DEF IInv, Unique, SameKey
  <2>7. IdsOK'
    BY <1>1, <1>3, <1>5, <2>1, <2>2 DEF IInv, IdsOK, IsOpen
  <2>8. CallsOK'
    <3>1. Stored(call[p])'
      <4>1. \A row \in rows : row.id # call[p].id
        BY <1>1 DEF IInv, IdsOK
      <4> QED
        BY <1>3, <1>5, <2>2, <4>1 DEF Stored
    <3>2. ASSUME NEW o \in Clients \ {p}, call[o].pc = "fetch"
          PROVE  Stored(call[o])'
      <4>1. Stored(call[o]) /\ call[o].id # call[p].id /\ call'[o] = call[o]
        BY <1>1, <2>1, <3>2 DEF IInv, CallsOK, IdsOK, IsOpen
      <4> QED
        BY <1>3, <1>5, <4>1 DEF Stored
    <3> QED
      BY <2>1, <3>1, <3>2 DEF CallsOK
  <2>9. AnswersOK'
    <3>1. ASSUME NEW a \in answers PROVE Fits(a, a.status, a.shows)'
      <4>1. a.id # call[p].id /\ Fits(a, a.status, a.shows)
        BY <1>1 DEF IInv, IdsOK, AnswersOK
      <4> QED
        BY <1>3, <1>5, <4>1 DEF Fits, Stored
    <3> QED
      BY <1>1, <1>5, <3>1 DEF IInv, AnswersOK
  <2> QED
    BY <2>3, <2>4, <2>5, <2>6, <2>7, <2>8, <2>9 DEF IInv
<1> QED
  BY <1>4, <1>5 DEF Insert

LEMMA FetchStep ==
    ASSUME IInv, NEW p \in Clients, Fetch(p)
    PROVE  IInv'
<1> DEFINE mine == {row \in rows : row.id = call[p].id}
<1>1. IsOpen(p) /\ Stored(call[p])
  BY DEF Fetch, IsOpen, IInv, CallsOK
<1>2. Fits(call[p], "created", mine)
  BY <1>1 DEF Fits, Statuses, Stored
<1> QED
  BY <1>1, <1>2, AnsweredKeeps DEF Fetch, IInv, Typed

LEMMA ReadStep ==
    ASSUME IInv, NEW p \in Clients, Read(p)
    PROVE  IInv'
<1>1. IsOpen(p)
  BY DEF Read, IsOpen
<1>2. call[p].since \subseteq rows
  BY <1>1, OpenCall DEF IInv, OpenCalls
<1>3. Fits(call[p], "ok", Listed(call[p].request.op, call[p].zone))
  BY <1>2 DEF Fits, Statuses, GrowsBy, Listed, ZonesIn
<1> QED
  BY <1>1, <1>3, AnsweredKeeps DEF Read, IInv, Typed

LEMMA StatementFailsStep ==
    ASSUME IInv, NEW p \in Clients, StatementFails(p)
    PROVE  IInv'
<1>1. IsOpen(p) /\ Fits(call[p], "error", {})
  BY DEF StatementFails, IsOpen, Fits, Statuses
<1>2. faults' \in 0 .. MaxFaults
  BY CatalogAssumption DEF StatementFails, Fault, IInv, Typed
<1> QED
  BY <1>1, <1>2, AnsweredKeeps DEF StatementFails

LEMMA RestartStep ==
    ASSUME IInv, NEW key \in Keks, Restart(key)
    PROVE  IInv'
<1>1. /\ rows' = rows /\ made' = made /\ answers' = answers
      /\ kek' \in Keks /\ faults' \in 0 .. MaxFaults
      /\ call' \in [Clients -> {Idle}]
      /\ \A p \in Clients : call'[p].pc = "idle"
  BY CatalogAssumption DEF Restart, Fault, IInv, Typed, Idle
<1>2. Typed'
  BY <1>1 DEF IInv, Typed
<1>3. StagesOK' /\ CallsOK'
  BY <1>1 DEF StagesOK, CallsOK
<1>4. RowsOK' /\ Unique'
  BY <1>1 DEF IInv, RowsOK, Unique, SameKey
<1>5. IdsOK'
  BY <1>1 DEF IdsOK, IsOpen
<1>6. AnswersOK'
  BY <1>1 DEF IInv, AnswersOK, Fits, Stored
<1> QED
  BY <1>2, <1>3, <1>4, <1>5, <1>6 DEF IInv

\* The invariant depends on nothing but the variables.
LEMMA StutterStep == IInv /\ UNCHANGED vars => IInv'
BY DEF vars, IInv, Typed, OpenCalls, StagesOK, RowsOK, Unique, SameKey, IdsOK, IsOpen,
   CallsOK, AnswersOK, Fits, Stored

-----------------------------------------------------------------------------
(* The theorems. *)

\* Rows, open calls and answers fit each other.
THEOREM CatalogInductive == Spec => []IInv
<1>1. IInv /\ [Next]_vars => IInv'
  BY ReceiveStep, CheckZoneStep, InsertStep, FetchStep, ReadStep, StatementFailsStep,
     RestartStep, StutterStep DEF Next
<1> QED BY InitInv, <1>1, PTL DEF Spec

\* Every variable keeps its type.
THEOREM CatalogTypeCorrect == Spec => []TypeOK
<1>1. IInv => TypeOK
  BY CatalogAssumption DEF IInv, Typed, OpenCalls, RowsOK, AnswersOK, Fits, TypeOK, Ids
<1> QED BY CatalogInductive, <1>1, PTL

\* 201 and 409 are true, whatever has failed before.
THEOREM AnswersAreTrueHolds == Spec => []AnswersAreTrue
<1>1. ASSUME IInv, NEW a \in answers, a.status = "created"
      PROVE  a.shows \subseteq rows /\ \E row \in a.shows : row.id = a.id /\ Matches(row, a)
  BY <1>1 DEF IInv, AnswersOK, Fits, Stored, StoredFor
<1>2. ASSUME IInv, NEW a \in answers, a.status = "conflict"
      PROVE  /\ a.request.op \in Creations
             /\ \E row \in rows : /\ SameKey(row, RowOf(a.id, a.request, a.zone))
                                  /\ \A other \in rows : SameKey(row, other) => other = row
  <2>1. a.request.op \in Creations /\ \E row \in rows : HasKeyOf(row, a.request, a.zone)
    BY <1>2 DEF IInv, AnswersOK, Fits
  <2>2. \A row, other \in rows : SameKey(row, other) => other = row
    BY <1>2 DEF IInv, Unique
  <2> QED
    BY <2>1, <2>2, RowOfRequest
<1>3. IInv => AnswersAreTrue
  BY <1>1, <1>2 DEF AnswersAreTrue
<1> QED BY CatalogInductive, <1>3, PTL

\* What has been shown once is never missing later.
THEOREM ListingsGrowHolds == Spec => []ListingsGrow
<1>1. IInv => ListingsGrow
  BY DEF IInv, AnswersOK, Fits, GrowsBy, ListingsGrow
<1> QED BY CatalogInductive, <1>1, PTL

\* The worker gets the credentials that were sent, or none.
THEOREM CredentialsComeBackHolds == Spec => []CredentialsComeBack
<1>1. ASSUME IInv, NEW a \in answers, a.status = "created",
             a.request.op = "create_provider", NEW row \in rows, row.id = a.id
      PROVE  DecryptCredentials(row) =
                IF row.sealed.dek.key = kek /\ a.request.credentials \in MapsOfStrings
                THEN a.request.credentials ELSE Failed
  <2>1. StoredFor(row, a)
    BY <1>1 DEF IInv, AnswersOK, Fits, Stored
  <2>2. PICK key : row.sealed = [blob |-> Seal(a.id, a.request.credentials),
                                 dek |-> Seal(key, a.id)]
    BY <1>1, <2>1 DEF StoredFor
  <2>3. a.id # Failed
    BY <1>1, CatalogAssumption DEF IInv, Typed, AnswersOK, Ids
  <2> QED
    BY <2>2, <2>3 DEF DecryptCredentials, Decrypt, Seal, Unseal
<1>2. IInv => CredentialsComeBack
  BY <1>1 DEF CredentialsComeBack
<1> QED BY CatalogInductive, <1>2, PTL

=============================================================================
