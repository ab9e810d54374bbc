--------------------------- MODULE Route53Adapter ---------------------------
(***************************************************************************)
(* list_records, upsert_record and delete_record of                        *)
(* crates/adapters/route53/src/lib.rs, request by request, in one hosted   *)
(* zone that the calls of other tasks and people at the console change     *)
(* between the requests.  The adapter keeps no state between calls.        *)
(*                                                                         *)
(* Route53 itself is external, modelled as the adapter uses it: it keeps   *)
(* at most one record set per name and type, in an order of its own (here  *)
(* the numbers of the keys), answers a listing with a page and where the   *)
(* next one starts, and accepts a DELETE only of exactly what it holds.    *)
(***************************************************************************)
EXTENDS RecordCodec, Functions

CONSTANTS
    Callers,      \* the calls that can be open at the same time
    KeyName,      \* per key of the service, its absolute name, as listed
    KeyType,      \* per key of the service, its type
    ZoneName,     \* the name of the hosted zone, as GetHostedZone returns it
    PageSize,     \* record sets per page of a listing
    Attempts,     \* how often the SDK sends a request whose answer is lost
    Requests,     \* per caller, the calls it makes
    OthersPut,    \* per key, the record sets other people put there
    InitialZones, \* what the zone may hold at the start
    Alias,        \* an alias record set: no TTL and no values
    Absent,       \* the zone holds nothing
    MaxCalls,     \* bound on the calls of a caller
    MaxChanges    \* bound on the changes by others

Keys == DOMAIN KeyName

\* What the program writes, and what the service holds if it is no alias.
Records == [name : Texts, type : SupportedTypes, ttl : Nat, values : Seq(Values)]
RecordSets == [ttl : Nat, values : Seq(Values)]

\* A record set of the service as it comes from a record of the program; the
\* service gives the values back in any order.
Encode(r) ==
    {[ttl |-> r.ttl, values |-> [i \in DOMAIN r.values |->
                                    WireValue(r.type, r.values[order[i]])]] :
        order \in Bijection(DOMAIN r.values, DOMAIN r.values)}

\* The key of the service a record or RecordKey of the program belongs to.
KeyOf(r) == CHOOSE k \in Keys : /\ FqdnsEqual(KeyName[k], ToFqdn(r.name, ZoneName))
                                /\ KeyType[k] = r.type

Written(p) == UNION {Encode(q.record) : q \in {q \in Requests[p] : q.op = "upsert"}}
Contents == UNION ({OthersPut[k] : k \in Keys} \union {Written(p) : p \in Callers})

\* What list_records makes of a record set: nothing of unsupported types
\* and of aliases.
Decode(k, c) ==
    IF KeyType[k] \notin SupportedTypes \/ c \in {Alias, Absent} THEN Absent
    ELSE [name |-> ToRelativeName(KeyName[k], ZoneName), type |-> KeyType[k],
          ttl |-> c.ttl,
          values |-> [i \in DOMAIN c.values |-> ListedValue(KeyType[k], c.values[i])]]

Shown == [k \in Keys |-> [c \in Contents \union {Absent} |-> Decode(k, c)]]

\* The request as the service is to understand it.
AsRequest == [q \in UNION {Requests[p] : p \in Callers} |->
    CASE q.op = "list"   -> [op |-> "list"]
      [] q.op = "upsert" -> [op |-> "upsert", key |-> KeyOf(q.record),
                             contents |-> Encode(q.record)]
      [] q.op = "delete" -> [op |-> "delete", key |-> KeyOf(q.record)]]

ASSUME ServiceAssumption ==
    /\ PageSize \in Nat \ {0} /\ Attempts \in Nat \ {0} /\ MaxChanges \in Nat
    /\ MaxCalls \in [Callers -> Nat]
    /\ KeyName \in Seq(Seq(Tokens)) /\ KeyName # << >> /\ DOMAIN KeyType = Keys
    /\ Absent \notin Contents /\ Alias # Absent /\ Absent \notin Callers
    /\ InitialZones \subseteq [Keys -> Contents \union {Absent}]
    /\ \A j, k \in Keys : FqdnsEqual(KeyName[j], KeyName[k]) /\ KeyType[j] = KeyType[k]
                             => j = k

\* Names the service does not accept are not in the model: such a call gets
\* an error, like any request that fails.  Wildcards are not in the model
\* either: the service accepts "*" but lists the label as the escape code
\* "\052", which the adapter takes as it comes, so that no key of the zone is
\* listed under the name that was sent.
ASSUME RequestsAssumption ==
    \A p \in Callers : \A q \in Requests[p] :
        /\ q.op \in {"list", "upsert", "delete"}
        /\ q.op # "list" =>
              \E k \in Keys : /\ FqdnsEqual(KeyName[k], ToFqdn(q.record.name, ZoneName))
                              /\ KeyType[k] = q.record.type

\* All names are in the zone.  Route53 lists a label "@" as an escape code.
ASSUME NamesAssumption ==
    /\ ZoneName \in Texts \ {<< >>}
    /\ \A k \in Keys :
          LET name == Lowercase(StripDot(KeyName[k]))
              apex == Lowercase(StripDot(ZoneName))
          IN  name # apex => Below(name, apex) /\ name # <<At>> \o apex

\* The service keeps a TXT value in quotes and accepts no other.
AllQuoted(c) == \A i \in DOMAIN c.values : Quoted(c.values[i].text)

ASSUME ContentsAssumption ==
    /\ Alias \notin RecordSets /\ Absent \notin Records
    /\ \A k \in Keys :
          /\ OthersPut[k] \subseteq RecordSets \union {Alias}
          /\ KeyType[k] = "TXT" => \A c \in OthersPut[k] \ {Alias} : AllQuoted(c)
          /\ \A z \in InitialZones : z[k] \in OthersPut[k] \union {Absent}
    /\ \A p \in Callers : \A q \in Requests[p] : q.op = "upsert" =>
          q.record \in Records /\ q.record.name # << >>

VARIABLES
    zone,    \* the service: what each key holds
    call,    \* per caller: where its call is
    answer,  \* per caller: what its last call returned
    made,    \* per caller: number of calls so far
    changes, \* number of changes by others
    held,    \* history: what each key held while the call was open
    landed   \* history: the open calls that have changed the zone

vars == <<zone, call, answer, made, changes, held, landed>>

\* The local variables of a call: the start of the next page, the records
\* collected so far, the record set to delete, and the sendings left.
Open(pc, request) == [pc |-> pc, request |-> request, cursor |-> 1, listed |-> {},
                      found |-> Absent, sends |-> Attempts]

Idle == [pc |-> "idle"]
Returned(op, status, records) == [op |-> op, status |-> status, records |-> records]

Nothing == [k \in Keys |-> {}]

\* The call of p returns; of a listing the history remains.
Return(p, status, records) ==
    /\ call' = [call EXCEPT ![p] = Idle]
    /\ held' = [held EXCEPT ![p] = IF call[p].request.op = "list" THEN @ ELSE Nothing]
    /\ landed' = landed \ {p}
    /\ answer' = [answer EXCEPT ![p] = Returned(call[p].request.op, status, records)]

\* k comes to hold c.
Put(k, c) ==
    /\ zone' = [zone EXCEPT ![k] = c]
    /\ held' = [q \in Callers |-> IF call[q].pc = "idle" THEN held[q]
                                  ELSE [held[q] EXCEPT ![k] = @ \union {c}]]

IsAt(p, pc) == call[p].pc = pc
Target(p) == AsRequest[call[p].request].key

-----------------------------------------------------------------------------
(* Every call first asks for the name of the zone. *)

Begin(p, request) ==
    /\ IsAt(p, "idle")
    /\ made[p] < MaxCalls[p]
    /\ made' = [made EXCEPT ![p] = @ + 1]
    /\ call' = [call EXCEPT ![p] = Open("zone", request)]
    /\ answer' = [answer EXCEPT ![p] = Returned("none", "none", {})]
    /\ held' = [held EXCEPT ![p] = [k \in Keys |-> {zone[k]}]]
    /\ UNCHANGED <<zone, changes, landed>>

FirstRequest(op) == CASE op = "list"   -> "page"
                      [] op = "upsert" -> "change"
                      [] op = "delete" -> "fetch"

ZoneFqdn(p) ==
    /\ IsAt(p, "zone")
    /\ call' = [call EXCEPT ![p].pc = FirstRequest(call[p].request.op)]
    /\ UNCHANGED <<zone, answer, made, changes, held, landed>>

\* A request fails and has no effect: credentials without a key, a zone that
\* is gone, throttling, the network.  Whatever it is, the call gives up.
Fails(p) ==
    /\ call[p].pc \in {"zone", "page", "change", "fetch", "remove"}
    /\ Return(p, "error", {})
    /\ UNCHANGED <<zone, made, changes>>

-----------------------------------------------------------------------------
(* list_records *)

\* The key a page border leaves to the next page.
StartingAt(k) == {j \in Keys : j >= k /\ zone[j] # Absent}
Least(S, n) == {k \in S : Cardinality({j \in S : j < k}) < n}
First(S) == CHOOSE k \in S : \A j \in S : k <= j

Decoded(page) == {Shown[k][zone[k]] : k \in page} \ {Absent}

\* Mutant: the cursor is not moved.
NextCursorStays(rest) == 1

\* Mutant: the cursor is moved past the record set it names.
NextCursorPast(rest) == First(rest) + 1

\* next_record_name and next_record_type
NextCursor(rest) == First(rest)

ListPage(p) ==
    LET ahead   == StartingAt(call[p].cursor)
        page    == Least(ahead, PageSize)
        records == call[p].listed \union Decoded(page)
    IN  /\ IsAt(p, "page")
        /\ \/ /\ page = ahead
              /\ Return(p, "ok", records)
           \/ /\ page # ahead
              /\ call' = [call EXCEPT ![p].listed = records,
                                      ![p].cursor = NextCursor(ahead \ page)]
              /\ UNCHANGED <<answer, held, landed>>
        /\ UNCHANGED <<zone, made, changes>>

-----------------------------------------------------------------------------
(* upsert_record, delete_record *)

\* The service executes the UPSERT ...
Upsert(p) ==
    /\ IsAt(p, "change")
    /\ \E c \in AsRequest[call[p].request].contents : Put(Target(p), c)
    /\ landed' = landed \union {p}
    /\ call' = [call EXCEPT ![p].pc = "landed", ![p].sends = @ - 1]
    /\ UNCHANGED <<answer, made, changes>>

\* ... or the DELETE, if the record set is still what was fetched ...
Remove(p) ==
    /\ IsAt(p, "remove")
    /\ zone[Target(p)] = call[p].found
    /\ Put(Target(p), Absent)
    /\ landed' = landed \union {p}
    /\ call' = [call EXCEPT ![p].pc = "landed", ![p].sends = @ - 1]
    /\ UNCHANGED <<answer, made, changes>>

\* ... and answers, ...
Succeeds(p) ==
    /\ IsAt(p, "landed")
    /\ Return(p, "ok", {})
    /\ UNCHANGED <<zone, made, changes>>

\* ... or the answer is lost, and the SDK sends the request once more ...
Resend(p) ==
    /\ IsAt(p, "landed")
    /\ call[p].sends > 0
    /\ call' = [call EXCEPT ![p].pc = IF call[p].request.op = "upsert" THEN "change"
                                                                       ELSE "remove"]
    /\ UNCHANGED <<zone, answer, made, changes, held, landed>>

\* ... or gives up.
AnswerLost(p) ==
    /\ IsAt(p, "landed")
    /\ Return(p, "error", {})
    /\ UNCHANGED <<zone, made, changes>>

\* delete_record lists one record set from its key on, and is done when the
\* first one is another.
Fetch(p) ==
    LET ahead == StartingAt(Target(p)) IN
    /\ IsAt(p, "fetch")
    /\ IF ahead # {} /\ First(ahead) = Target(p)
       THEN /\ call' = [call EXCEPT ![p].pc = "remove", ![p].found = zone[Target(p)]]
            /\ UNCHANGED <<answer, held, landed>>
       ELSE Return(p, "ok", {})
    /\ UNCHANGED <<zone, made, changes>>

\* Mutant: any refusal is taken for "not found".
RefusalMeansAny(p) == {"ok"}

\* is_record_not_found: a record set that has gone is a success if the text
\* of the error says so, which is the SDK's business; one that has changed is
\* an error.
RefusalMeans(p) == IF zone[Target(p)] = Absent THEN {"ok", "error"} ELSE {"error"}

Refused(p) ==
    /\ IsAt(p, "remove")
    /\ zone[Target(p)] # call[p].found
    /\ \E status \in RefusalMeans(p) : Return(p, status, {})
    /\ UNCHANGED <<zone, made, changes>>

-----------------------------------------------------------------------------
\* Somebody else changes the zone.
Others(k, c) ==
    /\ changes < MaxChanges
    /\ zone[k] # c
    /\ Put(k, c)
    /\ changes' = changes + 1
    /\ UNCHANGED <<call, answer, made, landed>>

Init ==
    /\ zone \in InitialZones
    /\ call = [p \in Callers |-> Idle]
    /\ answer = [p \in Callers |-> Returned("none", "none", {})]
    /\ made = [p \in Callers |-> 0]
    /\ changes = 0
    /\ held = [p \in Callers |-> Nothing]
    /\ landed = {}

\* The request that is due is answered.
Proceeds(p) == \/ ZoneFqdn(p) \/ ListPage(p) \/ Fetch(p)
               \/ Upsert(p) \/ Remove(p) \/ Refused(p) \/ Succeeds(p)

Step(p) == Proceeds(p) \/ Fails(p) \/ Resend(p) \/ AnswerLost(p)

Next == \/ \E p \in Callers : Step(p) \/ \E request \in Requests[p] : Begin(p, request)
        \/ \E k \in Keys : \E c \in OthersPut[k] \union {Absent} : Others(k, c)

Spec == Init /\ [][Next]_vars

\* A request is answered in the end, unless it fails before.
FairSpec == Spec /\ \A p \in Callers : WF_vars(Proceeds(p))

-----------------------------------------------------------------------------
(* Properties.                                                             *)

Answers == {Shown[k][c] : k \in Keys, c \in Contents}

\* Every variable has the shape its comment gives it.
TypeOK ==
    /\ zone \in [Keys -> Contents \union {Absent}]
    /\ \A p \in Callers :
          \/ IsAt(p, "idle")
          \/ /\ call[p].pc \in {"zone", "page", "change", "fetch", "remove", "landed"}
             /\ call[p].request \in Requests[p]
             /\ call[p].cursor \in Keys
             /\ call[p].listed \subseteq Answers
             /\ call[p].found \in Contents \union {Absent}
             /\ call[p].sends \in 0 .. Attempts
    /\ \A p \in Callers : /\ answer[p].status \in {"none", "ok", "error"}
                          /\ answer[p].records \subseteq Answers
    /\ \A p \in Callers : made[p] \in 0 .. MaxCalls[p]
    /\ changes \in 0 .. MaxChanges
    /\ held \in [Callers -> [Keys -> SUBSET (Contents \union {Absent})]]
    /\ landed \subseteq Callers

\* The call of p is a listing that has returned.
Listed(p) == answer[p].status = "ok" /\ answer[p].op = "list"

\* Every record the program sends is listed back as itself, when it is in the
\* zone throughout a listing: the worker finds it under its RecordKey, once,
\* and sees no difference.  Names with capitals and TXT values with quotes of
\* their own are the exceptions, and wildcards, which are listed as "\052":
\* RequestsAssumption keeps them out.
Faithful(r) ==
    /\ Lowercase(r.name) = r.name
    /\ r.type = "TXT" => \A i \in DOMAIN r.values : ~ Quoted(r.values[i].text)

Sent == UNION {{q.record : q \in {q \in Requests[p] : q.op = "upsert"}} : p \in Callers}

ReadsBack ==
    \A p \in Callers, r \in Sent :
        LET mine == {e \in answer[p].records : RecordKey(e) = RecordKey(r)} IN
        /\ Listed(p) /\ Faithful(r)
        /\ held[p][KeyOf(r)] # {} /\ held[p][KeyOf(r)] \subseteq Encode(r)
        => /\ Cardinality(mine) = 1
           /\ \A e \in mine : ~ Diff(e, r)

\* The record set c of the service says what the record r says, on the terms
\* of DNS: any order of the values, host names without regard to case.
SameRdata(type, v, w) == IF type = "TXT" THEN v = w
                         ELSE v.prio = w.prio /\ FqdnsEqual(v.text, w.text)

Means(c, r) ==
    /\ c # Absent /\ c # Alias
    /\ c.ttl = r.ttl
    /\ DOMAIN c.values = DOMAIN r.values
    /\ \E order \in Bijection(DOMAIN r.values, DOMAIN r.values) : \A i \in DOMAIN r.values :
          SameRdata(r.type, c.values[i], WireValue(r.type, r.values[order[i]]))

\* A record that shows no difference in a listing was in the zone at some
\* moment of that listing: "in_sync" is never said of content that was not
\* there, however the pages fall and the zone changes between them.
InSyncWasTrue ==
    \A p \in Callers, r \in Sent :
        Listed(p) /\ (\E e \in answer[p].records : ~ Diff(e, r))
        => \E c \in held[p][KeyOf(r)] : Means(c, r)

\* Every call returns, however the zone changes while it lists.
Returns == \A p \in Callers : ~ IsAt(p, "idle") ~> IsAt(p, "idle")

\* Seen from outside, a call is what the worker takes it for.
AsRequests == [p \in Callers |-> {AsRequest[q] : q \in Requests[p]}]

View(p) == [stage   |-> IF IsAt(p, "idle") THEN "closed"
                        ELSE IF p \in landed THEN "done" ELSE "open",
            request |-> IF IsAt(p, "idle") THEN Absent ELSE AsRequest[call[p].request],
            answer  |-> answer[p].status,
            shows   |-> answer[p].records,
            held    |-> held[p]]

Views == [p \in Callers |-> View(p)]

Abstract == INSTANCE ProviderCalls WITH Requests <- AsRequests, calls <- Views

ImplementsCalls == Abstract!Spec

=============================================================================
