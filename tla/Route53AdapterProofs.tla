------------------------ MODULE Route53AdapterProofs ------------------------
(***************************************************************************)
(* Route53Adapter is type correct and implements ProviderCalls, and what   *)
(* its listings show is what was written and what was there, for any zone, *)
(* size of the pages, number of repeated requests, callers and changes by  *)
(* others.                                                                 *)
(*                                                                         *)
(* The inductive invariant IInv relates an open call to what the keys held *)
(* since it began: the keys before the cursor of a listing are collected,  *)
(* each with one content it held, and a request that has landed left its   *)
(* effect in the history.  SInv adds what a listing has returned, and that *)
(* TXT record sets are in quotes.                                          *)
(***************************************************************************)
EXTENDS Route53Adapter, RecordCodecProofs

Holds == Contents \union {Absent}

AllRequests == UNION {Requests[p] : p \in Callers}

OpenCalls == [pc : {"zone", "page", "change", "fetch", "remove", "landed"},
              request : AllRequests, cursor : Keys, listed : SUBSET Answers,
              found : Holds, sends : 0 .. Attempts]

IsOpen(p) == ~ IsAt(p, "idle")

Typed ==
    /\ zone \in [Keys -> Holds]
    /\ call \in [Callers -> {Idle} \union OpenCalls]
    /\ \A p \in Callers : IsOpen(p) => call[p].request \in Requests[p]
    /\ answer \in [Callers -> [op : {"none", "list", "upsert", "delete"},
                               status : {"none", "ok", "error"},
                               records : SUBSET Answers]]
    /\ made \in [Callers -> Nat] /\ \A p \in Callers : made[p] <= MaxCalls[p]
    /\ changes \in 0 .. MaxChanges
    /\ held \in [Callers -> [Keys -> SUBSET Holds]]
    /\ landed \subseteq Callers

\* The history of an open call ends with the present.
HeldOK == \A p \in Callers, k \in Keys : IsOpen(p) => zone[k] \in held[p][k]

\* The requests that a call c makes.
StageOK(c) ==
    /\ c.pc = "page" => c.request.op = "list"
    /\ c.pc = "change" => c.request.op = "upsert"
    /\ c.pc \in {"fetch", "remove"} => c.request.op = "delete"
    /\ c.pc = "landed" => c.request.op \in {"upsert", "delete"}
    /\ c.pc \in {"zone", "change", "fetch", "remove"} => c.sends > 0

\* A request that has landed has left its effect.
LandedOK(p, c) ==
    c.pc = "landed" =>
        /\ p \in landed
        /\ c.request.op = "delete" => Absent \in held[p][AsRequest[c.request].key]

\* records is what a listing shows of the keys before n if each held what
\* pick says.
Collects(records, n, pick) ==
    records = {Shown[k][pick[k]] : k \in {j \in Keys : j < n}} \ {Absent}

\* pick takes from each key before n something it held.
PicksFrom(seen, n, pick) ==
    pick \in [Keys -> Holds] /\ \A k \in Keys : k < n => pick[k] \in seen[k]

\* A listing has collected something each key before its cursor held.
ListedOK(p, c) ==
    c.pc \in {"zone", "page"} =>
        \E pick : PicksFrom(held[p], c.cursor, pick) /\ Collects(c.listed, c.cursor, pick)

CallOK(p, c) == StageOK(c) /\ LandedOK(p, c) /\ ListedOK(p, c)

IInv ==
    /\ Typed
    /\ HeldOK
    /\ \A p \in landed : IsOpen(p)
    /\ \A p \in Callers : CallOK(p, call[p])

-----------------------------------------------------------------------------
(* The keys and the requests. *)

LEMMA KeysFacts ==
    /\ Keys \subseteq Nat /\ IsFiniteSet(Keys)
    /\ 1 \in Keys /\ \A k \in Keys : 1 <= k
<1>1. Keys = 1 .. Len(KeyName) /\ Len(KeyName) \in Nat /\ Len(KeyName) # 0
  BY ServiceAssumption DEF Keys
<1> QED BY <1>1, FS_Interval

\* A non-empty set of keys has a first one.
LEMMA FirstIsLeast ==
    ASSUME NEW S, S \subseteq Keys, S # {}
    PROVE  First(S) \in S /\ \A j \in S : First(S) <= j
<1> DEFINE R == OpToRel(<, Nat)
<1>1. \A x, y \in Nat : y < x => <<y, x>> \in R
  BY DEF OpToRel
<1>2. IsWellFoundedOn(R, Nat)
  BY NatLessThanWellFounded
<1> HIDE DEF R
<1>3. S \subseteq Nat
  BY KeysFacts
<1>4. PICK x \in S : \A y \in S : ~ (<<y, x>> \in R)
  BY <1>2, <1>3, WFMin
<1>5. \A y \in S : ~ (y < x)
  BY <1>1, <1>3, <1>4
<1>6. \A y \in S : x <= y
  BY <1>3, <1>5
<1> QED BY <1>6 DEF First

\* What a request is to the service.
LEMMA RequestFacts ==
    ASSUME NEW p \in Callers, NEW q \in Requests[p]
    PROVE  /\ q.op \in {"list", "upsert", "delete"}
           /\ AsRequest[q] \in {AsRequest[r] : r \in Requests[p]}
           /\ AsRequest[q].op = q.op
           /\ q.op # "list" => AsRequest[q].key = KeyOf(q.record) /\ KeyOf(q.record) \in Keys
           /\ q.op = "upsert" => AsRequest[q].contents = Encode(q.record)
                                 /\ Encode(q.record) \subseteq Contents
<1>1. q \in UNION {Requests[r] : r \in Callers}
  OBVIOUS
<1>2. q.op \in {"list", "upsert", "delete"}
  BY RequestsAssumption
<1>3. q.op # "list" => KeyOf(q.record) \in Keys
  BY <1>2, RequestsAssumption DEF KeyOf
<1>4. q.op = "upsert" => Encode(q.record) \subseteq Contents
  <2>1. SUFFICES ASSUME q.op = "upsert" PROVE Encode(q.record) \subseteq Written(p)
    BY DEF Contents
  <2> QED
    BY <2>1 DEF Written
<1>5. CASE q.op = "list"
  BY <1>1, <1>5 DEF AsRequest
<1>6. CASE q.op = "upsert"
  BY <1>1, <1>3, <1>4, <1>6 DEF AsRequest
<1>7. CASE q.op = "delete"
  BY <1>1, <1>3, <1>7 DEF AsRequest
<1> QED
  BY <1>2, <1>5, <1>6, <1>7

\* What a listing shows of contents the service may hold.
LEMMA ShownFacts ==
    /\ \A k \in Keys, c \in Holds : Shown[k][c] \in Answers \union {Absent}
    /\ \A k \in Keys : Shown[k][Absent] = Absent
<1>1. \A k \in Keys, c \in Contents : Shown[k][c] \in Answers
  BY DEF Answers
<1>2. ASSUME NEW k \in Keys PROVE Shown[k][Absent] = Absent
  <2>1. Shown[k] = [c \in Contents \union {Absent} |-> Decode(k, c)]
    BY DEF Shown
  <2>2. Shown[k][Absent] = Decode(k, Absent)
    BY <2>1
  <2> QED
    BY <2>2 DEF Decode
<1> QED
  BY <1>1, <1>2 DEF Holds

-----------------------------------------------------------------------------
(* The pages of a listing. *)

\* A page that is not the last ends right before the next cursor.
LEMMA PageBorder ==
    ASSUME NEW S, S \subseteq Keys, Least(S, PageSize) # S
    PROVE  /\ First(S \ Least(S, PageSize)) \in Keys
           /\ \A k \in S : k \in Least(S, PageSize) <=> k < First(S \ Least(S, PageSize))
<1> DEFINE page == Least(S, PageSize)
           next == First(S \ page)
<1>1. page \subseteq S /\ S \ page # {} /\ S \subseteq Nat
  BY KeysFacts DEF Least
<1>2. \A k \in S : k \in page <=> Cardinality({j \in S : j < k}) < PageSize
  BY DEF Least
<1> HIDE DEF page
<1>3. next \in S \ page /\ \A j \in S \ page : next <= j
  BY <1>1, FirstIsLeast
<1> HIDE DEF next
<1>4. next \in Nat
  BY <1>1, <1>3
<1>5. ASSUME NEW k \in S, k < next PROVE k \in page
  <2>1. k \in Nat /\ ~ (next <= k)
    BY <1>1, <1>4, <1>5
  <2> QED
    BY <1>3, <2>1
<1>6. ASSUME NEW k \in page PROVE k < next
  <2>1. k \in S /\ k \in Nat
    BY <1>1
  <2>2. SUFFICES ASSUME next <= k PROVE FALSE
    BY <1>4, <2>1
  <2> DEFINE Before(n) == {j \in S : j < n}
  <2>3. \A j \in Nat : j < next => j < k
    BY <1>4, <2>1, <2>2
  <2>4. Before(next) \subseteq Before(k)
    BY <1>1, <2>3
  <2>5. IsFiniteSet(Before(k))
    <3>1. Before(k) \in SUBSET Keys
      OBVIOUS
    <3> HIDE DEF Before
    <3> QED BY <3>1, KeysFacts, FS_Subset
  <2>6. Cardinality(Before(k)) < PageSize /\ ~ (Cardinality(Before(next)) < PageSize)
    BY <1>2, <1>3, <2>1
  <2> HIDE DEF Before
  <2>7. /\ Cardinality(Before(next)) <= Cardinality(Before(k))
        /\ Cardinality(Before(next)) \in Nat /\ Cardinality(Before(k)) \in Nat
    BY <2>4, <2>5, FS_Subset, FS_CardinalityType
  <2> QED
    BY <2>6, <2>7, ServiceAssumption
<1>7. next \in Keys
  BY <1>3
<1> QED
  BY <1>3, <1>5, <1>6, <1>7 DEF next, page

\* A page extends what has been collected up to its end, be it the cursor of
\* the next one or the end of the zone.
LEMMA PageCollects ==
    ASSUME zone \in [Keys -> Holds], NEW cursor \in Keys, NEW seen, NEW records,
           \A k \in Keys : zone[k] \in seen[k],
           NEW old, PicksFrom(seen, cursor, old), Collects(records, cursor, old),
           NEW page, page \subseteq StartingAt(cursor),
           NEW n, \A k \in Keys : cursor <= k /\ k < n /\ zone[k] # Absent => k \in page,
           \A k \in page : k < n,
           \A k \in Keys : k < cursor => k < n
    PROVE  \E pick : /\ PicksFrom(seen, n, pick)
                     /\ Collects(records \union Decoded(page), n, pick)
<1> DEFINE pick == [k \in Keys |-> IF k < cursor THEN old[k] ELSE zone[k]]
           before == {j \in Keys : j < n}
<1>1. pick \in [Keys -> Holds]
  BY DEF PicksFrom
<1>2. PicksFrom(seen, n, pick)
  BY <1>1 DEF PicksFrom
<1>3. ASSUME NEW e
      PROVE  e \in records \union Decoded(page)
                <=> e \in {Shown[k][pick[k]] : k \in before} \ {Absent}
  <2>1. ASSUME e \in records
        PROVE  e # Absent /\ \E k \in before : e = Shown[k][pick[k]]
    <3>1. PICK k \in Keys : k < cursor /\ e = Shown[k][old[k]] /\ e # Absent
      BY <2>1 DEF Collects
    <3> QED
      BY <3>1
  <2>2. ASSUME e \in Decoded(page)
        PROVE  e # Absent /\ \E k \in before : e = Shown[k][pick[k]]
    <3>1. PICK k \in page : e = Shown[k][zone[k]] /\ e # Absent
      BY <2>2 DEF Decoded
    <3>2. k \in Keys /\ k >= cursor /\ k < n
      BY <3>1 DEF StartingAt
    <3>3. ~ (k < cursor)
      BY <3>2, KeysFacts
    <3> QED
      BY <3>1, <3>2, <3>3
  <2>3. ASSUME NEW k \in before, e = Shown[k][pick[k]], e # Absent
        PROVE  e \in records \union Decoded(page)
    <3>1. CASE k < cursor
      BY <2>3, <3>1 DEF Collects
    <3>2. CASE ~ (k < cursor)
      <4>1. zone[k] # Absent
        BY <2>3, <3>2, ShownFacts
      <4>2. k \in page
        BY <3>2, <4>1, KeysFacts
      <4> QED
        BY <2>3, <3>2, <4>2 DEF Decoded
    <3> QED
      BY <3>1, <3>2
  <2> QED
    BY <2>1, <2>2, <2>3
<1>4. Collects(records \union Decoded(page), n, pick)
  BY <1>3 DEF Collects
<1> QED
  BY <1>2, <1>4

-----------------------------------------------------------------------------
(* The inductive invariant. *)

LEMMA InitInv == Init => IInv
<1> SUFFICES ASSUME Init PROVE IInv
  OBVIOUS
<1>1. \A p \in Callers : call[p] = Idle
  BY DEF Init
<1>2. Typed
  BY <1>1, ServiceAssumption DEF Init, Typed, IsOpen, IsAt, Idle, Holds, Nothing, Returned
<1>3. \A p \in Callers : CallOK(p, call[p])
  BY <1>1 DEF CallOK, StageOK, LandedOK, ListedOK, Idle
<1> QED
  BY <1>1, <1>2, <1>3 DEF Init, IInv, HeldOK, IsOpen, IsAt, Idle

LEMMA OpenCall ==
    ASSUME Typed, NEW p \in Callers, IsOpen(p)
    PROVE  call[p] \in OpenCalls /\ call[p].request \in Requests[p]
BY DEF Typed, IsOpen, IsAt, Idle

\* An idle call has no conditions to meet.
LEMMA IdleOK == \A p : CallOK(p, Idle)
BY DEF CallOK, StageOK, LandedOK, ListedOK, Idle

\* A step that returns keeps the invariant.
LEMMA ReturnKeeps ==
    ASSUME IInv, NEW p \in Callers, IsOpen(p),
           NEW status \in {"ok", "error"}, NEW records \in SUBSET Answers,
           Return(p, status, records), UNCHANGED <<zone, made, changes>>
    PROVE  IInv'
<1>1. call[p] \in OpenCalls /\ call[p].request \in Requests[p]
  BY OpenCall DEF IInv
<1>2. /\ call' = [call EXCEPT ![p] = Idle]
      /\ \A q \in Callers : call'[q] = IF q = p THEN Idle ELSE call[q]
      /\ \A q \in Callers \ {p} : held'[q] = held[q]
      /\ landed' = landed \ {p}
  BY DEF Return, IInv, Typed
<1>3. held' \in [Callers -> [Keys -> SUBSET Holds]]
  BY DEF Return, IInv, Typed, Nothing
<1>4. answer' \in [Callers -> [op : {"none", "list", "upsert", "delete"},
                               status : {"none", "ok", "error"},
                               records : SUBSET Answers]]
  <2>1. call[p].request.op \in {"list", "upsert", "delete"}
    BY <1>1, RequestFacts
  <2> QED
    BY <2>1 DEF Return, Returned, IInv, Typed
<1>5. Typed'
  BY <1>2, <1>3, <1>4 DEF IInv, Typed, IsOpen, IsAt, Idle
<1>6. HeldOK' /\ \A q \in landed' : IsOpen(q)'
  BY <1>2 DEF IInv, HeldOK, IsOpen, IsAt, Idle, Typed
<1>7. ASSUME NEW q \in Callers PROVE CallOK(q, call[q])'
  <2>1. CASE q = p
    BY <1>2, <2>1 DEF CallOK, StageOK, LandedOK, ListedOK, Idle
  <2>2. CASE q # p
    BY <1>2, <2>2 DEF IInv, CallOK, LandedOK, ListedOK
  <2> QED
    BY <2>1, <2>2
<1> QED
  BY <1>5, <1>6, <1>7 DEF IInv

\* A step that only moves a call on keeps the invariant if the call meets
\* its conditions.
LEMMA AdvanceKeeps ==
    ASSUME IInv, NEW p \in Callers, IsOpen(p), NEW c \in OpenCalls,
           c.request = call[p].request, CallOK(p, c), call' = [call EXCEPT ![p] = c],
           UNCHANGED <<zone, answer, made, changes, held, landed>>
    PROVE  IInv'
<1>1. \A q \in Callers : call'[q] = IF q = p THEN c ELSE call[q]
  BY DEF IInv, Typed
<1>2. c.pc # "idle"
  BY DEF OpenCalls
<1>3. Typed'
  BY <1>1, <1>2 DEF IInv, Typed, IsOpen, IsAt
<1>4. HeldOK' /\ \A q \in landed' : IsOpen(q)'
  BY <1>1, <1>2 DEF IInv, HeldOK, IsOpen, IsAt, Typed
<1>5. \A q \in Callers : CallOK(q, call[q])'
  BY <1>1 DEF IInv, CallOK, LandedOK, ListedOK
<1> QED
  BY <1>3, <1>4, <1>5 DEF IInv

\* What a change of the zone does to the histories.
LEMMA PutFacts ==
    ASSUME IInv, NEW k \in Keys, NEW c \in Holds, Put(k, c)
    PROVE  /\ zone' \in [Keys -> Holds]
           /\ held' \in [Callers -> [Keys -> SUBSET Holds]]
           /\ \A q \in Callers, j \in Keys : held[q][j] \subseteq held'[q][j]
           /\ \A q \in Callers, j \in Keys : IsOpen(q) => zone'[j] \in held'[q][j]
           /\ \A q \in Callers : IsOpen(q) => c \in held'[q][k]
<1>1. \A q \in Callers : held'[q] = IF call[q].pc = "idle" THEN held[q]
                                    ELSE [held[q] EXCEPT ![k] = @ \union {c}]
  BY DEF Put
<1>2. held' \in [Callers -> [Keys -> SUBSET Holds]]
  BY <1>1 DEF Put, IInv, Typed
<1>3. \A j \in Keys : zone'[j] = IF j = k THEN c ELSE zone[j]
  BY DEF Put, IInv, Typed
<1>4. ASSUME NEW q \in Callers, NEW j \in Keys
      PROVE  held'[q][j] = IF IsOpen(q) /\ j = k THEN held[q][j] \union {c} ELSE held[q][j]
  <2>1. held[q] \in [Keys -> SUBSET Holds]
    BY DEF IInv, Typed
  <2>2. CASE IsOpen(q)
    <3>1. held'[q] = [held[q] EXCEPT ![k] = held[q][k] \union {c}]
      BY <1>1, <2>2 DEF IsOpen, IsAt
    <3> QED
      BY <2>1, <2>2, <3>1
  <2>3. CASE ~ IsOpen(q)
    BY <1>1, <2>3 DEF IsOpen, IsAt
  <2> QED
    BY <2>2, <2>3
<1>5. zone' \in [Keys -> Holds]
  BY DEF Put, IInv, Typed
<1>6. \A q \in Callers, j \in Keys : IsOpen(q) => zone[j] \in held[q][j]
  BY DEF IInv, HeldOK
<1> QED
  BY <1>2, <1>3, <1>4, <1>5, <1>6

\* The conditions of a call outlive changes of the zone.
LEMMA GrowsOK ==
    ASSUME IInv, NEW q \in Callers, held' \in [Callers -> [Keys -> SUBSET Holds]],
           \A j \in Keys : held[q][j] \subseteq held'[q][j],
           landed \subseteq landed', call'[q] = call[q]
    PROVE  CallOK(q, call[q])'
<1>1. CallOK(q, call[q])
  BY DEF IInv
<1>2. StageOK(call[q])'
  BY <1>1 DEF CallOK, StageOK
<1>3. LandedOK(q, call[q])'
  <2>1. SUFFICES ASSUME call[q].pc = "landed" PROVE LandedOK(q, call[q])'
    BY DEF LandedOK
  <2>2. call[q].request.op = "delete" => AsRequest[call[q].request].key \in Keys
    BY <2>1, OpenCall, RequestFacts DEF IInv, IsOpen, IsAt
  <2> QED
    BY <1>1, <2>1, <2>2 DEF CallOK, LandedOK
<1>4. ListedOK(q, call[q])'
  BY <1>1 DEF CallOK, ListedOK, PicksFrom
<1> QED
  BY <1>2, <1>3, <1>4 DEF CallOK

LEMMA BeginStep ==
    ASSUME IInv, NEW p \in Callers, NEW request \in Requests[p], Begin(p, request)
    PROVE  IInv'
<1> DEFINE c == Open("zone", request)
<1>1. /\ call' = [call EXCEPT ![p] = c]
      /\ made' = [made EXCEPT ![p] = @ + 1] /\ made[p] < MaxCalls[p]
      /\ answer' = [answer EXCEPT ![p] = Returned("none", "none", {})]
      /\ held' = [held EXCEPT ![p] = [k \in Keys |-> {zone[k]}]]
      /\ zone' = zone /\ changes' = changes /\ landed' = landed
      /\ ~ IsOpen(p)
  BY DEF Begin, IsOpen
<1>2. /\ c \in OpenCalls /\ c.request = request /\ c.pc = "zone" /\ c.cursor = 1
      /\ c.listed = {} /\ c.sends > 0
  BY KeysFacts, ServiceAssumption DEF Open, OpenCalls, AllRequests, Holds
<1> HIDE DEF c
<1>3. \A q \in Callers : call'[q] = IF q = p THEN c ELSE call[q]
  BY <1>1 DEF IInv, Typed
<1>4. held' \in [Callers -> [Keys -> SUBSET Holds]]
  BY <1>1 DEF IInv, Typed
<1>5. /\ made' \in [Callers -> Nat] /\ \A q \in Callers : made'[q] <= MaxCalls[q]
  <2>1. MaxCalls \in [Callers -> Nat]
    BY ServiceAssumption
  <2>2. \A q \in Callers : made'[q] = IF q = p THEN made[p] + 1 ELSE made[q]
    BY <1>1 DEF IInv, Typed
  <2>3. made \in [Callers -> Nat] /\ \A q \in Callers : made[q] <= MaxCalls[q]
    BY DEF IInv, Typed
  <2>4. made' \in [Callers -> Nat]
    BY <1>1, <2>3
  <2>5. made[p] + 1 <= MaxCalls[p]
    BY <1>1, <2>1, <2>3
  <2> QED
    BY <2>2, <2>3, <2>4, <2>5
<1>6. answer' \in [Callers -> [op : {"none", "list", "upsert", "delete"},
                               status : {"none", "ok", "error"},
                               records : SUBSET Answers]]
  BY <1>1 DEF IInv, Typed, Returned
<1>7. Typed'
  BY <1>1, <1>2, <1>3, <1>4, <1>5, <1>6 DEF IInv, Typed, IsOpen, IsAt
<1>8. HeldOK' /\ \A q \in landed' : IsOpen(q)'
  BY <1>1, <1>2, <1>3 DEF IInv, HeldOK, IsOpen, IsAt, Typed
<1>9. ASSUME NEW q \in Callers PROVE CallOK(q, call[q])'
  <2>1. CASE q # p
    BY <1>1, <1>3, <2>1 DEF IInv, CallOK, LandedOK, ListedOK, Typed
  <2>2. CASE q = p
    <3>1. PicksFrom(held'[p], 1, zone) /\ Collects({}, 1, zone)
      <4>1. \A k \in Keys : ~ (k < 1)
        BY KeysFacts
      <4> QED
        BY <4>1 DEF PicksFrom, Collects, IInv, Typed
    <3> QED
      BY <1>2, <1>3, <2>2, <3>1 DEF CallOK, StageOK, LandedOK, ListedOK
  <2> QED
    BY <2>1, <2>2
<1> QED
  BY <1>7, <1>8, <1>9 DEF IInv

LEMMA ZoneFqdnStep ==
    ASSUME IInv, NEW p \in Callers, ZoneFqdn(p)
    PROVE  IInv'
<1> DEFINE op == call[p].request.op
           c  == [call[p] EXCEPT !.pc = FirstRequest(op)]
<1>1. IsOpen(p) /\ call[p].pc = "zone" /\ call' = [call EXCEPT ![p] = c]
  BY DEF ZoneFqdn, IsOpen, IsAt
<1>2. call[p] \in OpenCalls /\ op \in {"list", "upsert", "delete"}
  BY <1>1, OpenCall, RequestFacts DEF IInv
<1>3. \/ op = "list" /\ FirstRequest(op) = "page"
      \/ op = "upsert" /\ FirstRequest(op) = "change"
      \/ op = "delete" /\ FirstRequest(op) = "fetch"
  BY <1>2 DEF FirstRequest
<1>4. /\ c \in OpenCalls /\ c.pc = FirstRequest(op) /\ c.request = call[p].request
      /\ c.cursor = call[p].cursor /\ c.listed = call[p].listed /\ c.sends = call[p].sends
  BY <1>2, <1>3 DEF OpenCalls
<1> HIDE DEF c
<1>5. CallOK(p, call[p])
  BY DEF IInv
<1>6. CallOK(p, c)
  BY <1>1, <1>3, <1>4, <1>5 DEF CallOK, StageOK, LandedOK, ListedOK
<1> QED
  BY <1>1, <1>4, <1>6, AdvanceKeeps DEF ZoneFqdn

LEMMA FailsStep ==
    ASSUME IInv, NEW p \in Callers, Fails(p) \/ AnswerLost(p) \/ Succeeds(p) \/ Refused(p)
    PROVE  IInv'
<1>1. IsOpen(p) /\ UNCHANGED <<zone, made, changes>>
  BY DEF Fails, AnswerLost, Succeeds, Refused, IsOpen, IsAt
<1>2. \E status \in {"ok", "error"} : Return(p, status, {})
  BY DEF Fails, AnswerLost, Succeeds, Refused, RefusalMeans
<1> QED
  BY <1>1, <1>2, ReturnKeeps

\* What a page is, and what it adds to a listing.
LEMMA PageFacts ==
    ASSUME IInv, NEW p \in Callers, IsAt(p, "page")
    PROVE  LET ahead   == StartingAt(call[p].cursor)
               page    == Least(ahead, PageSize)
               records == call[p].listed \union Decoded(page)
           IN  /\ records \subseteq Answers
               /\ page # ahead =>
                     LET next == NextCursor(ahead \ page) IN
                     /\ next \in Keys
                     /\ \E pick : PicksFrom(held[p], next, pick) /\ Collects(records, next, pick)
               /\ page = ahead =>
                     \E pick \in [Keys -> Holds] :
                        /\ \A k \in Keys : pick[k] \in held[p][k]
                        /\ records = {Shown[k][pick[k]] : k \in Keys} \ {Absent}
<1> DEFINE cursor  == call[p].cursor
           ahead   == StartingAt(cursor)
           page    == Least(ahead, PageSize)
           records == call[p].listed \union Decoded(page)
<1>1. IsOpen(p) /\ call[p] \in OpenCalls /\ zone \in [Keys -> Holds]
  BY OpenCall DEF IInv, Typed, IsOpen, IsAt
<1>2. cursor \in Keys /\ call[p].listed \subseteq Answers
  BY <1>1 DEF OpenCalls
<1>3. ahead \subseteq Keys /\ page \subseteq ahead
  BY DEF StartingAt, Least
<1>4. records \subseteq Answers
  BY <1>1, <1>2, <1>3, ShownFacts DEF Decoded
<1>5. \A k \in Keys : zone[k] \in held[p][k]
  BY <1>1 DEF IInv, HeldOK
<1>6. PICK old : PicksFrom(held[p], cursor, old) /\ Collects(call[p].listed, cursor, old)
  BY DEF IInv, CallOK, ListedOK, IsAt
<1>7. ASSUME NEW n, \A k \in Keys : cursor <= k /\ k < n /\ zone[k] # Absent => k \in page,
             \A k \in page : k < n, \A k \in Keys : k < cursor => k < n
      PROVE  \E pick : PicksFrom(held[p], n, pick) /\ Collects(records, n, pick)
  <2> HIDE DEF cursor, page
  <2>1. page \subseteq StartingAt(cursor)
    BY <1>3 DEF page
  <2> QED
    BY <1>1, <1>2, <1>5, <1>6, <1>7, <2>1, PageCollects
<1>8. ASSUME page # ahead
      PROVE  LET next == NextCursor(ahead \ page) IN
             /\ next \in Keys
             /\ \E pick : PicksFrom(held[p], next, pick) /\ Collects(records, next, pick)
  <2> DEFINE next == First(ahead \ page)
  <2>1. next \in Keys /\ \A k \in ahead : k \in page <=> k < next
    <3> HIDE DEF ahead
    <3> QED BY <1>3, <1>8, PageBorder
  <2>2. next \in ahead
    <3>1. ahead \ page # {} /\ ahead \ page \subseteq Keys
      BY <1>3, <1>8
    <3> HIDE DEF ahead, page
    <3> QED BY <3>1, FirstIsLeast
  <2> HIDE DEF next
  <2>3. next >= cursor
    BY <2>2 DEF StartingAt
  <2>4. \A k \in Keys : cursor <= k /\ k < next /\ zone[k] # Absent => k \in page
    <3>1. \A k \in Keys : cursor <= k /\ zone[k] # Absent => k \in ahead
      BY <1>2, KeysFacts DEF StartingAt
    <3> QED BY <2>1, <3>1
  <2>5. \A k \in page : k < next
    BY <1>3, <2>1
  <2>6. \A k \in Keys : k < cursor => k < next
    BY <1>2, <2>1, <2>3, KeysFacts
  <2>7. \E pick : PicksFrom(held[p], next, pick) /\ Collects(records, next, pick)
    <3> HIDE DEF page, ahead, records, cursor
    <3> QED BY <1>7, <2>4, <2>5, <2>6
  <2> QED
    BY <2>1, <2>7 DEF next, NextCursor
<1>9. ASSUME page = ahead
      PROVE  \E pick \in [Keys -> Holds] :
                /\ \A k \in Keys : pick[k] \in held[p][k]
                /\ records = {Shown[k][pick[k]] : k \in Keys} \ {Absent}
  <2> DEFINE n == Len(KeyName) + 1
  <2>1. Keys \subseteq Nat /\ \A k \in Keys : k < n
    <3>1. Keys = 1 .. Len(KeyName) /\ Len(KeyName) \in Nat
      BY ServiceAssumption DEF Keys
    <3> QED BY <3>1
  <2> HIDE DEF n
  <2>2. \A k \in Keys : cursor <= k /\ zone[k] # Absent => k \in page
    BY <1>2, <1>9, <2>1 DEF StartingAt
  <2>3. \A k \in page : k < n
    BY <1>3, <2>1
  <2>4. PICK pick : PicksFrom(held[p], n, pick) /\ Collects(records, n, pick)
    <3> HIDE DEF page, ahead, records, cursor
    <3> QED BY <1>7, <2>1, <2>2, <2>3
  <2>5. {j \in Keys : j < n} = Keys
    BY <2>1
  <2> HIDE DEF records
  <2> QED
    BY <2>1, <2>4, <2>5 DEF PicksFrom, Collects
<1> QED
  BY <1>4, <1>8, <1>9

LEMMA ListPageStep ==
    ASSUME IInv, NEW p \in Callers, ListPage(p)
    PROVE  IInv'
<1> DEFINE ahead   == StartingAt(call[p].cursor)
           page    == Least(ahead, PageSize)
           records == call[p].listed \union Decoded(page)
           next    == NextCursor(ahead \ page)
           c       == [call[p] EXCEPT !.listed = records, !.cursor = next]
<1>1. IsAt(p, "page") /\ IsOpen(p) /\ UNCHANGED <<zone, made, changes>>
  BY DEF ListPage, IsOpen, IsAt
<1>2. records \subseteq Answers
  BY <1>1, PageFacts
<1>3. CASE page = ahead /\ Return(p, "ok", records)
  <2> HIDE DEF records
  <2> QED BY <1>1, <1>2, <1>3, ReturnKeeps
<1>4. CASE /\ page # ahead
           /\ call' = [call EXCEPT ![p].listed = records, ![p].cursor = next]
           /\ UNCHANGED <<answer, held, landed>>
  <2>1. /\ next \in Keys
        /\ \E pick : PicksFrom(held[p], next, pick) /\ Collects(records, next, pick)
    BY <1>1, <1>4, PageFacts
  <2>2. call[p] \in OpenCalls /\ call[p].pc = "page" /\ CallOK(p, call[p])
    BY <1>1, OpenCall DEF IInv, IsAt
  <2> HIDE DEF records, next
  <2>3. /\ c \in OpenCalls /\ c.pc = "page" /\ c.request = call[p].request
        /\ c.cursor = next /\ c.listed = records /\ c.sends = call[p].sends
    BY <1>2, <2>1, <2>2 DEF OpenCalls
  <2>4. call' = [call EXCEPT ![p] = c]
    BY <1>4 DEF IInv, Typed
  <2> HIDE DEF c
  <2>5. CallOK(p, c)
    BY <2>1, <2>2, <2>3 DEF CallOK, StageOK, LandedOK, ListedOK
  <2> QED
    BY <1>1, <1>4, <2>3, <2>4, <2>5, AdvanceKeeps
<1> QED
  BY <1>3, <1>4 DEF ListPage

\* A request that the service carries out.
LEMMA LandKeeps ==
    ASSUME IInv, NEW p \in Callers, IsAt(p, "change") \/ IsAt(p, "remove"),
           NEW content \in Holds, Put(Target(p), content), landed' = landed \union {p},
           call' = [call EXCEPT ![p].pc = "landed", ![p].sends = @ - 1],
           IsAt(p, "remove") => content = Absent,
           UNCHANGED <<answer, made, changes>>
    PROVE  IInv'
<1> DEFINE c == [call[p] EXCEPT !.pc = "landed", !.sends = @ - 1]
<1>1. IsOpen(p) /\ call[p] \in OpenCalls /\ call[p].request \in Requests[p]
      /\ StageOK(call[p])
  BY OpenCall DEF IInv, CallOK, IsOpen, IsAt
<1>2. /\ call[p].request.op \in {"upsert", "delete"}
      /\ call[p].request.op = "delete" => content = Absent
      /\ call[p].sends > 0
  BY <1>1 DEF StageOK, IsAt
<1>3. Target(p) \in Keys /\ Target(p) = AsRequest[call[p].request].key
  BY <1>1, <1>2, RequestFacts DEF Target
<1>4. /\ zone' \in [Keys -> Holds]
      /\ held' \in [Callers -> [Keys -> SUBSET Holds]]
      /\ \A q \in Callers, j \in Keys : held[q][j] \subseteq held'[q][j]
      /\ \A q \in Callers, j \in Keys : IsOpen(q) => zone'[j] \in held'[q][j]
      /\ content \in held'[p][Target(p)]
  BY <1>1, <1>3, PutFacts
<1>5. c \in OpenCalls /\ c.pc = "landed" /\ c.request = call[p].request
  <2>1. Attempts \in Nat
    BY ServiceAssumption
  <2>2. call[p].sends - 1 \in 0 .. Attempts
    BY <1>1, <1>2, <2>1 DEF OpenCalls
  <2> QED
    BY <1>1, <2>2 DEF OpenCalls
<1>6. \A q \in Callers : call'[q] = IF q = p THEN c ELSE call[q]
  BY DEF IInv, Typed
<1> HIDE DEF c
<1>7. Typed'
  <2>1. call' \in [Callers -> {Idle} \union OpenCalls]
    BY <1>5, <1>6 DEF IInv, Typed
  <2>2. \A q \in Callers : IsOpen(q)' => call'[q].request \in Requests[q]
    BY <1>1, <1>5, <1>6 DEF IInv, Typed, IsOpen, IsAt
  <2> QED
    BY <1>4, <2>1, <2>2 DEF IInv, Typed
<1>8. \A q \in Callers : IsOpen(q)' <=> IsOpen(q)
  BY <1>1, <1>5, <1>6 DEF IsOpen, IsAt
<1>9. HeldOK' /\ \A q \in landed' : IsOpen(q)'
  BY <1>1, <1>4, <1>8 DEF IInv, HeldOK, Typed
<1>10. ASSUME NEW q \in Callers PROVE CallOK(q, call[q])'
  <2>1. CASE q # p
    BY <1>4, <1>6, <2>1, GrowsOK
  <2>2. CASE q = p
    BY <1>2, <1>3, <1>4, <1>5, <1>6, <2>2 DEF CallOK, StageOK, LandedOK, ListedOK
  <2> QED
    BY <2>1, <2>2
<1> QED
  BY <1>7, <1>9, <1>10 DEF IInv

LEMMA UpsertStep ==
    ASSUME IInv, NEW p \in Callers, Upsert(p)
    PROVE  IInv'
<1>1. IsAt(p, "change") /\ ~ IsAt(p, "remove") /\ IsOpen(p)
  BY DEF Upsert, IsAt, IsOpen
<1>2. call[p].request \in Requests[p] /\ call[p].request.op = "upsert"
  BY <1>1, OpenCall DEF IInv, CallOK, StageOK, IsAt
<1>3. AsRequest[call[p].request].contents \subseteq Holds
  BY <1>2, RequestFacts DEF Holds
<1> QED
  BY <1>1, <1>3, LandKeeps DEF Upsert

LEMMA RemoveStep ==
    ASSUME IInv, NEW p \in Callers, Remove(p)
    PROVE  IInv'
BY LandKeeps DEF Remove, Holds

LEMMA ResendStep ==
    ASSUME IInv, NEW p \in Callers, Resend(p)
    PROVE  IInv'
<1> DEFINE next == IF call[p].request.op = "upsert" THEN "change" ELSE "remove"
           c    == [call[p] EXCEPT !.pc = next]
<1>1. /\ IsOpen(p) /\ call[p].pc = "landed" /\ call[p].sends > 0
      /\ call' = [call EXCEPT ![p] = c]
  BY DEF Resend, IsOpen, IsAt
<1>2. call[p] \in OpenCalls /\ StageOK(call[p])
  BY <1>1, OpenCall DEF IInv, CallOK
<1>3. \/ next = "change" /\ call[p].request.op = "upsert"
      \/ next = "remove" /\ call[p].request.op = "delete"
  BY <1>1, <1>2 DEF StageOK
<1> HIDE DEF next
<1>4. /\ c \in OpenCalls /\ c.pc = next /\ c.request = call[p].request
      /\ c.sends = call[p].sends
  BY <1>2, <1>3 DEF OpenCalls
<1> HIDE DEF c
<1>5. CallOK(p, c)
  BY <1>1, <1>3, <1>4 DEF CallOK, StageOK, LandedOK, ListedOK
<1> QED
  BY <1>1, <1>4, <1>5, AdvanceKeeps DEF Resend

LEMMA FetchStep ==
    ASSUME IInv, NEW p \in Callers, Fetch(p)
    PROVE  IInv'
<1> DEFINE c == [call[p] EXCEPT !.pc = "remove", !.found = zone[Target(p)]]
<1>1. IsOpen(p) /\ call[p].pc = "fetch" /\ UNCHANGED <<zone, made, changes>>
  BY DEF Fetch, IsOpen, IsAt
<1>2. call[p] \in OpenCalls /\ StageOK(call[p]) /\ call[p].request \in Requests[p]
  BY <1>1, OpenCall DEF IInv, CallOK
<1>3. call[p].request.op = "delete" /\ call[p].sends > 0
  BY <1>1, <1>2 DEF StageOK
<1>4. CASE Return(p, "ok", {})
  BY <1>1, <1>4, ReturnKeeps
<1>5. CASE /\ call' = [call EXCEPT ![p].pc = "remove", ![p].found = zone[Target(p)]]
           /\ UNCHANGED <<answer, held, landed>>
  <2>1. Target(p) \in Keys
    BY <1>2, <1>3, RequestFacts DEF Target
  <2>2. zone[Target(p)] \in Holds
    BY <2>1 DEF IInv, Typed
  <2>3. /\ c \in OpenCalls /\ c.pc = "remove" /\ c.request = call[p].request
        /\ c.sends = call[p].sends
    BY <1>2, <2>2 DEF OpenCalls
  <2>4. call' = [call EXCEPT ![p] = c]
    BY <1>5 DEF IInv, Typed
  <2> HIDE DEF c
  <2>5. CallOK(p, c)
    BY <1>3, <2>3 DEF CallOK, StageOK, LandedOK, ListedOK
  <2> QED
    BY <1>1, <1>5, <2>3, <2>4, <2>5, AdvanceKeeps
<1> QED
  BY <1>4, <1>5 DEF Fetch

LEMMA OthersStep ==
    ASSUME IInv, NEW k \in Keys, NEW c \in Holds, Others(k, c)
    PROVE  IInv'
<1>1. /\ Put(k, c) /\ changes' = changes + 1 /\ changes < MaxChanges
      /\ UNCHANGED <<call, answer, made, landed>>
  BY DEF Others
<1>2. /\ zone' \in [Keys -> Holds]
      /\ held' \in [Callers -> [Keys -> SUBSET Holds]]
      /\ \A q \in Callers, j \in Keys : held[q][j] \subseteq held'[q][j]
      /\ \A q \in Callers, j \in Keys : IsOpen(q) => zone'[j] \in held'[q][j]
  BY <1>1, PutFacts
<1>3. changes' \in 0 .. MaxChanges
  BY <1>1, ServiceAssumption DEF IInv, Typed
<1>4. Typed' /\ HeldOK' /\ \A q \in landed' : IsOpen(q)'
  BY <1>1, <1>2, <1>3 DEF IInv, Typed, HeldOK, IsOpen, IsAt
<1>5. \A q \in Callers : CallOK(q, call[q])'
  BY <1>1, <1>2, GrowsOK
<1> QED
  BY <1>4, <1>5 DEF IInv

LEMMA StutterStep == IInv /\ UNCHANGED vars => IInv'
BY DEF vars, IInv, Typed, HeldOK, IsOpen, IsAt, CallOK, LandedOK, ListedOK

\* What the program, the service and others do keeps the calls in order.
THEOREM AdapterInductive == Spec => []IInv
<1>1. ASSUME IInv, [Next]_vars PROVE IInv'
  <2>1. ASSUME NEW p \in Callers, Step(p) PROVE IInv'
    BY <1>1, <2>1, ZoneFqdnStep, FailsStep, ListPageStep, UpsertStep, RemoveStep,
       ResendStep, FetchStep DEF Step, Proceeds
  <2>2. ASSUME NEW k \in Keys, NEW c \in OthersPut[k] \union {Absent}, Others(k, c)
        PROVE  IInv'
    <3>1. c \in Holds
      BY DEF Holds, Contents
    <3> QED
      BY <1>1, <2>2, <3>1, OthersStep
  <2> QED
    BY <1>1, <2>1, <2>2, BeginStep, StutterStep DEF Next
<1> QED BY InitInv, <1>1, PTL DEF Spec

\* Every variable keeps its type.
THEOREM AdapterTypeCorrect == Spec => []TypeOK
<1>1. IInv => TypeOK
  <2>1. SUFFICES ASSUME IInv PROVE TypeOK
    OBVIOUS
  <2>2. \A p \in Callers : made[p] \in 0 .. MaxCalls[p]
    <3>1. MaxCalls \in [Callers -> Nat]
      BY ServiceAssumption
    <3> QED
      BY <2>1, <3>1 DEF IInv, Typed
  <2>3. \A p \in Callers :
           \/ IsAt(p, "idle")
           \/ /\ call[p].pc \in {"zone", "page", "change", "fetch", "remove", "landed"}
              /\ call[p].request \in Requests[p]
              /\ call[p].cursor \in Keys
              /\ call[p].listed \subseteq Answers
              /\ call[p].found \in Contents \union {Absent}
              /\ call[p].sends \in 0 .. Attempts
    BY <2>1, OpenCall DEF IInv, OpenCalls, Holds, IsOpen
  <2> QED
    BY <2>1, <2>2, <2>3 DEF IInv, Typed, TypeOK, Holds
<1> QED BY AdapterInductive, <1>1, PTL

-----------------------------------------------------------------------------
(* Refinement.  A page that is not the last, a fetched record set and a    *)
(* repeated request are stutters; the listing as a whole, the change of    *)
(* the zone and the answer are the steps of the abstract call.             *)

\* What the abstract call shows depends on the call alone.
LEMMA ViewKept ==
    ASSUME NEW q \in Callers, call'[q] = call[q], answer'[q] = answer[q],
           held'[q] = held[q], q \in landed' <=> q \in landed
    PROVE  View(q)' = View(q)
BY DEF View, IsAt

\* One call changes.
LEMMA ViewsChange ==
    ASSUME NEW p \in Callers, NEW v, View(p)' = v,
           \A q \in Callers \ {p} : View(q)' = View(q)
    PROVE  Views' = [Views EXCEPT ![p] = v]
BY DEF Views

\* The abstract call is open when the call is.
LEMMA ViewOpen ==
    ASSUME IInv, NEW p \in Callers
    PROVE  /\ Abstract!IsOpen(p) <=> IsOpen(p)
           /\ IsOpen(p) => /\ Views[p].request = AsRequest[call[p].request]
                           /\ Views[p].request.op = call[p].request.op
           /\ Views[p].held = held[p]
           /\ IsOpen(p) => Views[p].stage = IF p \in landed THEN "done" ELSE "open"
<1>1. Views[p] = View(p)
  BY DEF Views
<1>2. IsOpen(p) => AsRequest[call[p].request].op = call[p].request.op
  BY OpenCall, RequestFacts DEF IInv
<1> QED
  BY <1>1, <1>2 DEF View, IsOpen, Abstract!IsOpen

\* A step that moves only the call on is not seen from outside.
LEMMA AdvanceStutters ==
    ASSUME IInv, NEW p \in Callers, IsOpen(p), NEW c \in OpenCalls,
           c.request = call[p].request, call' = [call EXCEPT ![p] = c],
           UNCHANGED <<zone, answer, held, landed>>
    PROVE  UNCHANGED Abstract!vars
<1>1. \A q \in Callers : call'[q] = IF q = p THEN c ELSE call[q]
  BY DEF IInv, Typed
<1>2. c.pc # "idle"
  BY DEF OpenCalls
<1>3. \A q \in Callers : View(q)' = View(q)
  BY <1>1, <1>2 DEF View, IsOpen, IsAt
<1> QED
  BY <1>3 DEF Views, Abstract!vars

\* A call that returns closes the abstract call with the same answer.
LEMMA ReturnCloses ==
    ASSUME IInv, NEW p \in Callers, IsOpen(p), NEW status, NEW records,
           Return(p, status, records)
    PROVE  Abstract!Closed(p, status, records)
<1> DEFINE v == [stage |-> "closed", request |-> Absent, answer |-> status, shows |-> records,
                 held |-> IF Views[p].request.op = "list" THEN Views[p].held
                                                          ELSE [k \in Keys |-> {}]]
<1>1. /\ call' = [call EXCEPT ![p] = Idle]
      /\ held' = [held EXCEPT ![p] = IF call[p].request.op = "list" THEN held[p] ELSE Nothing]
      /\ landed' = landed \ {p}
      /\ answer' = [answer EXCEPT ![p] = Returned(call[p].request.op, status, records)]
  BY DEF Return
<1>2. \A q \in Callers \ {p} : View(q)' = View(q)
  BY <1>1, ViewKept DEF IInv, Typed
<1>3. View(p)' = v
  <2>1. /\ call'[p] = Idle
        /\ answer'[p] = Returned(call[p].request.op, status, records)
        /\ held'[p] = IF call[p].request.op = "list" THEN held[p] ELSE Nothing
    BY <1>1 DEF IInv, Typed
  <2>2. Views[p].request.op = call[p].request.op /\ Views[p].held = held[p]
    BY ViewOpen
  <2> QED
    BY <2>1, <2>2 DEF View, IsAt, Idle, Returned, Nothing
<1>4. Views' = [Views EXCEPT ![p] = v]
  <2> HIDE DEF v
  <2> QED BY <1>2, <1>3, ViewsChange
<1> QED
  BY <1>4 DEF Abstract!Closed

\* A change of the zone by p, or by others if p is Absent.
LEMMA PutChanges ==
    ASSUME IInv, NEW p \in Callers \union {Absent}, NEW k \in Keys, NEW c \in Holds,
           Put(k, c), UNCHANGED answer,
           landed' = landed \union ({p} \ {Absent}),
           p # Absent => IsOpen(p),
           \A q \in Callers : (IsAt(q, "idle"))' <=> IsAt(q, "idle"),
           \A q \in Callers : IsOpen(q) => call'[q].request = call[q].request
    PROVE  Abstract!Change(p, k, c)
<1>1. \A q \in Callers : held'[q] = IF IsOpen(q) THEN [held[q] EXCEPT ![k] = @ \union {c}]
                                                 ELSE held[q]
  BY DEF Put, IsOpen, IsAt
<1>2. ASSUME NEW q \in Callers
      PROVE  View(q)' = IF Abstract!IsOpen(q)
                        THEN [Views[q] EXCEPT !.held  = [Views[q].held EXCEPT ![k] = @ \union {c}],
                                              !.stage = IF q = p THEN "done" ELSE @]
                        ELSE Views[q]
  <2>1. Views[q] = View(q) /\ (Abstract!IsOpen(q) <=> IsOpen(q)) /\ q # Absent
    BY ViewOpen, ServiceAssumption DEF Views
  <2>2. q \in landed' <=> q \in landed \/ q = p
    BY <2>1
  <2>3. CASE ~ IsOpen(q)
    <3>1. IsAt(q, "idle") /\ (IsAt(q, "idle"))' /\ held'[q] = held[q]
      BY <1>1, <2>3 DEF IsOpen
    <3> QED
      BY <2>1, <2>3, <3>1 DEF View
  <2>4. CASE IsOpen(q)
    <3>1. /\ ~ IsAt(q, "idle") /\ ~ (IsAt(q, "idle"))'
          /\ held'[q] = [held[q] EXCEPT ![k] = @ \union {c}]
          /\ call'[q].request = call[q].request
      BY <1>1, <2>4 DEF IsOpen
    <3>2. Views[q] = [stage   |-> IF q \in landed THEN "done" ELSE "open",
                      request |-> AsRequest[call[q].request],
                      answer  |-> answer[q].status,
                      shows   |-> answer[q].records,
                      held    |-> held[q]]
      BY <2>1, <3>1 DEF View
    <3>3. View(q)' = [stage   |-> IF q \in landed \/ q = p THEN "done" ELSE "open",
                      request |-> AsRequest[call[q].request],
                      answer  |-> answer[q].status,
                      shows   |-> answer[q].records,
                      held    |-> [held[q] EXCEPT ![k] = @ \union {c}]]
      BY <2>2, <3>1 DEF View
    <3> DEFINE grown == [held[q] EXCEPT ![k] = @ \union {c}]
               stage == IF q \in landed THEN "done" ELSE "open"
               later == IF q = p THEN "done" ELSE stage
    <3>4. Views[q].held = held[q] /\ Views[q].stage = stage
      BY <3>2
    <3>5. [Views[q] EXCEPT !.held = grown, !.stage = later] =
             [stage |-> later, request |-> AsRequest[call[q].request],
              answer |-> answer[q].status, shows |-> answer[q].records, held |-> grown]
      <4> HIDE DEF grown, later, stage
      <4>1. Views[q] = [stage |-> stage, request |-> AsRequest[call[q].request],
                        answer |-> answer[q].status, shows |-> answer[q].records,
                        held |-> held[q]]
        BY <3>2 DEF stage
      <4> DEFINE u == [stage |-> stage, request |-> AsRequest[call[q].request],
                       answer |-> answer[q].status, shows |-> answer[q].records,
                       held |-> grown]
      <4>2. [Views[q] EXCEPT !.held = grown] = u
        BY <4>1
      <4>3. [u EXCEPT !.stage = later] =
               [stage |-> later, request |-> AsRequest[call[q].request],
                answer |-> answer[q].status, shows |-> answer[q].records, held |-> grown]
        OBVIOUS
      <4> HIDE DEF u
      <4>4. [Views[q] EXCEPT !.held = grown, !.stage = later] = [u EXCEPT !.stage = later]
        BY <4>2
      <4> QED
        BY <4>3, <4>4
    <3>6. later = IF q \in landed \/ q = p THEN "done" ELSE "open"
      OBVIOUS
    <3> HIDE DEF stage
    <3>7. View(q)' = [Views[q] EXCEPT !.held = grown, !.stage = later]
      BY <3>3, <3>5, <3>6
    <3> QED
      BY <2>1, <2>4, <3>4, <3>7
  <2> QED
    BY <2>3, <2>4
<1>3. Views' = [q \in Callers |-> View(q)']
  BY DEF Views
<1>4. zone' = [zone EXCEPT ![k] = c]
  BY DEF Put
<1> QED
  BY <1>2, <1>3, <1>4 DEF Abstract!Change

LEMMA InitAbstract == Init => Abstract!Init
<1> SUFFICES ASSUME Init PROVE Abstract!Init
  OBVIOUS
<1>1. \A p \in Callers :
         View(p) = [stage |-> "closed", request |-> Absent, answer |-> "none",
                    shows |-> {}, held |-> [k \in Keys |-> {}]]
  BY DEF Init, View, IsAt, Idle, Returned, Nothing
<1>2. Views \in [Callers -> [stage : {"closed"}, request : {Absent}, answer : {"none"},
                             shows : {{}}, held : {[k \in Keys |-> {}]}]]
  BY <1>1 DEF Views
<1>3. zone \in [Keys -> Abstract!Holds]
  BY ServiceAssumption DEF Init, Abstract!Holds
<1> QED
  BY <1>2, <1>3 DEF Abstract!Init

LEMMA BeginAbstract ==
    ASSUME IInv, NEW p \in Callers, NEW request \in Requests[p], Begin(p, request)
    PROVE  Abstract!Next
<1> DEFINE v == [stage |-> "open", request |-> AsRequest[request], answer |-> "none",
                 shows |-> {}, held |-> [k \in Keys |-> {zone[k]}]]
<1>1. /\ call' = [call EXCEPT ![p] = Open("zone", request)]
      /\ answer' = [answer EXCEPT ![p] = Returned("none", "none", {})]
      /\ held' = [held EXCEPT ![p] = [k \in Keys |-> {zone[k]}]]
      /\ zone' = zone /\ landed' = landed /\ ~ IsOpen(p)
  BY DEF Begin, IsOpen
<1>2. p \notin landed
  BY <1>1 DEF IInv
<1>3. \A q \in Callers \ {p} : View(q)' = View(q)
  BY <1>1, ViewKept DEF IInv, Typed
<1>4. View(p)' = v
  <2>1. /\ call'[p] = Open("zone", request)
        /\ answer'[p] = Returned("none", "none", {})
        /\ held'[p] = [k \in Keys |-> {zone[k]}]
    BY <1>1 DEF IInv, Typed
  <2>2. ~ (IsAt(p, "idle"))' /\ call'[p].request = request
    BY <2>1 DEF IsAt, Open
  <2>3. View(p)' = [stage |-> "open", request |-> AsRequest[request],
                    answer |-> answer'[p].status, shows |-> answer'[p].records,
                    held |-> held'[p]]
    BY <1>1, <1>2, <2>2 DEF View
  <2> QED
    BY <2>1, <2>3 DEF Returned
<1>5. Views' = [Views EXCEPT ![p] = v]
  <2> HIDE DEF v
  <2> QED BY <1>3, <1>4, ViewsChange
<1>6. Abstract!Begin(p, AsRequest[request])
  BY <1>1, <1>5, ViewOpen DEF Abstract!Begin
<1>7. AsRequest[request] \in AsRequests[p]
  BY DEF AsRequests
<1> QED
  BY <1>6, <1>7 DEF Abstract!Next

\* An answer "error" is always allowed.
LEMMA ErrsAbstract ==
    ASSUME IInv, NEW p \in Callers, IsOpen(p), Return(p, "error", {}), UNCHANGED zone
    PROVE  Abstract!Next
<1>1. Abstract!Errs(p)
  BY ReturnCloses, ViewOpen DEF Abstract!Errs
<1> QED
  BY <1>1 DEF Abstract!Next

\* An answer "ok" to a delete is allowed once the key has been absent.
LEMMA DeletedAbstract ==
    ASSUME IInv, NEW p \in Callers, IsOpen(p), call[p].request.op = "delete",
           Absent \in held[p][Target(p)], Return(p, "ok", {}), UNCHANGED zone
    PROVE  Abstract!Next
<1>1. Views[p].request.op = "delete" /\ Absent \in Views[p].held[Views[p].request.key]
  BY ViewOpen DEF Target
<1>2. Abstract!Writes(p)
  BY <1>1, ReturnCloses, ViewOpen DEF Abstract!Writes
<1> QED
  BY <1>2 DEF Abstract!Next

LEMMA SucceedsAbstract ==
    ASSUME IInv, NEW p \in Callers, Succeeds(p)
    PROVE  Abstract!Next
<1>1. IsOpen(p) /\ call[p].pc = "landed" /\ Return(p, "ok", {}) /\ UNCHANGED zone
  BY DEF Succeeds, IsOpen, IsAt
<1>2. StageOK(call[p]) /\ LandedOK(p, call[p])
  BY DEF IInv, CallOK
<1>3. CASE call[p].request.op = "upsert"
  <2>1. Views[p].request.op = "upsert" /\ Views[p].stage = "done"
    BY <1>1, <1>2, <1>3, ViewOpen DEF LandedOK
  <2>2. Abstract!Writes(p)
    BY <1>1, <2>1, ReturnCloses, ViewOpen DEF Abstract!Writes
  <2> QED
    BY <2>2 DEF Abstract!Next
<1>4. CASE call[p].request.op = "delete"
  BY <1>1, <1>2, <1>4, DeletedAbstract DEF LandedOK, Target
<1> QED
  BY <1>1, <1>2, <1>3, <1>4 DEF StageOK

LEMMA RefusedAbstract ==
    ASSUME IInv, NEW p \in Callers, Refused(p)
    PROVE  Abstract!Next
<1>1. IsOpen(p) /\ call[p].pc = "remove" /\ UNCHANGED zone
  BY DEF Refused, IsOpen, IsAt
<1>2. call[p].request.op = "delete" /\ call[p].request \in Requests[p]
  BY <1>1, OpenCall DEF IInv, CallOK, StageOK
<1>3. CASE Return(p, "error", {})
  BY <1>1, <1>3, ErrsAbstract
<1>4. CASE Return(p, "ok", {}) /\ zone[Target(p)] = Absent
  <2>1. Target(p) \in Keys
    BY <1>2, RequestFacts DEF Target
  <2>2. Absent \in held[p][Target(p)]
    BY <1>1, <1>4, <2>1 DEF IInv, HeldOK
  <2> QED
    BY <1>1, <1>2, <1>4, <2>2, DeletedAbstract
<1> QED
  BY <1>3, <1>4 DEF Refused, RefusalMeans

\* If the listing from a key does not begin with it, the key is absent.
LEMMA StartsElsewhere ==
    ASSUME NEW k \in Keys, ~ (StartingAt(k) # {} /\ First(StartingAt(k)) = k)
    PROVE  zone[k] = Absent
<1> SUFFICES ASSUME zone[k] # Absent PROVE FALSE
  OBVIOUS
<1> DEFINE ahead == StartingAt(k)
<1>1. k \in Nat /\ k >= k
  BY KeysFacts
<1>2. k \in ahead /\ ahead \subseteq Keys /\ \A j \in ahead : j >= k
  BY <1>1 DEF StartingAt
<1> HIDE DEF ahead
<1>3. First(ahead) \in ahead /\ First(ahead) <= k
  BY <1>2, FirstIsLeast
<1>4. First(ahead) \in Nat /\ First(ahead) >= k
  BY <1>2, <1>3, KeysFacts
<1>5. First(ahead) = k
  BY <1>1, <1>3, <1>4
<1> QED
  BY <1>2, <1>5 DEF ahead

LEMMA FetchAbstract ==
    ASSUME IInv, NEW p \in Callers, Fetch(p)
    PROVE  Abstract!Next \/ UNCHANGED Abstract!vars
<1> DEFINE ahead == StartingAt(Target(p))
           c     == [call[p] EXCEPT !.pc = "remove", !.found = zone[Target(p)]]
<1>1. IsOpen(p) /\ call[p].pc = "fetch" /\ UNCHANGED zone
  BY DEF Fetch, IsOpen, IsAt
<1>2. /\ call[p].request.op = "delete" /\ call[p].request \in Requests[p]
      /\ call[p] \in OpenCalls
  BY <1>1, OpenCall DEF IInv, CallOK, StageOK
<1>3. Target(p) \in Keys
  BY <1>2, RequestFacts DEF Target
<1>4. CASE ahead # {} /\ First(ahead) = Target(p)
  <2>1. /\ call' = [call EXCEPT ![p].pc = "remove", ![p].found = zone[Target(p)]]
        /\ UNCHANGED <<answer, held, landed>>
    BY <1>4 DEF Fetch
  <2>2. zone[Target(p)] \in Holds
    BY <1>3 DEF IInv, Typed
  <2>3. c \in OpenCalls /\ c.request = call[p].request
    BY <1>2, <2>2 DEF OpenCalls
  <2>4. call' = [call EXCEPT ![p] = c]
    BY <2>1 DEF IInv, Typed
  <2> HIDE DEF c
  <2> QED
    BY <1>1, <2>1, <2>3, <2>4, AdvanceStutters
<1>5. CASE ~ (ahead # {} /\ First(ahead) = Target(p))
  <2>1. Return(p, "ok", {})
    BY <1>5 DEF Fetch
  <2>2. zone[Target(p)] = Absent
    BY <1>3, <1>5, StartsElsewhere
  <2>3. Absent \in held[p][Target(p)]
    BY <1>1, <1>3, <2>2 DEF IInv, HeldOK
  <2> QED
    BY <1>1, <1>2, <2>1, <2>3, DeletedAbstract
<1> QED
  BY <1>4, <1>5

LEMMA ListPageAbstract ==
    ASSUME IInv, NEW p \in Callers, ListPage(p)
    PROVE  Abstract!Next \/ UNCHANGED Abstract!vars
<1> DEFINE ahead   == StartingAt(call[p].cursor)
           page    == Least(ahead, PageSize)
           records == call[p].listed \union Decoded(page)
           next    == NextCursor(ahead \ page)
           c       == [call[p] EXCEPT !.listed = records, !.cursor = next]
<1>1. /\ IsAt(p, "page") /\ IsOpen(p) /\ UNCHANGED zone /\ records \subseteq Answers
      /\ call[p] \in OpenCalls /\ call[p].request.op = "list"
  <2>1. IsAt(p, "page") /\ IsOpen(p) /\ UNCHANGED zone
    BY DEF ListPage, IsOpen, IsAt
  <2> QED
    BY <2>1, PageFacts, OpenCall DEF IInv, CallOK, StageOK, IsAt
<1>2. CASE page = ahead /\ Return(p, "ok", records)
  <2> HIDE DEF records
  <2>1. PICK pick \in [Keys -> Holds] :
           /\ \A k \in Keys : pick[k] \in held[p][k]
           /\ records = {Shown[k][pick[k]] : k \in Keys} \ {Absent}
    BY <1>1, <1>2, PageFacts DEF records
  <2>2. pick \in Abstract!Picks(held[p])
    BY <2>1 DEF Abstract!Picks
  <2>3. Abstract!Closed(p, "ok", records)
    BY <1>1, <1>2, ReturnCloses
  <2>4. Abstract!Closed(p, "ok", {Shown[k][pick[k]] : k \in Keys} \ {Absent})
    BY <2>1, <2>3, Zenon
  <2>5. /\ pick \in Abstract!Picks(Views[p].held) /\ Abstract!IsOpen(p)
        /\ Views[p].request.op = "list"
    BY <1>1, <2>2, ViewOpen
  <2>6. \E choice \in Abstract!Picks(Views[p].held) :
           Abstract!Closed(p, "ok", {Shown[k][choice[k]] : k \in Keys} \ {Absent})
    BY <2>4, <2>5, Zenon
  <2>7. Abstract!Lists(p)
    BY <1>1, <2>5, <2>6, Zenon DEF Abstract!Lists
  <2> QED
    BY <2>7 DEF Abstract!Next
<1>3. CASE /\ page # ahead
           /\ call' = [call EXCEPT ![p].listed = records, ![p].cursor = next]
           /\ UNCHANGED <<answer, held, landed>>
  <2>1. next \in Keys
    BY <1>1, <1>3, PageFacts
  <2> HIDE DEF records, next
  <2>2. c \in OpenCalls /\ c.request = call[p].request
    BY <1>1, <2>1 DEF OpenCalls
  <2>3. call' = [call EXCEPT ![p] = c]
    BY <1>3 DEF IInv, Typed
  <2> HIDE DEF c
  <2> QED
    BY <1>1, <1>3, <2>2, <2>3, AdvanceStutters
<1> QED
  BY <1>2, <1>3 DEF ListPage

LEMMA LandAbstract ==
    ASSUME IInv, NEW p \in Callers, Upsert(p) \/ Remove(p)
    PROVE  Abstract!Next
<1> DEFINE c == [call[p] EXCEPT !.pc = "landed", !.sends = @ - 1]
<1>1. /\ IsOpen(p) /\ landed' = landed \union {p} /\ UNCHANGED answer
      /\ call' = [call EXCEPT ![p] = c]
  BY DEF Upsert, Remove, IsOpen, IsAt
<1>2. call[p] \in OpenCalls /\ call[p].request \in Requests[p]
  BY <1>1, OpenCall DEF IInv
<1>3. c.pc = "landed" /\ c.request = call[p].request
  BY <1>2 DEF OpenCalls
<1>4. call'[p] = c /\ \A q \in Callers \ {p} : call'[q] = call[q]
  BY <1>1 DEF IInv, Typed
<1> HIDE DEF c
<1>5. /\ \A q \in Callers : (IsAt(q, "idle"))' <=> IsAt(q, "idle")
      /\ \A q \in Callers : IsOpen(q) => call'[q].request = call[q].request
  BY <1>1, <1>3, <1>4 DEF IsOpen, IsAt
<1>6. landed' = landed \union ({p} \ {Absent})
  BY <1>1, ServiceAssumption
<1>7. ASSUME NEW content \in Holds, Put(Target(p), content), Target(p) \in Keys
      PROVE  Abstract!Change(p, Target(p), content)
  BY <1>1, <1>5, <1>6, <1>7, PutChanges
<1>8. /\ Abstract!IsOpen(p) /\ Views[p].request = AsRequest[call[p].request]
      /\ Views[p].request.op = call[p].request.op
  BY <1>1, ViewOpen
<1>9. CASE Upsert(p)
  <2>1. call[p].request.op = "upsert"
    BY <1>9 DEF Upsert, IsAt, IInv, CallOK, StageOK
  <2>2. /\ Target(p) \in Keys /\ Target(p) = Views[p].request.key
        /\ Views[p].request.contents \subseteq Holds
    BY <1>2, <1>8, <2>1, RequestFacts DEF Target, Holds
  <2>3. PICK content \in Views[p].request.contents : Put(Target(p), content)
    BY <1>8, <1>9 DEF Upsert
  <2>4. Abstract!Change(p, Views[p].request.key, content)
    BY <1>7, <2>2, <2>3
  <2>5. Abstract!TakesEffect(p)
    BY <1>8, <2>1, <2>4 DEF Abstract!TakesEffect
  <2> QED
    BY <2>5 DEF Abstract!Next
<1>10. CASE Remove(p)
  <2>1. call[p].request.op = "delete"
    BY <1>10 DEF Remove, IsAt, IInv, CallOK, StageOK
  <2>2. Target(p) \in Keys /\ Target(p) = Views[p].request.key
    BY <1>2, <1>8, <2>1, RequestFacts DEF Target
  <2>3. Abstract!Change(p, Views[p].request.key, Absent)
    BY <1>7, <1>10, <2>2 DEF Remove, Holds
  <2>4. Abstract!TakesEffect(p)
    BY <1>8, <2>1, <2>3 DEF Abstract!TakesEffect
  <2> QED
    BY <2>4 DEF Abstract!Next
<1> QED
  BY <1>9, <1>10

LEMMA ResendAbstract ==
    ASSUME IInv, NEW p \in Callers, ZoneFqdn(p) \/ Resend(p)
    PROVE  UNCHANGED Abstract!vars
<1> DEFINE next == IF ZoneFqdn(p) THEN FirstRequest(call[p].request.op)
                   ELSE IF call[p].request.op = "upsert" THEN "change" ELSE "remove"
           c    == [call[p] EXCEPT !.pc = next]
<1>1. IsOpen(p) /\ UNCHANGED <<zone, answer, held, landed>>
  BY DEF ZoneFqdn, Resend, IsOpen, IsAt
<1>2. call[p] \in OpenCalls /\ call[p].request.op \in {"list", "upsert", "delete"}
  BY <1>1, OpenCall, RequestFacts DEF IInv
<1>3. next \in {"page", "change", "fetch", "remove"}
  BY <1>2 DEF FirstRequest
<1>4. call' = [call EXCEPT ![p] = c]
  BY DEF ZoneFqdn, Resend, IsAt, IInv, Typed
<1> HIDE DEF next
<1>5. c \in OpenCalls /\ c.request = call[p].request
  BY <1>2, <1>3 DEF OpenCalls
<1> HIDE DEF c
<1> QED
  BY <1>1, <1>4, <1>5, AdvanceStutters

LEMMA OthersAbstract ==
    ASSUME IInv, NEW k \in Keys, NEW c \in Holds, Others(k, c)
    PROVE  Abstract!Next
<1>1. Put(k, c) /\ UNCHANGED <<call, answer, landed>>
  BY DEF Others
<1>2. \A q \in Callers : (IsAt(q, "idle"))' <=> IsAt(q, "idle")
  BY <1>1 DEF IsAt
<1>3. landed' = landed \union ({Absent} \ {Absent}) /\ UNCHANGED answer
  BY <1>1
<1>4. \A q \in Callers : IsOpen(q) => call'[q].request = call[q].request
  BY <1>1
<1>5. Absent \in Callers \union {Absent}
  OBVIOUS
<1>6. Abstract!Change(Absent, k, c)
  BY <1>1, <1>2, <1>3, <1>4, <1>5, PutChanges
<1> QED
  BY <1>6 DEF Abstract!Others, Abstract!Next, Abstract!Holds, Holds

\* Every step of the adapter, the service and others is one that the worker
\* expects, or one it cannot see.
LEMMA StepAbstract ==
    ASSUME IInv, [Next]_vars
    PROVE  Abstract!Next \/ UNCHANGED Abstract!vars
<1>1. ASSUME NEW p \in Callers, Fails(p) \/ AnswerLost(p) PROVE Abstract!Next
  BY <1>1, ErrsAbstract DEF Fails, AnswerLost, IsOpen, IsAt
<1>2. ASSUME NEW p \in Callers, Step(p) PROVE Abstract!Next \/ UNCHANGED Abstract!vars
  BY <1>1, <1>2, ResendAbstract, ListPageAbstract, FetchAbstract, LandAbstract,
     RefusedAbstract, SucceedsAbstract DEF Step, Proceeds
<1>3. ASSUME NEW k \in Keys, NEW c \in OthersPut[k] \union {Absent}, Others(k, c)
      PROVE  Abstract!Next
  <2>1. c \in Holds
    BY DEF Holds, Contents
  <2> QED
    BY <1>3, <2>1, OthersAbstract
<1>4. CASE UNCHANGED vars
  <2>1. \A q \in Callers : View(q)' = View(q)
    BY <1>4, ViewKept DEF vars
  <2> QED
    BY <1>4, <2>1 DEF vars, Views, Abstract!vars
<1> QED
  BY <1>2, <1>3, <1>4, BeginAbstract DEF Next

\* Every call takes effect at once, between its start and its answer, and a
\* listing shows for each key a content it had during the listing, wherever
\* the page borders fall.
THEOREM AdapterImplements == Spec => ImplementsCalls
<1>1. IInv /\ [Next]_vars => [Abstract!Next]_(Abstract!vars)
  BY StepAbstract
<1> QED
  BY InitAbstract, AdapterInductive, <1>1, PTL DEF Spec, ImplementsCalls, Abstract!Spec

-----------------------------------------------------------------------------
(* What a listing shows.  SInv adds to IInv what has been returned.        *)

\* A content as Route53 keeps it under a key of type TXT.
InQuotes(c) == c \in {Alias, Absent} \/ AllQuoted(c)

\* So it is in the zone and in every history.
QuotedOK ==
    \A k \in Keys : KeyType[k] = "TXT" =>
        /\ InQuotes(zone[k])
        /\ \A p \in Callers : \A c \in held[p][k] : InQuotes(c)

\* A listing has returned, of each key, a content the key held meanwhile.
ShownOK(p) ==
    Listed(p) =>
        \E pick \in [Keys -> Holds] :
            /\ \A k \in Keys : pick[k] \in held[p][k]
            /\ answer[p].records = {Shown[k][pick[k]] : k \in Keys} \ {Absent}

\* The inductive invariant of the listings.
SInv == IInv /\ QuotedOK /\ \A p \in Callers : ShownOK(p)

-----------------------------------------------------------------------------
\* The records the program sends.
LEMMA SentFacts ==
    ASSUME NEW p \in Callers, NEW q \in Requests[p], q.op = "upsert"
    PROVE  /\ q.record \in Records /\ q.record.name # << >>
           /\ KeyOf(q.record) \in Keys /\ KeyType[KeyOf(q.record)] = q.record.type
           /\ FqdnsEqual(KeyName[KeyOf(q.record)], ToFqdn(q.record.name, ZoneName))
           /\ Encode(q.record) \subseteq Contents
<1>1. \E k \in Keys : /\ FqdnsEqual(KeyName[k], ToFqdn(q.record.name, ZoneName))
                      /\ KeyType[k] = q.record.type
  BY RequestsAssumption
<1> QED
  BY <1>1, RequestFacts, ContentsAssumption DEF KeyOf

\* What the service holds once a record is written.
LEMMA EncodeFacts ==
    ASSUME NEW r \in Records, NEW c \in Encode(r)
    PROVE  /\ c \in RecordSets /\ c.ttl = r.ttl /\ DOMAIN c.values = DOMAIN r.values
           /\ r.type = "TXT" => AllQuoted(c)
           /\ \E order \in Bijection(DOMAIN r.values, DOMAIN r.values) :
                 \A i \in DOMAIN r.values :
                    c.values[i] = WireValue(r.type, r.values[order[i]])
<1>1. PICK order \in Bijection(DOMAIN r.values, DOMAIN r.values) :
         c = [ttl |-> r.ttl, values |-> [i \in DOMAIN r.values |->
                                           WireValue(r.type, r.values[order[i]])]]
  BY DEF Encode
<1>2. order \in [DOMAIN r.values -> DOMAIN r.values]
  BY Fun_BijectionProperties
<1>3. r.ttl \in Nat /\ r.values \in Seq(Values)
  BY DEF Records
<1>4. \A i \in DOMAIN r.values : r.values[order[i]] \in Values
  BY <1>2, <1>3
<1>5. \A i \in DOMAIN r.values : WireValue(r.type, r.values[order[i]]) \in Values
  BY <1>4, ValueTypes
<1>6. c.values \in Seq(Values)
  <2>1. DOMAIN r.values = 1 .. Len(r.values) /\ Len(r.values) \in Nat
    BY <1>3
  <2>2. c.values = [i \in 1 .. Len(r.values) |-> WireValue(r.type, r.values[order[i]])]
    BY <1>1, <2>1
  <2>3. \A i \in 1 .. Len(r.values) : WireValue(r.type, r.values[order[i]]) \in Values
    BY <1>5, <2>1
  <2>4. c.values \in [1 .. Len(r.values) -> Values]
    BY <2>2, <2>3
  <2> QED
    BY <2>1, <2>4
<1>7. r.type = "TXT" => AllQuoted(c)
  <2> SUFFICES ASSUME r.type = "TXT", NEW i \in DOMAIN r.values
               PROVE  Quoted(c.values[i].text)
    BY <1>1 DEF AllQuoted
  <2>1. r.values[order[i]] \in Values /\ r.values[order[i]].text \in Texts
    BY <1>4 DEF Values
  <2>2. c.values[i].text = AddTxtQuotes(r.values[order[i]].text)
    BY <1>1, <2>1 DEF WireValue, Values
  <2> QED
    BY <2>1, <2>2, AddedQuotes
<1>8. c \in RecordSets
  BY <1>1, <1>3, <1>6 DEF RecordSets
<1> QED
  BY <1>1, <1>7, <1>8

LEMMA ContentFacts ==
    ASSUME NEW c \in Contents, c # Alias
    PROVE  c \in RecordSets
<1>1. CASE \E k \in Keys : c \in OthersPut[k]
  BY <1>1, ContentsAssumption
<1>2. CASE \E p \in Callers : c \in Written(p)
  <2>1. PICK p \in Callers : c \in Written(p)
    BY <1>2
  <2>2. PICK q \in Requests[p] : q.op = "upsert" /\ c \in Encode(q.record)
    BY <2>1 DEF Written
  <2> QED
    BY <2>2, SentFacts, EncodeFacts
<1> QED
  BY <1>1, <1>2 DEF Contents

\* What is shown of a key.
LEMMA EntryFacts ==
    ASSUME NEW k \in Keys, NEW c \in Holds, Shown[k][c] # Absent
    PROVE  /\ c \in RecordSets /\ c \in Contents \ {Alias} /\ KeyType[k] \in SupportedTypes
           /\ Shown[k][c] = [name |-> ToRelativeName(KeyName[k], ZoneName),
                             type |-> KeyType[k], ttl |-> c.ttl,
                             values |-> [i \in DOMAIN c.values |->
                                            ListedValue(KeyType[k], c.values[i])]]
<1>1. Shown[k][c] = Decode(k, c)
  <2>1. Shown[k] = [x \in Contents \union {Absent} |-> Decode(k, x)]
    BY DEF Shown
  <2> QED
    BY <2>1 DEF Holds
<1>2. KeyType[k] \in SupportedTypes /\ c \notin {Alias, Absent}
  BY <1>1 DEF Decode
<1>3. c \in Contents \ {Alias} /\ c \in RecordSets
  BY <1>2, ContentFacts DEF Holds
<1> QED
  BY <1>1, <1>2, <1>3 DEF Decode

\* An entry with the key of a record is what is shown of the key of the
\* service that the record belongs to.
LEMMA EntryKey ==
    ASSUME NEW p \in Callers, NEW q \in Requests[p], q.op = "upsert",
           NEW k \in Keys, NEW c \in Holds, Shown[k][c] # Absent,
           RecordKey(Shown[k][c]) = RecordKey(q.record)
    PROVE  k = KeyOf(q.record)
<1> DEFINE r == q.record
<1>1. ToRelativeName(KeyName[k], ZoneName) = r.name /\ KeyType[k] = r.type
  <2> DEFINE e == Shown[k][c]
  <2>1. e.name = ToRelativeName(KeyName[k], ZoneName) /\ e.type = KeyType[k]
    <3>1. e = [name |-> ToRelativeName(KeyName[k], ZoneName), type |-> KeyType[k],
               ttl |-> c.ttl,
               values |-> [i \in DOMAIN c.values |-> ListedValue(KeyType[k], c.values[i])]]
      BY EntryFacts, Zenon
    <3> HIDE DEF e
    <3> QED
      BY <3>1
  <2> HIDE DEF e
  <2>2. [name |-> e.name, type |-> e.type] = [name |-> r.name, type |-> r.type]
    BY DEF RecordKey, e
  <2>3. e.name = r.name /\ e.type = r.type
    BY <2>2
  <2> QED
    BY <2>1, <2>3
<1>2. KeyName[k] \in Texts /\ ZoneName \in Texts /\ ZoneName # << >>
  BY ServiceAssumption, NamesAssumption DEF Keys, Texts
<1>3. Lowercase(StripDot(KeyName[k])) # Lowercase(StripDot(ZoneName)) =>
         /\ Below(Lowercase(StripDot(KeyName[k])), Lowercase(StripDot(ZoneName)))
         /\ Lowercase(StripDot(KeyName[k])) # <<At>> \o Lowercase(StripDot(ZoneName))
  BY NamesAssumption
<1>4. FqdnsEqual(KeyName[k], ToFqdn(r.name, ZoneName))
  BY <1>1, <1>2, <1>3, ListedNameIsSent
<1>5. /\ KeyOf(r) \in Keys /\ KeyType[KeyOf(r)] = r.type
      /\ FqdnsEqual(KeyName[KeyOf(r)], ToFqdn(r.name, ZoneName))
  BY SentFacts
<1>6. FqdnsEqual(KeyName[k], KeyName[KeyOf(r)])
  BY <1>4, <1>5 DEF FqdnsEqual
<1> QED
  BY <1>1, <1>5, <1>6, ServiceAssumption

-----------------------------------------------------------------------------
LEMMA ListedEntry ==
    ASSUME SInv, NEW p \in Callers, Listed(p)
    PROVE  \E pick \in [Keys -> Holds] :
               /\ \A k \in Keys : pick[k] \in held[p][k]
               /\ answer[p].records = {Shown[k][pick[k]] : k \in Keys} \ {Absent}
BY DEF SInv, ShownOK

\* What is written is listed back.
LEMMA ReadsBackNow == SInv => ReadsBack
<1> SUFFICES ASSUME SInv, NEW p \in Callers, NEW r \in Sent, Listed(p), Faithful(r),
                    held[p][KeyOf(r)] # {}, held[p][KeyOf(r)] \subseteq Encode(r)
             PROVE  LET mine == {e \in answer[p].records : RecordKey(e) = RecordKey(r)}
                    IN  Cardinality(mine) = 1 /\ \A e \in mine : ~ Diff(e, r)
  BY DEF ReadsBack
<1> DEFINE mine == {e \in answer[p].records : RecordKey(e) = RecordKey(r)}
           K    == KeyOf(r)
<1>1. PICK o \in Callers, q \in AllRequests :
         q \in Requests[o] /\ q.op = "upsert" /\ q.record = r
  BY DEF Sent, AllRequests
<1>2. /\ r \in Records /\ r.name # << >> /\ K \in Keys /\ KeyType[K] = r.type
      /\ FqdnsEqual(KeyName[K], ToFqdn(r.name, ZoneName)) /\ Encode(r) \subseteq Contents
  BY <1>1, SentFacts
<1>3. PICK pick \in [Keys -> Holds] :
         /\ \A k \in Keys : pick[k] \in held[p][k]
         /\ answer[p].records = {Shown[k][pick[k]] : k \in Keys} \ {Absent}
  BY ListedEntry
<1> DEFINE c == pick[K]
           e == Shown[K][c]
<1>4. c \in Holds /\ c \in Encode(r)
  BY <1>2, <1>3
<1>5. PICK order \in Bijection(DOMAIN r.values, DOMAIN r.values) :
         \A i \in DOMAIN r.values : c.values[i] = WireValue(r.type, r.values[order[i]])
  BY <1>2, <1>4, EncodeFacts
<1>6. c \in RecordSets /\ c.ttl = r.ttl /\ DOMAIN c.values = DOMAIN r.values
  BY <1>2, <1>4, EncodeFacts
<1>7. order \in [DOMAIN r.values -> DOMAIN r.values]
  BY Fun_BijectionProperties
<1>8. ToRelativeName(KeyName[K], ZoneName) = r.name
  <2>1. r.name \in Texts /\ ZoneName \in Texts /\ ZoneName # << >>
    BY <1>2, NamesAssumption DEF Records
  <2>2. ToRelativeName(KeyName[K], ZoneName) = Lowercase(r.name)
    BY <1>2, <2>1, WrittenNameIsListed
  <2> QED
    BY <2>2 DEF Faithful
<1>9. /\ r.type \in SupportedTypes /\ r.values \in Seq(Values)
      /\ r.ttl \in Nat /\ r.name \in Texts
  BY <1>2 DEF Records
<1>10. \A i \in DOMAIN r.values :
          ListedValue(r.type, WireValue(r.type, r.values[order[i]])) = r.values[order[i]]
  <2> SUFFICES ASSUME NEW i \in DOMAIN r.values
               PROVE  ListedValue(r.type, WireValue(r.type, r.values[order[i]]))
                         = r.values[order[i]]
    OBVIOUS
  <2>1. order[i] \in DOMAIN r.values /\ r.values[order[i]] \in Values
    BY <1>7, <1>9
  <2>2. r.type = "TXT" => ~ Quoted(r.values[order[i]].text)
    BY <2>1 DEF Faithful
  <2> QED
    BY <2>1, <2>2, ValueReadsBack
<1> DEFINE back == [name |-> r.name, type |-> r.type, ttl |-> r.ttl,
                    values |-> [i \in DOMAIN r.values |-> r.values[order[i]]]]
<1>11. Decode(K, c) = back
  <2>1. c # Alias /\ c # Absent
    BY <1>2, <1>4, <1>6, ContentsAssumption, ServiceAssumption
  <2>2. Decode(K, c) = [name |-> r.name, type |-> r.type, ttl |-> c.ttl,
                        values |-> [i \in DOMAIN c.values |-> ListedValue(r.type, c.values[i])]]
    <3> HIDE DEF c, K
    <3> QED
      BY <1>2, <1>8, <1>9, <2>1 DEF Decode
  <2>3. [i \in DOMAIN c.values |-> ListedValue(r.type, c.values[i])]
           = [i \in DOMAIN r.values |-> r.values[order[i]]]
    BY <1>5, <1>6, <1>10
  <2> QED
    BY <1>6, <2>2, <2>3
<1>12. e = back
  <2>1. Shown[K] = [x \in Contents \union {Absent} |-> Decode(K, x)]
    BY <1>2 DEF Shown
  <2> QED
    BY <1>4, <1>11, <2>1 DEF Holds
<1>13. back \in Records
  <2>1. DOMAIN r.values = 1 .. Len(r.values) /\ Len(r.values) \in Nat
    BY <1>9
  <2>2. \A i \in 1 .. Len(r.values) : r.values[order[i]] \in Values
    BY <1>7, <1>9, <2>1
  <2>3. [i \in DOMAIN r.values |-> r.values[order[i]]] \in Seq(Values)
    <3>1. [i \in 1 .. Len(r.values) |-> r.values[order[i]]] \in [1 .. Len(r.values) -> Values]
      BY <2>2
    <3> QED
      BY <2>1, <3>1
  <2> QED
    BY <1>9, <2>3 DEF Records
<1>14. ~ Diff(e, r) /\ RecordKey(e) = RecordKey(r)
  <2>1. IsFiniteSet(DOMAIN r.values)
    <3>1. DOMAIN r.values = 1 .. Len(r.values) /\ Len(r.values) \in Nat
      BY <1>9
    <3> QED
      BY <3>1, FS_Interval
  <2>2. SameValues(r.type, back.values, r.values)
    <3>1. DOMAIN back.values = DOMAIN r.values
          /\ \A i \in DOMAIN r.values : Normalize(r.type, back.values[i])
                                            = Normalize(r.type, r.values[order[i]])
      OBVIOUS
    <3> HIDE DEF back
    <3> QED
      BY <2>1, <3>1, PermutedSame
  <2>3. back.type = r.type /\ back.ttl = r.ttl /\ RecordKey(back) = RecordKey(r)
    BY DEF RecordKey
  <2> QED
    BY <1>12, <2>2, <2>3 DEF Diff
<1>15. e \in mine
  <2>1. e # Absent
    BY <1>12, <1>13, ContentsAssumption
  <2> QED
    BY <1>2, <1>3, <1>14, <2>1
<1>16. ASSUME NEW f \in mine PROVE f = e
  <2>1. PICK k \in Keys : f = Shown[k][pick[k]] /\ f # Absent
    BY <1>3
  <2>2. k = K
    BY <1>1, <1>3, <2>1, EntryKey
  <2> QED
    BY <2>1, <2>2
<1> HIDE DEF mine, e
<1>17. mine = {e}
  BY <1>15, <1>16
<1> QED
  BY <1>14, <1>17, FS_Singleton DEF mine

-----------------------------------------------------------------------------
\* Values that are listed and desired alike are held as they would be sent,
\* unless a TXT value still has quotes when its quotes are stripped.
LEMMA RdataBack ==
    ASSUME NEW type, NEW u \in Values, NEW w \in Values,
           Normalize(type, ListedValue(type, u)) = Normalize(type, w),
           type = "TXT" => Quoted(u.text) /\ ~ Quoted(StripTxtQuotes(u.text))
    PROVE  SameRdata(type, u, WireValue(type, w))
<1>1. CASE type # "TXT"
  <2>1. ListedValue(type, u) = u /\ WireValue(type, w) = w
    BY <1>1 DEF ListedValue, WireValue
  <2> QED
    BY <1>1, <2>1, SameNormalized DEF SameRdata
<1>2. CASE type = "TXT"
  <2>1. ListedValue(type, u) = w
    BY <1>2, ValueTypes, SameNormalized
  <2>2. w.prio = u.prio /\ w.text = StripTxtQuotes(u.text)
    BY <1>2, <2>1 DEF ListedValue, Values
  <2>3. AddTxtQuotes(w.text) = u.text
    BY <1>2, <2>2, QuotesAdded DEF Values
  <2>4. WireValue(type, w) = [w EXCEPT !.text = u.text]
    BY <1>2, <2>3 DEF WireValue
  <2>5. [w EXCEPT !.text = u.text] = u
    BY <2>2 DEF Values
  <2> QED
    BY <1>2, <2>4, <2>5 DEF SameRdata
<1> QED
  BY <1>1, <1>2

\* No TXT value is quoted twice, as "" "" is: two empty strings.
QuotedOnce ==
    \A c \in Contents \ {Alias} : \A i \in DOMAIN c.values :
        ~ Quoted(StripTxtQuotes(c.values[i].text))

\* No difference is shown only for what was there.
LEMMA InSyncNow == QuotedOnce /\ SInv => InSyncWasTrue
<1> SUFFICES ASSUME QuotedOnce, SInv, NEW p \in Callers, NEW r \in Sent, Listed(p),
                    NEW e \in answer[p].records, ~ Diff(e, r)
             PROVE  \E c \in held[p][KeyOf(r)] : Means(c, r)
  BY DEF InSyncWasTrue
<1>1. PICK o \in Callers, q \in AllRequests :
         q \in Requests[o] /\ q.op = "upsert" /\ q.record = r
  BY DEF Sent, AllRequests
<1>2. r.type \in SupportedTypes /\ r.values \in Seq(Values)
  BY <1>1, SentFacts DEF Records
<1>3. PICK pick \in [Keys -> Holds] :
         /\ \A k \in Keys : pick[k] \in held[p][k]
         /\ answer[p].records = {Shown[k][pick[k]] : k \in Keys} \ {Absent}
  BY ListedEntry
<1>4. PICK k \in Keys : e = Shown[k][pick[k]] /\ e # Absent
  BY <1>3
<1>5. /\ RecordKey(e) = RecordKey(r) /\ e.ttl = r.ttl
      /\ SameValues(e.type, e.values, r.values)
  BY DEF Diff
<1>6. k = KeyOf(r)
  BY <1>1, <1>3, <1>4, <1>5, EntryKey
<1> DEFINE c == pick[k]
<1>7. c \in held[p][KeyOf(r)] /\ c \in Holds
  BY <1>3, <1>6
<1>8. /\ c \in RecordSets /\ c \in Contents \ {Alias}
      /\ e = [name |-> ToRelativeName(KeyName[k], ZoneName), type |-> KeyType[k],
              ttl |-> c.ttl,
              values |-> [i \in DOMAIN c.values |-> ListedValue(KeyType[k], c.values[i])]]
  BY <1>4, EntryFacts
<1>9. KeyType[k] = r.type
  BY <1>1, <1>6, SentFacts
<1> HIDE DEF c
<1>10. /\ e.type = r.type /\ c.ttl = r.ttl
       /\ e.values = [i \in DOMAIN c.values |-> ListedValue(r.type, c.values[i])]
  BY <1>5, <1>8, <1>9
<1>11. c.values \in Seq(Values)
  BY <1>8 DEF RecordSets
<1>12. e.values \in Seq(Values)
  <2>1. DOMAIN c.values = 1 .. Len(c.values) /\ Len(c.values) \in Nat
    BY <1>11
  <2>2. \A i \in 1 .. Len(c.values) : c.values[i] \in Values
    BY <1>11
  <2>3. \A i \in 1 .. Len(c.values) : ListedValue(r.type, c.values[i]) \in Values
    BY <2>2, ValueTypes
  <2>4. e.values \in [1 .. Len(c.values) -> Values]
    BY <1>10, <2>1, <2>3
  <2> QED
    BY <2>1, <2>4
<1>13. /\ DOMAIN e.values = DOMAIN r.values
       /\ \E order \in Bijection(DOMAIN r.values, DOMAIN r.values) : \A i \in DOMAIN r.values :
             Normalize(r.type, e.values[i]) = Normalize(r.type, r.values[order[i]])
  <2>1. SameValues(r.type, e.values, r.values)
    BY <1>5, <1>10
  <2> DEFINE s == e.values
             t == r.values
  <2>2. s \in Seq(Values) /\ t \in Seq(Values) /\ SameValues(r.type, s, t)
    BY <1>2, <1>12, <2>1
  <2> HIDE DEF s, t
  <2>3. /\ DOMAIN s = DOMAIN t
        /\ \E order \in Bijection(DOMAIN t, DOMAIN t) : \A i \in DOMAIN t :
              Normalize(r.type, s[i]) = Normalize(r.type, t[order[i]])
    BY <2>2, SameOrder
  <2> QED
    BY <2>3 DEF s, t
<1>14. PICK order \in Bijection(DOMAIN r.values, DOMAIN r.values) : \A i \in DOMAIN r.values :
          Normalize(r.type, e.values[i]) = Normalize(r.type, r.values[order[i]])
  BY <1>13
<1>15. order \in [DOMAIN r.values -> DOMAIN r.values]
  BY Fun_BijectionProperties
<1>16. DOMAIN c.values = DOMAIN r.values
  BY <1>10, <1>13
<1>17. ASSUME NEW i \in DOMAIN r.values
       PROVE  SameRdata(r.type, c.values[i], WireValue(r.type, r.values[order[i]]))
  <2>1. c.values[i] \in Values /\ r.values[order[i]] \in Values
    BY <1>2, <1>11, <1>15, <1>16
  <2>2. e.values[i] = ListedValue(r.type, c.values[i])
    BY <1>10, <1>16
  <2>3. ASSUME r.type = "TXT"
        PROVE  Quoted(c.values[i].text) /\ ~ Quoted(StripTxtQuotes(c.values[i].text))
    <3>1. InQuotes(c) /\ c # Absent
      BY <1>3, <1>6, <1>7, <1>8, <1>9, <2>3, ServiceAssumption DEF SInv, QuotedOK
    <3> QED
      BY <1>8, <1>16, <3>1 DEF InQuotes, AllQuoted, QuotedOnce
  <2> QED
    BY <1>14, <2>1, <2>2, <2>3, RdataBack
<1>18. c # Absent /\ c # Alias
  BY <1>8, ServiceAssumption
<1> QED
  BY <1>7, <1>10, <1>14, <1>16, <1>17, <1>18 DEF Means

-----------------------------------------------------------------------------
\* What has been returned is kept while the history only grows.
LEMMA ShownKept ==
    ASSUME NEW q \in Callers, answer'[q] = answer[q],
           \A k \in Keys : held[q][k] \subseteq held'[q][k], ShownOK(q)
    PROVE  ShownOK(q)'
<1> SUFFICES ASSUME Listed(q)
             PROVE  \E pick \in [Keys -> Holds] :
                       /\ \A k \in Keys : pick[k] \in held'[q][k]
                       /\ answer'[q].records = {Shown[k][pick[k]] : k \in Keys} \ {Absent}
  BY DEF ShownOK, Listed
<1>1. PICK pick \in [Keys -> Holds] :
         /\ \A k \in Keys : pick[k] \in held[q][k]
         /\ answer[q].records = {Shown[k][pick[k]] : k \in Keys} \ {Absent}
  BY DEF ShownOK
<1> QED
  BY <1>1

\* Nothing new in the histories but the present.
LEMMA QuotedKept ==
    ASSUME QuotedOK, zone' = zone,
           \A q \in Callers, k \in Keys : held'[q][k] \subseteq held[q][k] \union {zone[k]}
    PROVE  QuotedOK'
BY DEF QuotedOK, InQuotes, AllQuoted

\* A change of the zone only adds to the histories.
LEMMA PutShown ==
    ASSUME SInv, NEW k \in Keys, NEW c \in Holds, Put(k, c), UNCHANGED answer,
           KeyType[k] = "TXT" => InQuotes(c)
    PROVE  QuotedOK' /\ \A q \in Callers : ShownOK(q)'
<1>1. \A q \in Callers, j \in Keys : held[q][j] \subseteq held'[q][j]
  BY PutFacts DEF SInv
<1>2. \A q \in Callers : ShownOK(q)'
  BY <1>1, ShownKept DEF SInv
<1>3. /\ \A j \in Keys : zone'[j] = IF j = k THEN c ELSE zone[j]
      /\ \A q \in Callers : held'[q] = IF call[q].pc = "idle" THEN held[q]
                                       ELSE [held[q] EXCEPT ![k] = held[q][k] \union {c}]
  BY DEF Put, SInv, IInv, Typed
<1>4. ASSUME NEW q \in Callers, NEW j \in Keys
      PROVE  held'[q][j] \subseteq IF j = k THEN held[q][j] \union {c} ELSE held[q][j]
  <2>1. held[q] \in [Keys -> SUBSET Holds]
    BY DEF SInv, IInv, Typed
  <2> QED
    BY <1>3, <2>1
<1>5. QuotedOK'
  <2> SUFFICES ASSUME NEW j \in Keys, KeyType[j] = "TXT"
               PROVE  /\ InQuotes(zone'[j])
                      /\ \A q \in Callers : \A d \in held'[q][j] : InQuotes(d)
    BY DEF QuotedOK, InQuotes, AllQuoted
  <2>1. /\ InQuotes(zone[j])
        /\ \A q \in Callers : \A d \in held[q][j] : InQuotes(d)
    BY DEF SInv, QuotedOK
  <2>2. j = k => InQuotes(c)
    OBVIOUS
  <2> HIDE DEF InQuotes
  <2> QED
    BY <1>3, <1>4, <2>1, <2>2
<1> QED
  BY <1>2, <1>5

\* A call that returns shows a listing as it has been collected.
LEMMA ReturnShown ==
    ASSUME SInv, NEW p \in Callers, IsOpen(p), NEW status, NEW records,
           Return(p, status, records), UNCHANGED zone,
           status = "ok" /\ call[p].request.op = "list" =>
              \E pick \in [Keys -> Holds] :
                 /\ \A k \in Keys : pick[k] \in held[p][k]
                 /\ records = {Shown[k][pick[k]] : k \in Keys} \ {Absent}
    PROVE  QuotedOK' /\ \A q \in Callers : ShownOK(q)'
<1>1. /\ held' = [held EXCEPT ![p] = IF call[p].request.op = "list" THEN held[p] ELSE Nothing]
      /\ answer' = [answer EXCEPT ![p] = Returned(call[p].request.op, status, records)]
  BY DEF Return
<1>2. /\ \A q \in Callers \ {p} : held'[q] = held[q] /\ answer'[q] = answer[q]
      /\ held'[p] = IF call[p].request.op = "list" THEN held[p] ELSE Nothing
      /\ answer'[p] = Returned(call[p].request.op, status, records)
  BY <1>1 DEF SInv, IInv, Typed
<1>3. QuotedOK'
  <2>1. \A q \in Callers, k \in Keys : held'[q][k] \subseteq held[q][k]
    BY <1>2 DEF Nothing
  <2> QED
    BY <2>1, QuotedKept DEF SInv
<1>4. ASSUME NEW q \in Callers PROVE ShownOK(q)'
  <2>1. CASE q # p
    BY <1>2, <2>1, ShownKept DEF SInv
  <2>2. CASE q = p
    BY <1>2, <2>2 DEF ShownOK, Listed, Returned
  <2> QED
    BY <2>1, <2>2
<1> QED
  BY <1>3, <1>4

LEMMA BeginShown ==
    ASSUME SInv, NEW p \in Callers, NEW request \in Requests[p], Begin(p, request)
    PROVE  QuotedOK' /\ \A q \in Callers : ShownOK(q)'
<1>1. /\ zone' = zone /\ answer' = [answer EXCEPT ![p] = Returned("none", "none", {})]
      /\ held' = [held EXCEPT ![p] = [k \in Keys |-> {zone[k]}]]
  BY DEF Begin
<1>2. /\ \A q \in Callers \ {p} : held'[q] = held[q] /\ answer'[q] = answer[q]
      /\ held'[p] = [k \in Keys |-> {zone[k]}]
      /\ answer'[p] = Returned("none", "none", {})
  BY <1>1 DEF SInv, IInv, Typed
<1>3. \A q \in Callers, k \in Keys : held'[q][k] \subseteq held[q][k] \union {zone[k]}
  BY <1>2
<1>4. QuotedOK'
  BY <1>1, <1>3, QuotedKept DEF SInv
<1>5. ASSUME NEW q \in Callers PROVE ShownOK(q)'
  <2>1. CASE q # p
    BY <1>2, <2>1, ShownKept DEF SInv
  <2>2. CASE q = p
    BY <1>2, <2>2 DEF ShownOK, Listed, Returned
  <2> QED
    BY <2>1, <2>2
<1> QED
  BY <1>4, <1>5

LEMMA SameShown ==
    ASSUME SInv, UNCHANGED <<zone, answer, held>>
    PROVE  QuotedOK' /\ \A q \in Callers : ShownOK(q)'
<1>1. QuotedOK'
  BY QuotedKept DEF SInv
<1>2. \A q \in Callers : ShownOK(q)'
  BY ShownKept DEF SInv
<1> QED
  BY <1>1, <1>2

LEMMA StepShown ==
    ASSUME SInv, NEW p \in Callers, Step(p)
    PROVE  QuotedOK' /\ \A q \in Callers : ShownOK(q)'
<1> DEFINE Goal == QuotedOK' /\ \A q \in Callers : ShownOK(q)'
<1>0. IInv /\ (IsOpen(p) => call[p] \in OpenCalls /\ call[p].request \in Requests[p])
      /\ StageOK(call[p])
  BY OpenCall DEF SInv, IInv, CallOK
<1>1. CASE ZoneFqdn(p) \/ Resend(p)
  BY <1>1, SameShown DEF ZoneFqdn, Resend
<1>2. CASE Fails(p) \/ AnswerLost(p)
  <2>1. IsOpen(p) /\ Return(p, "error", {}) /\ UNCHANGED zone
    BY <1>2 DEF Fails, AnswerLost, IsOpen, IsAt
  <2> QED
    BY <2>1, ReturnShown
<1>3. CASE Succeeds(p)
  <2>1. IsOpen(p) /\ Return(p, "ok", {}) /\ UNCHANGED zone /\ call[p].request.op # "list"
    BY <1>0, <1>3 DEF Succeeds, IsOpen, IsAt, StageOK
  <2> QED
    BY <2>1, ReturnShown
<1>4. CASE Refused(p)
  <2>1. PICK status \in {"ok", "error"} : Return(p, status, {})
    BY <1>4 DEF Refused, RefusalMeans
  <2>2. IsOpen(p) /\ UNCHANGED zone /\ call[p].request.op # "list"
    BY <1>0, <1>4 DEF Refused, IsOpen, IsAt, StageOK
  <2> QED
    BY <2>1, <2>2, ReturnShown
<1>5. CASE Fetch(p)
  <2>1. IsOpen(p) /\ UNCHANGED zone /\ call[p].request.op # "list"
    BY <1>0, <1>5 DEF Fetch, IsOpen, IsAt, StageOK
  <2>2. Return(p, "ok", {}) \/ UNCHANGED <<answer, held, landed>>
    BY <1>5 DEF Fetch
  <2> QED
    BY <2>1, <2>2, ReturnShown, SameShown
<1>6. CASE ListPage(p)
  <2> DEFINE ahead   == StartingAt(call[p].cursor)
             page    == Least(ahead, PageSize)
             records == call[p].listed \union Decoded(page)
  <2>1. IsAt(p, "page") /\ IsOpen(p) /\ UNCHANGED zone
    BY <1>6 DEF ListPage, IsOpen, IsAt
  <2>2. page = ahead => \E pick \in [Keys -> Holds] :
                           /\ \A k \in Keys : pick[k] \in held[p][k]
                           /\ records = {Shown[k][pick[k]] : k \in Keys} \ {Absent}
    BY <1>0, <2>1, PageFacts
  <2>3. (page = ahead /\ Return(p, "ok", records)) \/ UNCHANGED <<answer, held, landed>>
    BY <1>6 DEF ListPage
  <2> HIDE DEF ahead, page, records
  <2>4. CASE page = ahead /\ Return(p, "ok", records)
    BY <2>1, <2>2, <2>4, ReturnShown
  <2>5. CASE UNCHANGED <<answer, held, landed>>
    BY <2>1, <2>5, SameShown
  <2> QED
    BY <2>3, <2>4, <2>5
<1>7. CASE Upsert(p)
  <2>1. IsOpen(p) /\ call[p].pc = "change" /\ UNCHANGED answer
    BY <1>7 DEF Upsert, IsOpen, IsAt
  <2>2. call[p].request \in Requests[p] /\ call[p].request.op = "upsert"
    BY <1>0, <2>1 DEF StageOK
  <2> DEFINE r == call[p].request.record
  <2>3. /\ Target(p) = KeyOf(r) /\ Target(p) \in Keys
        /\ AsRequest[call[p].request].contents = Encode(r)
    BY <2>2, RequestFacts DEF Target
  <2>4. PICK c \in Encode(r) : Put(Target(p), c)
    BY <1>7, <2>3 DEF Upsert
  <2>5. r \in Records /\ KeyType[Target(p)] = r.type /\ c \in Holds
    BY <2>2, <2>3, SentFacts DEF Holds
  <2>6. KeyType[Target(p)] = "TXT" => InQuotes(c)
    BY <2>5, EncodeFacts DEF InQuotes
  <2> QED
    BY <2>1, <2>3, <2>4, <2>5, <2>6, PutShown
<1>8. CASE Remove(p)
  <2>1. IsOpen(p) /\ call[p].pc = "remove" /\ UNCHANGED answer /\ Put(Target(p), Absent)
    BY <1>8 DEF Remove, IsOpen, IsAt
  <2>2. call[p].request \in Requests[p] /\ call[p].request.op = "delete"
    BY <1>0, <2>1 DEF StageOK
  <2>3. Target(p) \in Keys /\ Absent \in Holds /\ InQuotes(Absent)
    BY <2>2, RequestFacts DEF Target, Holds, InQuotes
  <2> QED
    BY <2>1, <2>3, PutShown
<1> QED
  BY <1>1, <1>2, <1>3, <1>4, <1>5, <1>6, <1>7, <1>8 DEF Step, Proceeds

LEMMA OthersShown ==
    ASSUME SInv, NEW k \in Keys, NEW c \in OthersPut[k] \union {Absent}, Others(k, c)
    PROVE  QuotedOK' /\ \A q \in Callers : ShownOK(q)'
<1>1. Put(k, c) /\ UNCHANGED answer
  BY DEF Others
<1>2. c \in Holds
  BY DEF Holds, Contents
<1>3. KeyType[k] = "TXT" => InQuotes(c)
  BY ContentsAssumption DEF InQuotes
<1> QED
  BY <1>1, <1>2, <1>3, PutShown

LEMMA InitShown == Init => QuotedOK /\ \A q \in Callers : ShownOK(q)
<1> SUFFICES ASSUME Init PROVE QuotedOK /\ \A q \in Callers : ShownOK(q)
  OBVIOUS
<1>1. \A q \in Callers : ShownOK(q)
  BY DEF Init, ShownOK, Listed, Returned
<1>2. ASSUME NEW k \in Keys, KeyType[k] = "TXT" PROVE InQuotes(zone[k])
  <2>1. zone[k] \in OthersPut[k] \union {Absent}
    BY ContentsAssumption DEF Init
  <2> QED
    BY <1>2, <2>1, ContentsAssumption DEF InQuotes
<1>3. \A q \in Callers, k \in Keys : held[q][k] = {}
  BY DEF Init, Nothing
<1> QED
  BY <1>1, <1>2, <1>3 DEF QuotedOK

\* What a listing returns is kept, and a TXT record set is kept in quotes.
THEOREM ShownInductive == Spec => []SInv
<1>1. Init => SInv
  BY InitInv, InitShown DEF SInv
<1>2. ASSUME IInv', SInv, [Next]_vars PROVE SInv'
  <2>1. QuotedOK' /\ \A q \in Callers : ShownOK(q)'
    <3>1. CASE UNCHANGED vars
      BY <1>2, <3>1, SameShown DEF vars
    <3> QED
      BY <1>2, <3>1, StepShown, BeginShown, OthersShown DEF Next
  <2> QED
    BY <1>2, <2>1 DEF SInv
<1>3. SInv /\ IInv' /\ [Next]_vars => SInv'
  BY <1>2
<1> QED
  BY <1>1, <1>3, AdapterInductive, PTL DEF Spec

\* A record with a name in lower case, no wildcard (RequestsAssumption), and no
\* quoted TXT value, held by its key all through a listing, is in the listing
\* once, and diff() finds no difference, in whatever order Route53 gives the
\* values back.
THEOREM ReadsBackHolds == Spec => []ReadsBack
BY ShownInductive, ReadsBackNow, PTL

\* Where diff() finds no difference between a listed and a desired record, the
\* key did hold, at some moment of the listing, what the desired record would
\* write.  The hypothesis is where strip_txt_quotes ends: it takes "" "" to
\* " ", which is what another value, of a single blank, is sent as.
THEOREM InSyncWasTrueHolds ==
    ASSUME QuotedOnce
    PROVE  Spec => []InSyncWasTrue
<1>1. SInv => InSyncWasTrue
  BY InSyncNow
<1> QED
  BY ShownInductive, <1>1, PTL

=============================================================================
