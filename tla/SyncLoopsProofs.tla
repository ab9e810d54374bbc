-------------------------- MODULE SyncLoopsProofs --------------------------
(***************************************************************************)
(* Theorems about SyncLoops, for every value of its constants: any number  *)
(* of records, bindings and zones, any clock, any faults.                  *)
(***************************************************************************)
EXTENDS SyncLoops, TLAPS

-----------------------------------------------------------------------------
(* The inductive invariant.                                                *)

\* What a loop with state L carries about the binding it is at: the pairs it
\* is going to judge are pairs, and what it listed has either not changed or
\* changed at or after the time it is going to write.
Carries(L, pairs) ==
    /\ L.now <= clock
    /\ L.pc \in {"list", "write"} => L.binding \in Bindings /\ pairs \subseteq Pairs
    /\ L.pc = "write" =>
          /\ L.actual \in Contents \union {Failed}
          /\ L.actual # Failed =>
                \A k \in Keys : \/ L.actual[k] = provider[L.binding][k]
                                \/ changedAt[L.binding][k] >= L.now

ObserverPairs == {<<r, observer.binding>> : r \in observer.todo}

\* The rows were written, and the zones changed, in the past.
Past ==
    /\ \A p \in Pairs : rows[p] # NoRow => rows[p].at \in 0 .. clock
    /\ \A b \in Bindings, k \in Keys : changedAt[b][k] <= clock

\* A pair without a failure of late has none counted.
Counted ==
    \A p \in Pairs :
        rows[p] = NoRow \/ rows[p].status # "sync_failed" => failures[p] = 0

IInv ==
    /\ TypeOK
    /\ Carries(observer, ObserverPairs)
    /\ Carries(retrier, retrier.todo) /\ \A p \in retrier.todo : p[2] = retrier.binding
    /\ Past
    /\ Counted
    /\ StaleIsExplained
    /\ NoLostFailure

\* What IInv says of the two tables of histories and rows.
RowsOK ==
    /\ rows \in [Pairs -> Row \union {NoRow}]
    /\ failures \in [Pairs -> 0 .. MaxRetry + 1]
    /\ Past /\ Counted /\ StaleIsExplained /\ NoLostFailure

LEMMA InvRows == IInv => RowsOK
BY DEF IInv, TypeOK, RowsOK

-----------------------------------------------------------------------------
(* What both loops do.                                                     *)

LEMMA BetweenType ==
    ASSUME NEW Queue, NEW Todo, NEW queue \in SUBSET Queue
    PROVE  Between(queue) \in Loop(Queue, Todo)
BY SyncAssumption DEF Between, Loop

\* A loop that is not at a binding carries nothing.
LEMMA BetweenCarries ==
    ASSUME NEW queue, clock \in Nat, NEW pairs
    PROVE  Carries(Between(queue), pairs)
BY DEF Between, Carries

\* The CASE of upsert_sync_state counts on, and starts again.
LEMMA RetryCountType ==
    ASSUME NEW old \in Row \union {NoRow}, NEW status
    PROVE  RetryCount(old, status) \in 0 .. MaxRetry
BY SyncAssumption, NoRowAssumption DEF RetryCount, Capped, Row

\* One statement writes one row; the other rows and counts stay.
LEMMA UpsertStep ==
    ASSUME IInv, UNCHANGED world,
           NEW r, NEW b, <<r, b>> \in Pairs,
           NEW status \in {"in_sync", "drift", "sync_failed"},
           NEW value \in Values \union {NULL}, NEW at \in 0 .. clock,
           Upsert(r, b, status, value, at),
           status # "sync_failed" =>
               \/ status = Truth(<<r, b>>)
               \/ changedAt[b][Key[r]] >= at
    PROVE  RowsOK'
<1> DEFINE p == <<r, b>>
           row == [status |-> status, value |-> value, at |-> at,
                   retry |-> RetryCount(rows[p], status)]
           count == IF status # "sync_failed" THEN 0
                    ELSE IF failures[p] > MaxRetry THEN failures[p] ELSE failures[p] + 1
<1>1. /\ rows' = [rows EXCEPT ![p] = row]
      /\ failures' = [failures EXCEPT ![p] = count]
  BY DEF Upsert
<1>2. rows \in [Pairs -> Row \union {NoRow}] /\ failures \in [Pairs -> 0 .. MaxRetry + 1]
  BY DEF IInv, TypeOK
<1>3. row \in Row
  <2>1. RetryCount(rows[p], status) \in 0 .. MaxRetry
    BY <1>2, RetryCountType
  <2>2. at \in 0 .. MaxTime
    BY SyncAssumption DEF IInv, TypeOK
  <2> QED BY <2>1, <2>2 DEF Row
<1>4. row # NoRow /\ row.at = at /\ row.status = status
  BY <1>3, NoRowAssumption
<1>5. rows' \in [Pairs -> Row \union {NoRow}] /\ rows'[p] = row
  BY <1>1, <1>2, <1>3
<1>6. failures' \in [Pairs -> 0 .. MaxRetry + 1] /\ failures'[p] = count
  BY <1>1, <1>2, SyncAssumption
<1>7. \A q \in Pairs \ {p} : rows'[q] = rows[q] /\ failures'[q] = failures[q]
  BY <1>1, <1>2
<1>8. /\ clock' = clock /\ changedAt' = changedAt /\ provider' = provider
  BY DEF world
<1>9. Past'
  <2>1. rows'[p].at \in 0 .. clock
    BY <1>4, <1>5
  <2> QED BY <2>1, <1>7, <1>8 DEF IInv, Past
<1>10. Counted'
  <2>1. rows'[p] = NoRow \/ rows'[p].status # "sync_failed" => failures'[p] = 0
    BY <1>4, <1>5, <1>6
  <2> QED BY <2>1, <1>7 DEF IInv, Counted
<1>11. StaleIsExplained'
  <2> SUFFICES ASSUME NEW q \in Pairs, rows'[q] # NoRow, rows'[q].status # "sync_failed",
                      rows'[q].status # Truth(q)'
               PROVE  changedAt'[q[2]][Key[q[1]]] >= rows'[q].at
    BY DEF StaleIsExplained
  <2>1. Truth(q)' = Truth(q)
    BY <1>8 DEF Truth, Verdict
  <2>2. CASE q = p
    BY <2>1, <2>2, <1>4, <1>5, <1>8
  <2>3. CASE q # p
    BY <2>1, <2>3, <1>7, <1>8 DEF IInv, StaleIsExplained
  <2> QED BY <2>2, <2>3
<1>12. NoLostFailure'
  <2> SUFFICES ASSUME NEW q \in Pairs, rows'[q] # NoRow, rows'[q].status = "sync_failed"
               PROVE  failures'[q] > 0 /\ rows'[q].retry = failures'[q] - 1
    BY DEF NoLostFailure
  <2>1. CASE q # p
    BY <2>1, <1>7 DEF IInv, NoLostFailure
  <2>2. CASE q = p
    <3>1. status = "sync_failed" /\ rows'[p].retry = RetryCount(rows[p], status)
      BY <2>2, <1>4, <1>5
    <3>2. CASE rows[p] = NoRow \/ rows[p].status # "sync_failed"
      <4>1. failures[p] = 0
        BY <3>2 DEF IInv, Counted
      <4>2. count = 1
        BY <4>1, <3>1, SyncAssumption
      <4>3. RetryCount(rows[p], status) = 0
        BY <3>1, <3>2 DEF RetryCount
      <4> QED BY <2>2, <3>1, <4>2, <4>3, <1>6
    <3>3. CASE rows[p] # NoRow /\ rows[p].status = "sync_failed"
      <4>1. failures[p] > 0 /\ rows[p].retry = failures[p] - 1
        BY <3>3 DEF IInv, NoLostFailure
      <4>2. failures[p] \in 0 .. MaxRetry + 1
        BY <1>2
      <4>3. RetryCount(rows[p], status) = Capped(rows[p].retry)
        BY <3>1, <3>3 DEF RetryCount
      <4>4. count > 0 /\ Capped(rows[p].retry) = count - 1
        BY <4>1, <4>2, <3>1, SyncAssumption DEF Capped
      <4> QED BY <2>2, <3>1, <4>3, <4>4, <1>6
    <3> QED BY <3>2, <3>3
  <2> QED BY <2>1, <2>2
<1> QED BY <1>5, <1>6, <1>9, <1>10, <1>11, <1>12 DEF RowsOK

\* A row judged on what was listed since now keeps the invariant.
LEMMA JudgeStep ==
    ASSUME IInv, UNCHANGED world,
           NEW r, NEW b, <<r, b>> \in Pairs,
           NEW actual \in Contents \union {Failed}, NEW now \in 0 .. clock,
           actual # Failed =>
               \A k \in Keys : actual[k] = provider[b][k] \/ changedAt[b][k] >= now,
           Judge(r, b, actual, now)
    PROVE  RowsOK'
<1>1. CASE actual = Failed
  <2>1. Upsert(r, b, "sync_failed", NULL, now)
    BY <1>1 DEF Judge
  <2> QED BY <2>1, UpsertStep
<1>2. CASE actual # Failed /\ Desired[r] = Unparsable
  <2>1. UNCHANGED <<rows, failures>>
    BY <1>2 DEF Judge
  <2> QED
    BY <2>1 DEF IInv, TypeOK, RowsOK, world, Past, Counted, StaleIsExplained, NoLostFailure,
                Truth, Verdict
<1>3. CASE actual # Failed /\ Desired[r] # Unparsable
  <2>1. Upsert(r, b, Verdict(r, actual), Seen(r, actual), now)
    BY <1>3 DEF Judge
  <2>2. Key[r] \in Keys /\ actual \in Contents
    BY <1>3, SyncAssumption DEF Pairs
  <2>3. Verdict(r, actual) \in {"in_sync", "drift"} /\ Seen(r, actual) \in Values \union {NULL}
    BY <2>2 DEF Verdict, Seen, Contents
  <2>4. Verdict(r, actual) = Truth(<<r, b>>) \/ changedAt[b][Key[r]] >= now
    BY <1>3, <2>2 DEF Truth, Verdict
  <2> QED BY <2>1, <2>3, <2>4, UpsertStep
<1> QED BY <1>1, <1>2, <1>3

\* Rows that are not written and a world that does not move.
LEMMA RowsKept ==
    ASSUME IInv, UNCHANGED <<world, rows, failures>>
    PROVE  RowsOK'
BY DEF IInv, TypeOK, RowsOK, world, Past, Counted, StaleIsExplained, NoLostFailure, Truth, Verdict

-----------------------------------------------------------------------------
(* The loops: the world stands still, and one of them moves.               *)

ObserverOK == /\ observer \in Loop(Bindings, Records)
              /\ Carries(observer, ObserverPairs)

RetrierOK == /\ retrier \in Loop(Pairs, Pairs)
             /\ Carries(retrier, retrier.todo)
             /\ \A p \in retrier.todo : p[2] = retrier.binding

\* A step of a loop has to show what it does to the rows and to itself.
LEMMA LoopStep ==
    ASSUME IInv, UNCHANGED world, RowsOK', ObserverOK', RetrierOK', faults' \in 0 .. MaxFaults
    PROVE  IInv'
BY DEF IInv, TypeOK, RowsOK, world, ObserverOK, RetrierOK

LEMMA ObserverKept == IInv /\ UNCHANGED <<world, observer>> => ObserverOK'
BY DEF IInv, TypeOK, ObserverOK, ObserverPairs, world, Carries

LEMMA RetrierKept == IInv /\ UNCHANGED <<world, retrier>> => RetrierOK'
BY DEF IInv, TypeOK, RetrierOK, world, Carries, Pairs

LEMMA ObserverBetween ==
    ASSUME IInv, UNCHANGED world, NEW queue \in SUBSET Bindings, observer' = Between(queue)
    PROVE  ObserverOK'
<1>1. observer' \in Loop(Bindings, Records)
  BY BetweenType
<1>2. /\ observer'.now = 0 /\ observer'.pc \in {"tick", "binding"}
      /\ clock' \in Nat
  BY SyncAssumption DEF Between, IInv, TypeOK, world
<1> QED BY <1>1, <1>2 DEF ObserverOK, Carries

LEMMA RetrierBetween ==
    ASSUME IInv, UNCHANGED world, NEW queue \in SUBSET Pairs, retrier' = Between(queue)
    PROVE  RetrierOK'
<1>1. retrier' \in Loop(Pairs, Pairs)
  BY BetweenType
<1>2. /\ retrier'.now = 0 /\ retrier'.pc \in {"tick", "binding"} /\ retrier'.todo = {}
      /\ clock' \in Nat
  BY SyncAssumption DEF Between, IInv, TypeOK, world
<1> QED BY <1>1, <1>2 DEF RetrierOK, Carries, Pairs

\* What a listing returns has the contents of the zone, or is an error.
LEMMA ListingType ==
    ASSUME IInv, NEW b \in Bindings
    PROVE  /\ Listing(b) \in Contents \union {Failed}
           /\ Listing(b) # Failed => Listing(b) = provider[b]
BY ContentsAssumption DEF IInv, TypeOK, Listing

LEMMA FaultsType == IInv /\ (Fault \/ UNCHANGED faults) => faults' \in 0 .. MaxFaults
BY SyncAssumption DEF IInv, TypeOK, Fault

LEMMA ObserveSteps == IInv /\ (Observe \/ ObserveWriteFails \/ \E b \in Bindings : ObserveReadFails(b))
                      => IInv'
<1> SUFFICES ASSUME IInv,
                    Observe \/ ObserveWriteFails \/ \E b \in Bindings : ObserveReadFails(b)
             PROVE  IInv'
  OBVIOUS
<1>w. UNCHANGED world
  BY DEF Observe, ObserveTick, ObserveBinding, ObserveList, ObserveWrite, ObserveWriteFails,
         ObserveReadFails
<1>r. RetrierOK'
  <2>1. UNCHANGED retrier
    BY DEF Observe, ObserveTick, ObserveBinding, ObserveList, ObserveWrite, ObserveWriteFails,
           ObserveReadFails
  <2> QED BY <2>1, <1>w, RetrierKept
<1>f. faults' \in 0 .. MaxFaults
  <2>1. Fault \/ UNCHANGED faults
    BY DEF Observe, ObserveTick, ObserveBinding, ObserveList, ObserveWrite, ObserveWriteFails,
           ObserveReadFails
  <2> QED BY <2>1, FaultsType
<1>o. observer \in Loop(Bindings, Records) /\ observer.queue \in SUBSET Bindings
  BY DEF IInv, TypeOK, Loop
<1>1. CASE ObserveTick
  <2>1. ObserverOK'
    <3>1. bindings \in SUBSET Bindings /\ observer' = Between(bindings)
      BY <1>1 DEF ObserveTick, IInv, TypeOK
    <3> QED BY <3>1, <1>w, ObserverBetween
  <2>2. RowsOK'
    BY <1>1, <1>w, RowsKept DEF ObserveTick
  <2> QED BY <2>1, <2>2, <1>w, <1>r, <1>f, LoopStep
<1>2. ASSUME NEW b \in Bindings, ObserveBinding(b)
      PROVE  IInv'
  <2> DEFINE mine == {r \in records : RecordZone[r] = BindingZone[b]}
  <2>1. ObserverOK'
    <3>1. CASE mine = {}
      <4>1. observer' = Between(observer.queue \ {b})
        BY <1>2, <3>1 DEF ObserveBinding
      <4> QED BY <4>1, <1>o, <1>w, ObserverBetween
    <3>2. CASE mine # {}
      <4>1. observer' = [observer EXCEPT !.pc = "list", !.queue = @ \ {b},
                                         !.binding = b, !.now = clock, !.todo = mine]
        BY <1>2, <3>2 DEF ObserveBinding
      <4>2. records \subseteq Records /\ clock \in 0 .. MaxTime /\ clock' = clock
        BY <1>w DEF IInv, TypeOK, world
      <4>3. mine \in SUBSET Records
        BY <4>2
      <4>4. observer' \in Loop(Bindings, Records)
        BY <4>1, <4>2, <4>3, <1>o DEF Loop
      <4>5. /\ observer'.pc = "list" /\ observer'.binding = b /\ observer'.now = clock
            /\ observer'.todo = mine
        BY <4>1, <1>o DEF Loop
      <4>6. \A r \in mine : <<r, b>> \in Pairs
        BY <4>3 DEF Pairs
      <4>7. ObserverPairs' \subseteq Pairs
        BY <4>5, <4>6 DEF ObserverPairs
      <4>8. clock <= clock'
        BY <4>2, SyncAssumption
      <4> QED BY <4>4, <4>5, <4>7, <4>8 DEF ObserverOK, Carries
    <3> QED BY <3>1, <3>2
  <2>2. RowsOK'
    BY <1>2, <1>w, RowsKept DEF ObserveBinding
  <2> QED BY <2>1, <2>2, <1>w, <1>r, <1>f, LoopStep
<1>3. CASE ObserveList
  <2>1. ObserverOK'
    <3>1. /\ observer.pc = "list"
          /\ observer' = [observer EXCEPT !.pc = "write", !.actual = Listing(observer.binding)]
      BY <1>3 DEF ObserveList
    <3>2. observer.binding \in Bindings /\ ObserverPairs \subseteq Pairs /\ observer.now <= clock
      BY <3>1 DEF IInv, Carries
    <3>3. /\ Listing(observer.binding) \in Contents \union {Failed}
          /\ Listing(observer.binding) # Failed =>
                Listing(observer.binding) = provider[observer.binding]
      BY <3>2, ListingType
    <3>4. observer' \in Loop(Bindings, Records)
      BY <3>1, <3>3, <1>o DEF Loop
    <3>5. /\ observer'.pc = "write" /\ observer'.actual = Listing(observer.binding)
          /\ observer'.binding = observer.binding /\ observer'.now = observer.now
          /\ observer'.todo = observer.todo
      BY <3>1, <1>o DEF Loop
    <3>6. ObserverPairs' \subseteq Pairs
      BY <3>2, <3>5 DEF ObserverPairs
    <3> QED BY <3>2, <3>3, <3>4, <3>5, <3>6, <1>w DEF ObserverOK, Carries, world
  <2>2. RowsOK'
    BY <1>3, <1>w, RowsKept DEF ObserveList
  <2> QED BY <2>1, <2>2, <1>w, <1>r, <1>f, LoopStep
<1>4. ASSUME NEW r \in Records, ObserveWrite(r)
      PROVE  IInv'
  <2>1. observer.pc = "write" /\ r \in observer.todo
    BY <1>4 DEF ObserveWrite
  <2>2. /\ observer.binding \in Bindings /\ ObserverPairs \subseteq Pairs
        /\ observer.now <= clock
        /\ observer.actual \in Contents \union {Failed}
        /\ observer.actual # Failed =>
              \A k \in Keys : \/ observer.actual[k] = provider[observer.binding][k]
                              \/ changedAt[observer.binding][k] >= observer.now
    BY <2>1 DEF IInv, Carries
  <2>3. <<r, observer.binding>> \in Pairs /\ observer.now \in 0 .. clock
    BY <2>1, <2>2, <1>o DEF ObserverPairs, Loop, IInv, TypeOK
  <2>4. RowsOK'
    <3>1. Judge(r, observer.binding, observer.actual, observer.now)
      BY <1>4 DEF ObserveWrite
    <3> QED BY <3>1, <2>2, <2>3, <1>w, JudgeStep
  <2>5. ObserverOK'
    <3>1. observer' = Judged(observer, r)
      BY <1>4 DEF ObserveWrite
    <3>2. CASE observer.todo = {r}
      <4>1. observer' = Between(observer.queue)
        BY <3>1, <3>2 DEF Judged
      <4> QED BY <4>1, <1>o, <1>w, ObserverBetween
    <3>3. CASE observer.todo # {r}
      <4>1. observer' = [observer EXCEPT !.todo = @ \ {r}]
        BY <3>1, <3>3 DEF Judged
      <4>2. observer' \in Loop(Bindings, Records)
        BY <4>1, <1>o DEF Loop
      <4>3. /\ observer'.pc = observer.pc /\ observer'.binding = observer.binding
            /\ observer'.now = observer.now /\ observer'.actual = observer.actual
            /\ observer'.todo \subseteq observer.todo
        BY <4>1, <1>o DEF Loop
      <4>4. ObserverPairs' \subseteq Pairs
        BY <2>2, <4>3 DEF ObserverPairs
      <4> QED BY <2>2, <4>2, <4>3, <4>4, <1>w DEF ObserverOK, Carries, world
    <3> QED BY <3>2, <3>3
  <2> QED BY <2>4, <2>5, <1>w, <1>r, <1>f, LoopStep
<1>5. CASE ObserveWriteFails
  <2>1. ObserverOK'
    BY <1>5, <1>o, <1>w, ObserverBetween DEF ObserveWriteFails
  <2>2. RowsOK'
    BY <1>5, <1>w, RowsKept DEF ObserveWriteFails
  <2> QED BY <2>1, <2>2, <1>w, <1>r, <1>f, LoopStep
<1>6. ASSUME NEW b \in Bindings, ObserveReadFails(b)
      PROVE  IInv'
  <2>1. ObserverOK'
    <3>1. observer' = Between(observer.queue \ {b}) /\ observer.queue \ {b} \in SUBSET Bindings
      BY <1>6, <1>o DEF ObserveReadFails
    <3> QED BY <3>1, <1>w, ObserverBetween
  <2>2. RowsOK'
    BY <1>6, <1>w, RowsKept DEF ObserveReadFails
  <2> QED BY <2>1, <2>2, <1>w, <1>r, <1>f, LoopStep
<1> QED BY <1>1, <1>2, <1>3, <1>4, <1>5, <1>6 DEF Observe

RetryFaults == \/ \E b \in Bindings : RetryReadFails(b)
               \/ \E p \in Pairs : RetryWriteFails(p)

LEMMA RetrySteps == IInv /\ (Retry \/ RetryFaults) => IInv'
<1> SUFFICES ASSUME IInv, Retry \/ RetryFaults
             PROVE  IInv'
  OBVIOUS
<1> USE DEF RetryFaults
<1>w. UNCHANGED world
  BY DEF Retry, RetryTick, RetryBinding, RetryList, RetryWrite, RetryReadFails, RetryWriteFails
<1>s. ObserverOK'
  <2>1. UNCHANGED observer
    BY DEF Retry, RetryTick, RetryBinding, RetryList, RetryWrite, RetryReadFails, RetryWriteFails
  <2> QED BY <2>1, <1>w, ObserverKept
<1>f. faults' \in 0 .. MaxFaults
  <2>1. Fault \/ UNCHANGED faults
    BY DEF Retry, RetryTick, RetryBinding, RetryList, RetryWrite, RetryReadFails, RetryWriteFails
  <2> QED BY <2>1, FaultsType
<1>o. retrier \in Loop(Pairs, Pairs) /\ retrier.queue \in SUBSET Pairs
  BY DEF IInv, TypeOK, Loop
<1>j. ASSUME NEW p \in retrier.todo, retrier.pc = "write", retrier' = Judged(retrier, p)
      PROVE  RetrierOK'
  <2>1. CASE retrier.todo = {p}
    <3>1. retrier' = Between(retrier.queue)
      BY <1>j, <2>1 DEF Judged
    <3> QED BY <3>1, <1>o, <1>w, RetrierBetween
  <2>2. CASE retrier.todo # {p}
    <3>1. retrier' = [retrier EXCEPT !.todo = @ \ {p}]
      BY <1>j, <2>2 DEF Judged
    <3>2. retrier' \in Loop(Pairs, Pairs)
      BY <3>1, <1>o DEF Loop
    <3>3. /\ retrier'.pc = retrier.pc /\ retrier'.binding = retrier.binding
          /\ retrier'.now = retrier.now /\ retrier'.actual = retrier.actual
          /\ retrier'.todo \subseteq retrier.todo
      BY <3>1, <1>o DEF Loop
    <3> QED BY <1>j, <3>2, <3>3, <1>w DEF RetrierOK, Carries, world, IInv, Pairs
  <2> QED BY <2>1, <2>2
<1>1. CASE RetryTick
  <2>1. PICK due \in SUBSET Pairs : retrier' = Between(due)
    BY <1>1 DEF RetryTick
  <2>2. RetrierOK'
    BY <2>1, <1>w, RetrierBetween
  <2>3. RowsOK'
    BY <1>1, <1>w, RowsKept DEF RetryTick
  <2> QED BY <2>2, <2>3, <1>w, <1>s, <1>f, LoopStep
<1>2. ASSUME NEW b \in Bindings, RetryBinding(b)
      PROVE  IInv'
  <2> DEFINE mine == {p \in retrier.queue : p[2] = b}
  <2>1. retrier' = [retrier EXCEPT !.pc = "list", !.queue = @ \ mine,
                                   !.binding = b, !.now = clock, !.todo = mine]
    BY <1>2 DEF RetryBinding
  <2>2. mine \subseteq Pairs /\ clock \in 0 .. MaxTime /\ clock' = clock
    BY <1>o, <1>w DEF IInv, TypeOK, world
  <2>3. retrier' \in Loop(Pairs, Pairs)
    BY <2>1, <2>2, <1>o DEF Loop
  <2>4. /\ retrier'.pc = "list" /\ retrier'.binding = b /\ retrier'.now = clock
        /\ retrier'.todo = mine
    BY <2>1, <1>o DEF Loop
  <2>5. clock <= clock' /\ Pairs' = Pairs
    BY <2>2, SyncAssumption DEF Pairs
  <2>6. RetrierOK'
    BY <2>2, <2>3, <2>4, <2>5 DEF RetrierOK, Carries
  <2>7. RowsOK'
    BY <1>2, <1>w, RowsKept DEF RetryBinding
  <2> QED BY <2>6, <2>7, <1>w, <1>s, <1>f, LoopStep
<1>3. CASE RetryList
  <2>1. /\ retrier.pc = "list"
        /\ retrier' = [retrier EXCEPT !.pc = "write", !.actual = Listing(retrier.binding)]
    BY <1>3 DEF RetryList
  <2>2. /\ retrier.binding \in Bindings /\ retrier.todo \subseteq Pairs
        /\ retrier.now <= clock /\ \A p \in retrier.todo : p[2] = retrier.binding
    BY <2>1 DEF IInv, Carries
  <2>3. /\ Listing(retrier.binding) \in Contents \union {Failed}
        /\ Listing(retrier.binding) # Failed =>
              Listing(retrier.binding) = provider[retrier.binding]
    BY <2>2, ListingType
  <2>4. retrier' \in Loop(Pairs, Pairs)
    BY <2>1, <2>3, <1>o DEF Loop
  <2>5. /\ retrier'.pc = "write" /\ retrier'.actual = Listing(retrier.binding)
        /\ retrier'.binding = retrier.binding /\ retrier'.now = retrier.now
        /\ retrier'.todo = retrier.todo
    BY <2>1, <1>o DEF Loop
  <2>6. RetrierOK'
    BY <2>2, <2>3, <2>4, <2>5, <1>w DEF RetrierOK, Carries, world, Pairs
  <2>7. RowsOK'
    BY <1>3, <1>w, RowsKept DEF RetryList
  <2> QED BY <2>6, <2>7, <1>w, <1>s, <1>f, LoopStep
<1>4. ASSUME NEW p \in Pairs, RetryWrite(p)
      PROVE  IInv'
  <2>1. retrier.pc = "write" /\ p \in retrier.todo /\ retrier' = Judged(retrier, p)
    BY <1>4 DEF RetryWrite
  <2>2. /\ retrier.binding = p[2]
        /\ retrier.now <= clock
        /\ retrier.actual \in Contents \union {Failed}
        /\ retrier.actual # Failed =>
              \A k \in Keys : \/ retrier.actual[k] = provider[retrier.binding][k]
                              \/ changedAt[retrier.binding][k] >= retrier.now
    BY <2>1 DEF IInv, Carries
  <2>3. <<p[1], p[2]>> \in Pairs /\ retrier.now \in 0 .. clock
    BY <2>2, <1>o DEF Pairs, Loop, IInv, TypeOK
  <2>4. RowsOK'
    <3>1. Judge(p[1], p[2], retrier.actual, retrier.now)
      BY <1>4 DEF RetryWrite
    <3> QED BY <3>1, <2>2, <2>3, <1>w, JudgeStep
  <2> QED BY <2>1, <2>4, <1>j, <1>w, <1>s, <1>f, LoopStep
<1>5. ASSUME NEW b \in Bindings, RetryReadFails(b)
      PROVE  IInv'
  <2>1. PICK left \in SUBSET Pairs : retrier' = Between(left)
    BY <1>5, <1>o DEF RetryReadFails
  <2>2. RetrierOK'
    BY <2>1, <1>w, RetrierBetween
  <2>3. RowsOK'
    BY <1>5, <1>w, RowsKept DEF RetryReadFails
  <2> QED BY <2>2, <2>3, <1>w, <1>s, <1>f, LoopStep
<1>6. ASSUME NEW p \in Pairs, RetryWriteFails(p)
      PROVE  IInv'
  <2>1. RetrierOK'
    BY <1>6, <1>j DEF RetryWriteFails
  <2>2. RowsOK'
    BY <1>6, <1>w, RowsKept DEF RetryWriteFails
  <2> QED BY <2>1, <2>2, <1>w, <1>s, <1>f, LoopStep
<1> QED BY <1>1, <1>2, <1>3, <1>4, <1>5, <1>6 DEF Retry

LEMMA RestartStep == IInv /\ Restart => IInv'
<1> SUFFICES ASSUME IInv, Restart PROVE IInv'
  OBVIOUS
<1>1. UNCHANGED world /\ UNCHANGED <<rows, failures>>
  BY DEF Restart
<1>2. ObserverOK'
  BY <1>1, ObserverBetween DEF Restart
<1>3. RetrierOK'
  BY <1>1, RetrierBetween DEF Restart
<1>4. RowsOK'
  BY <1>1, RowsKept
<1>5. faults' \in 0 .. MaxFaults
  BY FaultsType DEF Restart
<1> QED BY <1>1, <1>2, <1>3, <1>4, <1>5, LoopStep

-----------------------------------------------------------------------------
(* The world: the loops stand still.                                       *)

LEMMA WorldSteps == IInv /\ World => IInv'
<1> SUFFICES ASSUME IInv, World PROVE IInv'
  OBVIOUS
<1>l. UNCHANGED loops /\ ObserverPairs' = ObserverPairs /\ Pairs' = Pairs
  BY DEF World, CreateRecord, CreateProvider, ReachabilityChanges, ProviderChanges, Tick, loops,
         ObserverPairs, Pairs
<1>1. ASSUME UNCHANGED <<provider, changedAt, clock>>,
             records' \in SUBSET Records, bindings' \in SUBSET Bindings,
             reachable' \in SUBSET Bindings
      PROVE  IInv'
  BY <1>1, <1>l DEF IInv, TypeOK, loops, Carries, Past, Counted, StaleIsExplained,
     NoLostFailure, Truth, Verdict
<1>2. ASSUME NEW r \in Records, CreateRecord(r)
      PROVE  IInv'
  BY <1>1, <1>2 DEF CreateRecord, IInv, TypeOK
<1>3. ASSUME NEW b \in Bindings, CreateProvider(b)
      PROVE  IInv'
  BY <1>1, <1>3 DEF CreateProvider, IInv, TypeOK
<1>4. ASSUME NEW b \in Bindings, ReachabilityChanges(b)
      PROVE  IInv'
  BY <1>1, <1>4 DEF ReachabilityChanges, IInv, TypeOK
<1>5. ASSUME NEW b \in Bindings, NEW k \in Keys, NEW v \in Values \union {Absent},
             ProviderChanges(b, k, v)
      PROVE  IInv'
  <2>1. /\ provider' = [provider EXCEPT ![b][k] = v]
        /\ changedAt' = [changedAt EXCEPT ![b][k] = clock]
        /\ UNCHANGED <<records, bindings, reachable, clock>>
    BY <1>5 DEF ProviderChanges
  <2>2. /\ provider \in [Bindings -> [Keys -> Values \union {Absent}]]
        /\ changedAt \in [Bindings -> [Keys -> 0 .. MaxTime]]
        /\ clock \in 0 .. MaxTime
    BY DEF IInv, TypeOK, Contents
  <2>3. TypeOK'
    BY <2>1, <2>2, <1>l DEF IInv, TypeOK, Contents, loops
  <2>4. \A c \in Bindings, j \in Keys :
           \/ provider'[c][j] = provider[c][j] /\ changedAt'[c][j] = changedAt[c][j]
           \/ changedAt'[c][j] = clock
    BY <2>1, <2>2
  <2>5. Carries(observer, ObserverPairs)' /\ Carries(retrier, retrier.todo)'
    BY <2>1, <2>2, <2>4, <1>l, SyncAssumption DEF IInv, Carries, loops
  <2>6. Past'
    BY <2>1, <2>2, <2>4, <1>l, SyncAssumption DEF IInv, Past, loops
  <2>7. StaleIsExplained'
    <3> SUFFICES ASSUME NEW p \in Pairs, rows[p] # NoRow, rows[p].status # "sync_failed",
                        rows[p].status # Truth(p)'
                 PROVE  changedAt'[p[2]][Key[p[1]]] >= rows[p].at
      BY <1>l DEF StaleIsExplained, loops
    <3>1. p[2] \in Bindings /\ Key[p[1]] \in Keys
      BY SyncAssumption DEF Pairs
    <3>2. rows[p].at \in 0 .. clock
      BY DEF IInv, Past
    <3>3. CASE changedAt'[p[2]][Key[p[1]]] = clock
      BY <2>2, <3>2, <3>3, SyncAssumption
    <3>4. CASE /\ provider'[p[2]][Key[p[1]]] = provider[p[2]][Key[p[1]]]
               /\ changedAt'[p[2]][Key[p[1]]] = changedAt[p[2]][Key[p[1]]]
      BY <3>4 DEF IInv, StaleIsExplained, Truth, Verdict
    <3> QED BY <2>4, <3>1, <3>3, <3>4
  <2> QED BY <2>3, <2>5, <2>6, <2>7, <1>l DEF IInv, Counted, NoLostFailure, loops
<1>6. CASE Tick
  <2>1. clock' \in clock + 1 .. MaxTime
        /\ UNCHANGED <<records, bindings, provider, reachable, changedAt>>
    BY <1>6 DEF Tick
  <2>2. clock \in 0 .. MaxTime /\ clock' \in 0 .. MaxTime
    BY <2>1, SyncAssumption DEF IInv, TypeOK
  <2>3. TypeOK'
    BY <2>1, <2>2, <1>l DEF IInv, TypeOK, loops
  <2>4. observer.now \in Nat /\ retrier.now \in Nat
    BY DEF IInv, TypeOK, Loop
  <2>5. Carries(observer, ObserverPairs)' /\ Carries(retrier, retrier.todo)'
    BY <2>1, <2>2, <2>4, <1>l DEF IInv, Carries, loops
  <2>6. Past'
    <3>1. \A b \in Bindings, k \in Keys : changedAt[b][k] \in Nat
      BY DEF IInv, TypeOK
    <3> QED BY <2>1, <2>2, <3>1, <1>l DEF IInv, Past, loops
  <2>7. StaleIsExplained'
    BY <2>1, <1>l DEF IInv, StaleIsExplained, Truth, Verdict, loops
  <2> QED BY <2>3, <2>5, <2>6, <2>7, <1>l DEF IInv, Counted, NoLostFailure, loops
<1> QED BY <1>2, <1>3, <1>4, <1>5, <1>6 DEF World

-----------------------------------------------------------------------------
(* The theorems.                                                           *)

LEMMA InitInv == Init => IInv
<1> SUFFICES ASSUME Init PROVE IInv
  OBVIOUS
<1>1. observer \in Loop(Bindings, Records) /\ retrier \in Loop(Pairs, Pairs)
  BY BetweenType DEF Init
<1>2. TypeOK
  BY <1>1, SyncAssumption, ContentsAssumption DEF Init, TypeOK
<1>3. Carries(observer, ObserverPairs) /\ Carries(retrier, retrier.todo)
  BY BetweenCarries DEF Init
<1>4. retrier.todo = {}
  BY DEF Init, Between
<1>5. Past /\ Counted /\ StaleIsExplained /\ NoLostFailure
  BY SyncAssumption DEF Init, Past, Counted, StaleIsExplained, NoLostFailure
<1> QED BY <1>2, <1>3, <1>4, <1>5 DEF IInv

LEMMA StutterStep == IInv /\ UNCHANGED vars => IInv'
BY DEF vars, IInv, TypeOK, Carries, ObserverPairs, Pairs, Past, Counted, StaleIsExplained,
       NoLostFailure, Truth, Verdict

\* The invariant behind the others.
THEOREM SyncInductive == Spec => []IInv
<1>1. IInv /\ [Next]_vars => IInv'
  BY ObserveSteps, RetrySteps, RestartStep, WorldSteps, StutterStep DEF Next, Faults, RetryFaults
<1> QED BY InitInv, <1>1, PTL DEF Spec

\* Every variable keeps its type.
THEOREM SyncTypeCorrect == Spec => []TypeOK
BY SyncInductive, PTL DEF IInv

\* A wrong verdict is never stamped with a time after the change that made
\* it wrong, whichever of the loops wrote it and however late.
THEOREM StaleIsExplainedHolds == Spec => []StaleIsExplained
BY SyncInductive, PTL DEF IInv

\* retry_count counts the failures of a pair, whichever of the loops met them.
THEOREM NoLostFailureHolds == Spec => []NoLostFailure
BY SyncInductive, PTL DEF IInv

=============================================================================
