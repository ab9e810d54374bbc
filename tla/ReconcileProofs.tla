-------------------------- MODULE ReconcileProofs --------------------------
(***************************************************************************)
(* The whole worker implements its parts, so that what is proved of the    *)
(* apply loop and of the two other loops holds of them together.           *)
(***************************************************************************)
EXTENDS Reconcile, TLAPS

-----------------------------------------------------------------------------
(* The apply loop.                                                         *)

LEMMA SyncStepLeavesApply == SyncStep => UNCHANGED Apply!vars
<1>1. ASSUME Sync!Observe PROVE UNCHANGED <<bindings, provider>>
  BY <1>1 DEF Sync!Observe, Sync!ObserveTick, Sync!ObserveList, Sync!ObserveBinding,
              Sync!ObserveWrite, Sync!world
<1>2. ASSUME Sync!Retry PROVE UNCHANGED <<bindings, provider>>
  BY <1>2 DEF Sync!Retry, Sync!RetryTick, Sync!RetryList, Sync!RetryBinding,
              Sync!RetryWrite, Sync!world
<1>3. ASSUME Sync!Tick PROVE UNCHANGED <<bindings, provider>>
  BY <1>3 DEF Sync!Tick
<1>4. ASSUME NEW r \in Records, Sync!CreateRecord(r)
      PROVE  UNCHANGED <<bindings, provider>>
  BY <1>4 DEF Sync!CreateRecord
<1>5. ASSUME NEW b \in Bindings, Sync!ReachabilityChanges(b)
      PROVE  UNCHANGED <<bindings, provider>>
  BY <1>5 DEF Sync!ReachabilityChanges
<1>6. QED
  BY <1>1, <1>2, <1>3, <1>4, <1>5 DEF SyncStep, applyOnly, Apply!vars

LEMMA SyncFailsLeavesApply == SyncFails => UNCHANGED Apply!vars
  BY DEF SyncFails, Sync!ObserveWriteFails, Sync!ObserveReadFails,
         Sync!RetryReadFails, Sync!RetryWriteFails, Sync!world, applyOnly, Apply!vars

LEMMA RestartIsCrash ==
    ASSUME NEW w \in Workers, Restart(w)
    PROVE  Apply!Crash(w) \/ UNCHANGED Apply!vars
  BY DEF Restart, Sync!Restart, Sync!world, applyOnly, Apply!vars

LEMMA ApplyNext == [Next]_vars => [Apply!Next]_(Apply!vars)
<1> SUFFICES ASSUME [Next]_vars PROVE [Apply!Next]_(Apply!vars)
  OBVIOUS
<1>1. ASSUME NEW c \in Changesets, NEW r \in Requests, CreateChangeset(c, r)
      PROVE  Apply!Next
  BY <1>1 DEF CreateChangeset, Apply!Next, Apply!Api
<1>2. CASE Validate
  BY <1>2 DEF Validate, Apply!Next, Apply!Api
<1>3. ASSUME NEW b \in Bindings, CreateProvider(b) PROVE Apply!Next
  BY <1>3 DEF CreateProvider, Apply!Next, Apply!Api
<1>4. ASSUME NEW w \in Workers, ApplyLoop(w) PROVE Apply!Next
  BY <1>4 DEF ApplyLoop, Apply!Next
<1>5. ASSUME NEW w \in Workers, ApplyFails(w) PROVE Apply!Next
  BY <1>5 DEF ApplyFails, Apply!Next, Apply!FaultStep
<1>6. ASSUME NEW w \in Workers, Restart(w) PROVE [Apply!Next]_(Apply!vars)
  BY <1>6, RestartIsCrash DEF Apply!Next, Apply!FaultStep
<1>7. CASE SyncStep \/ SyncFails
  BY <1>7, SyncStepLeavesApply, SyncFailsLeavesApply
<1>8. CASE UNCHANGED vars
  BY <1>8 DEF vars, applyOnly, Apply!vars
<1>9. QED
  BY <1>1, <1>2, <1>3, <1>4, <1>5, <1>6, <1>7, <1>8 DEF Next

\* The whole worker implements ApplyWorker: the zones change through
\* changesets only, and the two other loops never get in their way.
THEOREM ImplementsApplyHolds == Spec => ImplementsApply
<1>1. Init => Apply!Init
  BY DEF Init
<1>2. QED
  BY <1>1, ApplyNext, PTL DEF Spec, ImplementsApply, Apply!Spec

-----------------------------------------------------------------------------
(* The observe and retry loops.                                            *)

\* What a changeset does to a zone is to change one of its record sets.
OneRecordSet(before, after) ==
    \E k \in Keys, v \in Values \union {Absent} : after = [before EXCEPT ![k] = v]

LEMMA WrittenIsOneRecordSet ==
    ASSUME NEW it \in Apply!Item, NEW zone,
           Apply!Parses(it), Apply!Writable(it)
    PROVE  OneRecordSet(zone, Apply!Written(it, zone))
<1>1. CASE it.op = "delete"
  <2>1. it.before \in [key : Keys, val : Values]
    BY <1>1 DEF Apply!Item, Apply!Snapshots, Apply!Parses, Apply!Writable
  <2>2. Apply!Written(it, zone) = [zone EXCEPT ![it.before.key] = Absent]
    BY <1>1 DEF Apply!Written
  <2>3. QED
    BY <2>1, <2>2 DEF OneRecordSet
<1>2. CASE it.op # "delete"
  <2>1. it.after \in [key : Keys, val : Values]
    BY <1>2 DEF Apply!Item, Apply!Snapshots, Apply!Parses, Apply!Writable
  <2>2. Apply!Written(it, zone) = [zone EXCEPT ![it.after.key] = it.after.val]
    BY <1>2 DEF Apply!Written
  <2>3. QED
    BY <2>1, <2>2 DEF OneRecordSet
<1>3. QED
  BY <1>1, <1>2

LEMMA UndoneIsOneRecordSet ==
    ASSUME NEW it \in Apply!Item, NEW zone,
           Apply!Parses(it), Apply!Writable(it)
    PROVE  Apply!Undone(it, zone) = zone \/ OneRecordSet(zone, Apply!Undone(it, zone))
<1>1. CASE it.op = "create"
  <2>1. it.after \in [key : Keys, val : Values]
    BY <1>1 DEF Apply!Item, Apply!Snapshots, Apply!Parses, Apply!Writable
  <2>2. Apply!Undone(it, zone) = [zone EXCEPT ![it.after.key] = Absent]
    BY <1>1 DEF Apply!Undone
  <2>3. QED
    BY <2>1, <2>2 DEF OneRecordSet
<1>2. CASE it.op # "create" /\ it.before = NULL
  BY <1>2 DEF Apply!Undone
<1>3. CASE it.op # "create" /\ it.before # NULL
  <2>1. it.before \in [key : Keys, val : Values]
    BY <1>3 DEF Apply!Item, Apply!Snapshots, Apply!Parses
  <2>2. Apply!Undone(it, zone) = [zone EXCEPT ![it.before.key] = it.before.val]
    BY <1>3 DEF Apply!Undone
  <2>3. QED
    BY <2>1, <2>2 DEF OneRecordSet
<1>4. QED
  BY <1>1, <1>2, <1>3

\* The item under work can be written, or undone.
LEMMA PushedItem ==
    ASSUME Apply!IInv, NEW w \in Workers, worker[w].pc = "push",
           Apply!Writable(Apply!CurrentItem(w))
    PROVE  Apply!CurrentItem(w) \in Apply!Item /\ Apply!Parses(Apply!CurrentItem(w))
<1>1. Apply!CurrentItem(w) \in Apply!Item
  BY PartsAssumption, Apply!CurrentItemType
<1>2. Apply!Parses(Apply!CurrentItem(w))
  BY DEF Apply!IInv, Apply!WorkersOK, Apply!WorkerOK, Apply!Readable, Apply!Holding,
         Apply!Applying, Apply!CurrentItem, Apply!ItemsOf
<1>3. QED
  BY <1>1, <1>2

LEMMA RestoredItem ==
    ASSUME Apply!IInv, NEW w \in Workers, worker[w].pc = "restore"
    PROVE  /\ Apply!CurrentItem(w) \in Apply!Item
           /\ Apply!Parses(Apply!CurrentItem(w)) /\ Apply!Writable(Apply!CurrentItem(w))
<1>1. Apply!CurrentItem(w) \in Apply!Item
  BY PartsAssumption, Apply!CurrentItemType
<1>2. worker[w].item \in 1 .. worker[w].applied
  BY DEF Apply!IInv, Apply!WorkersOK, Apply!WorkerOK, Apply!InRange, Apply!Holding,
         Apply!RollingBack
<1>3. \A i \in 1 .. worker[w].applied :
         /\ Apply!Parses(Apply!ItemsOf(worker[w].cs)[i])
         /\ Apply!Writable(Apply!ItemsOf(worker[w].cs)[i])
  BY DEF Apply!IInv, Apply!WorkersOK, Apply!WorkerOK, Apply!Readable, Apply!Holding,
         Apply!RollingBack, Apply!ItemsOf
<1>4. QED
  BY <1>1, <1>2, <1>3 DEF Apply!CurrentItem

\* What a step of the apply loop does to the zones.
ZonesStep ==
    \/ UNCHANGED provider
    \/ \E b \in Bindings, k \in Keys, v \in Values \union {Absent} :
          provider' = [provider EXCEPT ![b][k] = v]

LEMMA PushStep ==
    ASSUME Apply!IInv, NEW w \in Workers, NEW b \in Bindings,
           Apply!Push(w, b) \/ Apply!PushLandsAndFails(w, b)
    PROVE  UNCHANGED bindings /\ ZonesStep
<1>1. /\ worker[w].pc = "push" /\ Apply!Writable(Apply!CurrentItem(w))
      /\ provider' = [provider EXCEPT ![b] = Apply!Written(Apply!CurrentItem(w), @)]
      /\ UNCHANGED bindings
  BY DEF Apply!Push, Apply!PushLandsAndFails, Apply!Land, Apply!db
<1>2. OneRecordSet(provider[b], Apply!Written(Apply!CurrentItem(w), provider[b]))
  BY <1>1, PushedItem, WrittenIsOneRecordSet
<1>3. PICK k \in Keys, v \in Values \union {Absent} :
         Apply!Written(Apply!CurrentItem(w), provider[b]) = [provider[b] EXCEPT ![k] = v]
  BY <1>2 DEF OneRecordSet
<1>4. provider' = [provider EXCEPT ![b][k] = v]
  BY <1>1, <1>3
<1>5. QED
  BY <1>1, <1>4 DEF ZonesStep

LEMMA RestoreStep ==
    ASSUME Apply!IInv, NEW w \in Workers, NEW b \in Bindings,
           Apply!Restore(w, b) \/ Apply!RestoreLandsAndFails(w, b)
    PROVE  UNCHANGED bindings /\ ZonesStep
<1>1. /\ worker[w].pc = "restore"
      /\ provider' = [provider EXCEPT ![b] = Apply!Undone(Apply!CurrentItem(w), @)]
      /\ UNCHANGED bindings
  BY DEF Apply!Restore, Apply!RestoreLandsAndFails, Apply!db
<1>2. CASE Apply!Undone(Apply!CurrentItem(w), provider[b]) = provider[b]
  <2>1. provider \in [Bindings -> Apply!Contents]
    BY DEF Apply!IInv, Apply!TypeOK
  <2>2. provider' = provider
    BY <1>1, <1>2, <2>1
  <2>3. QED
    BY <1>1, <2>2 DEF ZonesStep
<1>3. CASE OneRecordSet(provider[b], Apply!Undone(Apply!CurrentItem(w), provider[b]))
  <2>1. PICK k \in Keys, v \in Values \union {Absent} :
           Apply!Undone(Apply!CurrentItem(w), provider[b]) = [provider[b] EXCEPT ![k] = v]
    BY <1>3 DEF OneRecordSet
  <2>2. provider' = [provider EXCEPT ![b][k] = v]
    BY <1>1, <2>1
  <2>3. QED
    BY <1>1, <2>2 DEF ZonesStep
<1>4. QED
  BY <1>1, <1>2, <1>3, RestoredItem, UndoneIsOneRecordSet

LEMMA ApplyLoopStep ==
    ASSUME Apply!IInv, NEW w \in Workers, ApplyLoop(w) \/ ApplyFails(w)
    PROVE  UNCHANGED bindings /\ ZonesStep
<1>1. CASE \E b \in Bindings : Apply!Push(w, b) \/ Apply!PushLandsAndFails(w, b)
  BY <1>1, PushStep
<1>2. CASE \E b \in Bindings : Apply!Restore(w, b) \/ Apply!RestoreLandsAndFails(w, b)
  BY <1>2, RestoreStep
<1>3. CASE \E c \in Changesets :
              Apply!Claim(w, c) \/ Apply!Lost(w, c) \/ Apply!ClaimFails(w, c)
  BY <1>3 DEF Apply!Claim, Apply!Lost, Apply!ClaimFails, Apply!db, Apply!Local, ZonesStep
<1>4. CASE \/ Apply!Poll(w) \/ Apply!Load(w) \/ Apply!StartItem(w) \/ Apply!Refuse(w)
           \/ Apply!ItemDone(w) \/ Apply!StartUndo(w) \/ Apply!UndoDone(w)
  BY <1>4 DEF Apply!Poll, Apply!Load, Apply!StartItem, Apply!Refuse, Apply!ItemDone,
              Apply!StartUndo, Apply!UndoDone, Apply!Local, Apply!db, ZonesStep
<1>5. CASE \/ Apply!Commit(w) \/ Apply!Freeze(w) \/ Apply!BeginRollback(w)
           \/ Apply!CloseRolledBack(w) \/ Apply!CloseRollbackFailed(w)
  BY <1>5 DEF Apply!Commit, Apply!Freeze, Apply!BeginRollback, Apply!CloseRolledBack,
              Apply!CloseRollbackFailed, Apply!Close, ZonesStep
<1>6. CASE Apply!Abandon(w) \/ Apply!ItemFails(w) \/ Apply!UndoFails(w)
  BY <1>6 DEF Apply!Abandon, Apply!ItemFails, Apply!UndoFails, Apply!db, ZonesStep
<1>7. QED
  BY <1>1, <1>2, <1>3, <1>4, <1>5, <1>6 DEF ApplyLoop, ApplyFails, Apply!WorkerStep

\* changedAt has a time for each key of each binding.
Stamped == changedAt = [b \in Bindings |-> [k \in Keys |-> changedAt[b][k]]]

\* A step of the apply loop is a change of one record set, or nothing, to the
\* two other loops.
LEMMA StampedStep ==
    ASSUME Apply!IInv, Stamped, NEW w \in Workers, ApplyLoop(w) \/ ApplyFails(w)
    PROVE  Sync!Next \/ UNCHANGED Sync!vars
<1>1. UNCHANGED bindings /\ ZonesStep
  BY ApplyLoopStep
<1>2. /\ UNCHANGED syncOnly
      /\ changedAt' = [b \in Bindings |-> [k \in Keys |->
                          IF provider'[b][k] # provider[b][k] THEN clock
                                                              ELSE changedAt[b][k]]]
  BY DEF ApplyLoop, ApplyFails, Stamps
<1>3. provider \in [Bindings -> [Keys -> Values \union {Absent}]]
  BY DEF Apply!IInv, Apply!TypeOK, Apply!Contents
<1>4. CASE UNCHANGED provider
  <2>1. changedAt' = changedAt
    BY <1>2, <1>4 DEF Stamped
  <2>2. QED
    BY <1>1, <1>2, <1>4, <2>1 DEF syncOnly, Sync!vars
<1>5. ASSUME NEW b \in Bindings, NEW k \in Keys, NEW v \in Values \union {Absent},
             provider' = [provider EXCEPT ![b][k] = v], provider[b][k] # v
      PROVE  Sync!Next
  <2>1. \A a \in Bindings, j \in Keys :
           provider'[a][j] = IF a = b /\ j = k THEN v ELSE provider[a][j]
    BY <1>3, <1>5
  <2>2. changedAt' = [a \in Bindings |-> [j \in Keys |->
                        IF a = b /\ j = k THEN clock ELSE changedAt[a][j]]]
    BY <1>2, <1>5, <2>1
  <2>3. changedAt' = [changedAt EXCEPT ![b][k] = clock]
    BY <2>2 DEF Stamped
  <2>4. Sync!ProviderChanges(b, k, v)
    BY <1>1, <1>2, <1>5, <2>3 DEF Sync!ProviderChanges, Sync!loops, syncOnly
  <2>5. QED
    BY <2>4 DEF Sync!Next, Sync!World
<1>6. ASSUME NEW b \in Bindings, NEW k \in Keys, NEW v \in Values \union {Absent},
             provider' = [provider EXCEPT ![b][k] = v], provider[b][k] = v
      PROVE  UNCHANGED provider
  BY <1>3, <1>6
<1>7. QED
  BY <1>1, <1>4, <1>5, <1>6 DEF ZonesStep

\* What only the API writes.
LEMMA ApiLeavesZones ==
    ASSUME Validate \/ \E c \in Changesets, r \in Requests : CreateChangeset(c, r)
    PROVE  UNCHANGED Sync!vars
  BY DEF Validate, CreateChangeset, Apply!CreateChangeset, Apply!ValidateRead,
         Apply!ValidateWrite, Apply!ValidateAbort, Apply!db, syncOnly, Sync!vars

LEMMA SyncNext == Apply!IInv /\ Stamped /\ [Next]_vars => [Sync!Next]_(Sync!vars)
<1> SUFFICES ASSUME Apply!IInv, Stamped, [Next]_vars PROVE [Sync!Next]_(Sync!vars)
  OBVIOUS
<1>1. CASE Validate \/ \E c \in Changesets, r \in Requests : CreateChangeset(c, r)
  BY <1>1, ApiLeavesZones
<1>2. ASSUME NEW b \in Bindings, CreateProvider(b) PROVE Sync!Next
  <2>1. Sync!CreateProvider(b)
    BY <1>2 DEF CreateProvider, Apply!CreateProvider, Sync!CreateProvider, Sync!loops,
                syncOnly
  <2>2. QED
    BY <2>1 DEF Sync!Next, Sync!World
<1>3. ASSUME NEW w \in Workers, ApplyLoop(w) \/ ApplyFails(w)
      PROVE  [Sync!Next]_(Sync!vars)
  BY <1>3, StampedStep
<1>4. ASSUME NEW w \in Workers, Restart(w) PROVE Sync!Next
  BY <1>4 DEF Restart, Sync!Next, Sync!Faults
<1>5. CASE SyncStep \/ SyncFails
  BY <1>5 DEF SyncStep, SyncFails, Sync!Next, Sync!World, Sync!Faults
<1>6. CASE UNCHANGED vars
  BY <1>6 DEF vars, syncOnly, Sync!vars
<1>7. QED
  BY <1>1, <1>2, <1>3, <1>4, <1>5, <1>6 DEF Next

LEMMA StampedKept == Stamped /\ [Next]_vars => Stamped'
<1> SUFFICES ASSUME Stamped, [Next]_vars PROVE Stamped'
  OBVIOUS
<1>1. ASSUME NEW w \in Workers, ApplyLoop(w) \/ ApplyFails(w) PROVE Stamped'
  BY <1>1 DEF ApplyLoop, ApplyFails, Stamps, Stamped
<1>2. CASE SyncStep \/ SyncFails \/ \E w \in Workers : Restart(w)
  <2>1. UNCHANGED changedAt
    BY <1>2 DEF SyncStep, SyncFails, Restart, Sync!Restart, Sync!Observe, Sync!Retry,
       Sync!Tick, Sync!CreateRecord, Sync!ReachabilityChanges, Sync!ObserveTick,
       Sync!ObserveList, Sync!ObserveBinding, Sync!ObserveWrite, Sync!RetryTick,
       Sync!RetryList, Sync!RetryBinding, Sync!RetryWrite, Sync!ObserveWriteFails,
       Sync!ObserveReadFails, Sync!RetryReadFails, Sync!RetryWriteFails, Sync!world
  <2>2. QED
    BY <2>1 DEF Stamped
<1>3. CASE \/ Validate \/ UNCHANGED vars
           \/ \E c \in Changesets, r \in Requests : CreateChangeset(c, r)
           \/ \E b \in Bindings : CreateProvider(b)
  BY <1>3 DEF Validate, CreateChangeset, CreateProvider, vars, Stamped
<1>4. QED
  BY <1>1, <1>2, <1>3 DEF Next

\* The whole worker implements SyncLoops: every step of the apply loop and of
\* its rollbacks changes at most one record set of one binding, as anybody
\* else might do.
THEOREM ImplementsSyncHolds == Spec => ImplementsSync
<1>1. Init => Sync!Init /\ Stamped
  BY DEF Init, Sync!Init, Stamped
<1>2. Apply!Spec => []Apply!IInv
  BY PartsAssumption, Apply!Inductive
<1>3. QED
  BY <1>1, <1>2, SyncNext, StampedKept, ImplementsApplyHolds, PTL
     DEF Spec, ImplementsApply, ImplementsSync, Sync!Spec

\* So the loops keep side by side what each of them keeps alone.
THEOREM TogetherSafe ==
    Spec => [](/\ Apply!SingleHolder /\ Apply!AtMostOnce
               /\ Apply!AppliedReachesKnown /\ Apply!OrphansAreAbandoned
               /\ Sync!StaleIsExplained /\ Sync!NoLostFailure)
<1>1. Apply!Spec => []Apply!SingleHolder
  BY PartsAssumption, Apply!SingleHolderHolds
<1>2. Apply!Spec => []Apply!AtMostOnce
  BY PartsAssumption, Apply!AtMostOnceHolds
<1>3. Apply!Spec => []Apply!AppliedReachesKnown
  BY PartsAssumption, Apply!AppliedReachesKnownHolds
<1>4. Apply!Spec => []Apply!OrphansAreAbandoned
  BY PartsAssumption, Apply!OrphansAreAbandonedHolds
<1>5. Sync!Spec => []Sync!StaleIsExplained
  BY PartsAssumption, Sync!StaleIsExplainedHolds
<1>6. Sync!Spec => []Sync!NoLostFailure
  BY PartsAssumption, Sync!NoLostFailureHolds
<1>7. QED
  BY <1>1, <1>2, <1>3, <1>4, <1>5, <1>6, ImplementsApplyHolds, ImplementsSyncHolds, PTL
     DEF ImplementsApply, ImplementsSync

\* With one worker, the two other loops do not touch what it writes either:
\* "applied" is written on what the items say, and "rolled_back" on what was
\* there at the claim.
THEOREM TogetherAsWritten ==
    ASSUME Apply!OneWorker
    PROVE  Spec => [](Apply!AppliedAsWritten /\ Apply!RollbackReverts)
<1>1. Apply!Spec => []Apply!AppliedAsWritten
  BY PartsAssumption, Apply!OneWorker, Apply!AppliedAsWrittenHolds
<1>2. Apply!Spec => []Apply!RollbackReverts
  BY PartsAssumption, Apply!OneWorker, Apply!RollbackRevertsHolds
<1>3. QED
  BY <1>1, <1>2, ImplementsApplyHolds, PTL DEF ImplementsApply

=============================================================================
