------------------------ MODULE ApplyDeliveryProofs ------------------------
(***************************************************************************)
(* Theorems about what ApplyWorker writes to the providers, and how often, *)
(* and about who is left with an unfinished changeset.                     *)
(***************************************************************************)
EXTENDS ApplyWorkerProofs

\* Nothing is written for a changeset nobody has claimed.
UnclaimedIsUnsent ==
    \A c \in Changesets :
        status[c] \in {"absent", "draft", "validated"} => sent[c] = {}

KnownIsActive == \A c \in Changesets : known[c] \subseteq bindings

\* S, the writes of a changeset held in state W, contains every write of the
\* applied items to the known bindings K, and of the current item to those
\* the loop has passed.
Complete(W, items, S, K) ==
    /\ W.pc \in Applying =>
          \A i \in 1 .. W.applied, b \in K : InZone(b, items[i]) => <<i, b>> \in S
    /\ W.pc = "push" =>
          \A b \in K : InZone(b, items[W.item]) => b \in W.todo \/ <<W.item, b>> \in S

\* S contains no write that is still to come.
NotAhead(W, S) ==
    W.pc \in {"load", "item", "push"} =>
        \A write \in S :
            \/ write[1] <= W.applied
            \/ W.pc = "push" /\ write[1] = W.item /\ write[2] \notin W.todo

Progress(W, items, S, K) == Complete(W, items, S, K) /\ NotAhead(W, S)

WorkersProgress ==
    \A w \in Workers :
        worker[w].pc \in Holding =>
            Progress(worker[w], request[worker[w].cs].items,
                     sent[worker[w].cs], known[worker[w].cs])

DInv == /\ UnclaimedIsUnsent
        /\ KnownIsActive
        /\ WorkersProgress
        /\ AppliedReachesKnown
        /\ AtMostOnce
        /\ OrphansAreAbandoned

-----------------------------------------------------------------------------
(* The variables a step may change.                                        *)

\* A write lands: worker w is in the loop over bindings and passes b.
Lands(w, b) == /\ worker[w].pc = "push"
               /\ b \in worker[w].todo
               /\ b \notin worker'[w].todo
               /\ Land(w, b)

LEMMA SentSteps ==
    ASSUME IInv, [Next]_vars
    PROVE  UNCHANGED <<sent, again>> \/ \E w \in Workers, b \in Bindings : Lands(w, b)
<1>1. CASE Api \/ UNCHANGED vars
  BY <1>1 DEF Api, CreateChangeset, ValidateRead, ValidateWrite, ValidateAbort,
              CreateProvider, history, vars
<1>2. ASSUME NEW w \in Workers, WorkerStep(w)
      PROVE  UNCHANGED <<sent, again>> \/ \E b \in Bindings : Lands(w, b)
  <2>1. ASSUME NEW b \in Bindings, Push(w, b)
        PROVE  Lands(w, b)
    BY <2>1 DEF Push, Lands, IInv, TypeOK, WorkerState
  <2>2. CASE ~ \E b \in Bindings : Push(w, b)
    BY <1>2, <2>2 DEF WorkerStep, Poll, Load, StartItem, Refuse, ItemDone, Commit, Freeze,
       BeginRollback, StartUndo, UndoDone, CloseRolledBack, CloseRollbackFailed, Close,
       Claim, Lost, Restore, Local, history
  <2> QED BY <2>1, <2>2
<1>3. ASSUME NEW w \in Workers, FaultStep(w)
      PROVE  UNCHANGED <<sent, again>> \/ \E b \in Bindings : Lands(w, b)
  <2>1. ASSUME NEW b \in Bindings, PushLandsAndFails(w, b)
        PROVE  Lands(w, b)
    BY <2>1 DEF PushLandsAndFails, Lands, IInv, TypeOK, WorkerState
  <2>2. CASE ~ \E b \in Bindings : PushLandsAndFails(w, b)
    BY <1>3, <2>2 DEF FaultStep, Abandon, ItemFails, UndoFails, Crash, ClaimFails,
       RestoreLandsAndFails, history
  <2> QED BY <2>1, <2>2
<1> QED BY <1>1, <1>2, <1>3 DEF Next

LEMMA KnownSteps ==
    ASSUME IInv, [Next]_vars
    PROVE  UNCHANGED known \/ \E w \in Workers, c \in Changesets : Claim(w, c)
<1>1. CASE Api \/ UNCHANGED vars
  BY <1>1 DEF Api, CreateChangeset, ValidateRead, ValidateWrite, ValidateAbort,
              CreateProvider, history, vars
<1>2. ASSUME NEW w \in Workers, WorkerStep(w)
      PROVE  UNCHANGED known \/ \E c \in Changesets : Claim(w, c)
  BY <1>2 DEF WorkerStep, Poll, Load, StartItem, Refuse, ItemDone, Commit, Freeze,
     BeginRollback, StartUndo, UndoDone, CloseRolledBack, CloseRollbackFailed, Close,
     Lost, Push, Land, Restore, Local, history
<1>3. ASSUME NEW w \in Workers, FaultStep(w)
      PROVE  UNCHANGED known
  BY <1>3 DEF FaultStep, Abandon, ItemFails, UndoFails, Crash, ClaimFails,
     PushLandsAndFails, Land, RestoreLandsAndFails, history
<1> QED BY <1>1, <1>2, <1>3 DEF Next

\* A held changeset is "applying" or "rolling_back", and has one holder.
LEMMA HeldStatus ==
    ASSUME IInv, NEW w \in Workers, worker[w].pc \in Holding
    PROVE  /\ status[worker[w].cs] \in {"applying", "rolling_back"}
           /\ \A u \in Workers :
                 worker[u].pc \in Holding /\ worker[u].cs = worker[w].cs => u = w
BY HeldType DEF IInv, SingleHolder, Holds, Expected, Holding, Applying, RollingBack

\* A step in which w does not move adds nothing to the history of what it holds.
LEMMA HistoryUnmoved ==
    ASSUME IInv, [Next]_vars, NEW w \in Workers, worker[w].pc \in Holding,
           worker'[w] = worker[w]
    PROVE  /\ sent'[worker[w].cs] = sent[worker[w].cs]
           /\ known'[worker[w].cs] = known[worker[w].cs]
<1> DEFINE c == worker[w].cs
<1>1. c \in Changesets
  BY HeldType
<1>2. sent'[c] = sent[c]
  <2>1. ASSUME NEW u \in Workers, NEW b \in Bindings, Lands(u, b), u # w
        PROVE  sent'[c] = sent[c]
    <3>1. worker[u].cs # c /\ worker[u].cs \in Changesets
      BY <2>1, HeldStatus, HeldType DEF Lands, Holding, Applying
    <3> QED BY <1>1, <2>1, <3>1 DEF Lands, Land, IInv, TypeOK
  <2>2. \A b \in Bindings : ~ Lands(w, b)
    BY DEF Lands
  <2> QED BY <2>1, <2>2, SentSteps
<1>3. known'[c] = known[c]
  <2>1. ASSUME NEW u \in Workers, NEW d \in Changesets, Claim(u, d)
        PROVE  known'[c] = known[c]
    <3>1. d # c
      BY <2>1, HeldStatus DEF Claim, UpdateStatus
    <3> QED BY <1>1, <2>1, <3>1 DEF Claim, IInv, TypeOK
  <2> QED BY <2>1, KnownSteps
<1> QED BY <1>2, <1>3

-----------------------------------------------------------------------------
(* Writes of unclaimed changesets; known bindings.                         *)

\* No step moves a changeset back to where it is not claimed.
LEMMA StaysClaimed ==
    ASSUME IInv, [Next]_vars, NEW c \in Changesets,
           status'[c] \in {"absent", "draft", "validated"}
    PROVE  status[c] \in {"absent", "draft", "validated"}
<1>1. RowStep
  BY RowSteps
<1> QED BY <1>1 DEF RowStep, InsertsDraft, MovesOne, CanTransition, IInv, TypeOK

LEMMA UnsentStep == IInv /\ DInv /\ [Next]_vars => UnclaimedIsUnsent'
<1> SUFFICES ASSUME IInv, DInv, [Next]_vars, NEW c \in Changesets,
                    status'[c] \in {"absent", "draft", "validated"}
             PROVE  sent'[c] = {}
  BY DEF UnclaimedIsUnsent
<1>1. status[c] \in {"absent", "draft", "validated"} /\ sent[c] = {}
  BY StaysClaimed DEF DInv, UnclaimedIsUnsent
<1>2. ASSUME NEW w \in Workers, NEW b \in Bindings, Lands(w, b)
      PROVE  sent'[c] = sent[c]
  <2>1. worker[w].cs # c /\ worker[w].cs \in Changesets
    BY <1>1, <1>2, HeldStatus, HeldType DEF Lands, Holding, Applying
  <2> QED BY <1>2, <2>1 DEF Lands, Land, IInv, TypeOK
<1> QED BY <1>1, <1>2, SentSteps

LEMMA KnownStep == IInv /\ DInv /\ [Next]_vars => KnownIsActive'
<1> SUFFICES ASSUME IInv, DInv, [Next]_vars PROVE KnownIsActive'
  OBVIOUS
<1>1. bindings \subseteq bindings'
  <2>1. CASE Api \/ UNCHANGED vars
    BY <2>1 DEF Api, CreateChangeset, ValidateRead, ValidateWrite, ValidateAbort,
                CreateProvider, db, vars
  <2>2. ASSUME NEW w \in Workers, WorkerStep(w)
        PROVE  bindings' = bindings
    BY <2>2 DEF WorkerStep, Poll, Load, StartItem, Refuse, ItemDone, Commit, Freeze,
       BeginRollback, StartUndo, UndoDone, CloseRolledBack, CloseRollbackFailed, Close,
       Claim, Lost, Push, Land, Restore, Local, db
  <2>3. ASSUME NEW w \in Workers, FaultStep(w)
        PROVE  bindings' = bindings
    BY <2>3 DEF FaultStep, Abandon, ItemFails, UndoFails, Crash, ClaimFails,
       PushLandsAndFails, Land, RestoreLandsAndFails, db
  <2> QED BY <2>1, <2>2, <2>3 DEF Next
<1>2. ASSUME NEW w \in Workers, NEW c \in Changesets, Claim(w, c)
      PROVE  KnownIsActive'
  BY <1>1, <1>2 DEF Claim, DInv, KnownIsActive, IInv, TypeOK
<1> QED BY <1>1, <1>2, KnownSteps DEF DInv, KnownIsActive

-----------------------------------------------------------------------------
(* Progress of a changeset from its claim to "applied".                    *)

\* Before a write lands, S has neither it nor a later one.
LEMMA NotSentBefore ==
    ASSUME IInv, DInv, NEW w \in Workers, NEW b \in Bindings, Lands(w, b)
    PROVE  <<worker[w].item, b>> \notin sent[worker[w].cs]
<1> DEFINE W == worker[w]
<1>1. W.pc = "push" /\ W.pc \in Holding /\ b \in W.todo
  BY DEF Lands, Holding, Applying
<1>2. W.item = W.applied + 1 /\ W.applied \in Nat
  BY <1>1 DEF IInv, TypeOK, WorkersOK, WorkerOK, InRange, WorkerState
<1>3. NotAhead(W, sent[W.cs])
  BY <1>1 DEF DInv, WorkersProgress, Progress
<1> QED BY <1>1, <1>2, <1>3 DEF NotAhead

LEMMA OnceStep == IInv /\ DInv /\ [Next]_vars => AtMostOnce'
<1> SUFFICES ASSUME IInv, DInv, [Next]_vars PROVE AtMostOnce'
  OBVIOUS
<1>1. ASSUME NEW w \in Workers, NEW b \in Bindings, Lands(w, b)
      PROVE  again' = again
  BY <1>1, NotSentBefore DEF Lands, Land
<1> QED BY <1>1, SentSteps DEF DInv, AtMostOnce

LEMMA ProgressStep == IInv /\ DInv /\ [Next]_vars => WorkersProgress'
<1> SUFFICES ASSUME IInv, DInv, [Next]_vars,
                    NEW w \in Workers, worker'[w].pc \in Holding
             PROVE  Progress(worker'[w], request'[worker'[w].cs].items,
                             sent'[worker'[w].cs], known'[worker'[w].cs])
  BY DEF WorkersProgress, Holding, Applying, RollingBack
<1> DEFINE W == worker[w]
           c == W.cs
           items == request[c].items
           S == sent[c]
           K == known[c]
           Goal == Progress(worker'[w], request'[worker'[w].cs].items,
                            sent'[worker'[w].cs], known'[worker'[w].cs])
<1>0. W \in WorkerState /\ WorkerOK(W, items) /\ (W.pc \in Holding => Progress(W, items, S, K))
  BY DEF IInv, TypeOK, WorkersOK, DInv, WorkersProgress
<1>1. CASE worker'[w] = W
  BY <1>0, <1>1, HeldRequest, HistoryUnmoved
\* Within a changeset the items and the known bindings stay as they are.
<1>2. ASSUME W.pc \in Holding, worker'[w].cs = c, UNCHANGED <<request, known>>,
             Progress(worker'[w], items, sent'[c], K)
      PROVE  Goal
  BY <1>2
<1>3. CASE Claim(w, worker'[w].cs) /\ worker'[w].cs \in Changesets
  <2> DEFINE d == worker'[w].cs
  <2>1. worker'[w].pc = "load" /\ worker'[w].applied = 0
    BY <1>0, <1>3 DEF Claim, WorkerOK, Idle, WorkerState, IInv, TypeOK
  <2>2. sent'[d] = {}
    BY <1>3 DEF Claim, UpdateStatus, DInv, UnclaimedIsUnsent
  <2> QED BY <2>1, <2>2 DEF Progress, Complete, NotAhead
\* Nothing is promised of a changeset that has failed or is rolled back,
\* beyond the items that are applied.
<1>4. ASSUME worker'[w].pc \in RollingBack
      PROVE  Goal
  BY <1>4 DEF Progress, Complete, NotAhead, Applying, RollingBack
<1>5. CASE WorkerStep(w)
  <2>1. CASE Poll(w) \/ Commit(w) \/ Freeze(w) \/ CloseRolledBack(w)
             \/ CloseRollbackFailed(w) \/ \E d \in Changesets : Lost(w, d)
    <3>1. PICK rows : worker' = [worker EXCEPT ![w] = Return(rows)]
      BY <2>1 DEF Poll, Lost, Commit, Freeze, CloseRolledBack, CloseRollbackFailed, Close
    <3>2. worker'[w].pc \notin Holding
      BY <3>1 DEF Return, Holding, Applying, RollingBack, IInv, TypeOK
    <3> QED BY <3>2
  <2>2. CASE \E d \in Changesets : Claim(w, d)
    <3>1. PICK d \in Changesets : Claim(w, d)
      BY <2>2
    <3>2. worker'[w].cs = d
      BY <1>0, <3>1 DEF Claim, WorkerState, IInv, TypeOK
    <3> QED BY <1>3, <3>1, <3>2
  <2>3. CASE BeginRollback(w) \/ StartUndo(w) \/ UndoDone(w)
             \/ \E b \in Bindings : Restore(w, b)
    <3>1. worker'[w].pc \in RollingBack
      BY <1>0, <2>3 DEF BeginRollback, StartUndo, UndoDone, UndoFrom, Restore, RollingBack,
         WorkerState, IInv, TypeOK
    <3> QED BY <1>4, <3>1
  <2>4. CASE Load(w) \/ StartItem(w) \/ Refuse(w) \/ ItemDone(w)
    <3>1. UNCHANGED <<request, known, sent>> /\ W.pc \in Holding /\ worker'[w].cs = c
      BY <1>0, <2>4 DEF Load, StartItem, Refuse, ItemDone, Local, db, history, Holding,
         Applying, WorkerState, IInv, TypeOK
    <3>2. CASE Load(w)
      <4>1. /\ W.pc = "load" /\ worker'[w].pc = "item"
            /\ worker'[w].applied = W.applied
        BY <1>0, <3>2 DEF Load, WorkerState, IInv, TypeOK
      <4>2. Progress(worker'[w], items, S, K)
        BY <1>0, <3>1, <4>1 DEF Progress, Complete, NotAhead, Applying
      <4> QED BY <1>2, <3>1, <4>2
    <3>3. CASE StartItem(w)
      <4>1. /\ W.pc = "item" /\ worker'[w].pc = "push"
            /\ worker'[w].applied = W.applied /\ worker'[w].item = W.item
            /\ worker'[w].todo = Targets(items[W.item])
        BY <1>0, <3>3 DEF StartItem, WorkerState, IInv, TypeOK, CurrentItem, ItemsOf
      <4>2. \A b \in K : InZone(b, items[W.item]) => b \in Targets(items[W.item])
        BY <3>1, HeldType DEF Targets, InZone, DInv, KnownIsActive
      <4>3. Progress(worker'[w], items, S, K)
        BY <1>0, <3>1, <4>1, <4>2 DEF Progress, Complete, NotAhead, Applying
      <4> QED BY <1>2, <3>1, <4>3
    <3>4. CASE Refuse(w)
      <4>1. worker'[w].pc = "failed" /\ worker'[w].applied = W.applied /\ W.pc \in Applying
        BY <1>0, <3>4 DEF Refuse, WorkerState, IInv, TypeOK, Applying
      <4>2. Progress(worker'[w], items, S, K)
        BY <1>0, <3>1, <4>1 DEF Progress, Complete, NotAhead
      <4> QED BY <1>2, <3>1, <4>2
    <3>5. CASE ItemDone(w)
      <4>1. /\ W.pc = "push" /\ W.todo = {}
            /\ worker'[w].pc \in {"item", "commit"}
            /\ worker'[w].applied = W.applied + 1
        BY <1>0, <3>5 DEF ItemDone, AfterItem, WorkerState, IInv, TypeOK
      <4>2. W.item = W.applied + 1 /\ W.applied \in Nat
        BY <1>0, <3>1, <4>1 DEF WorkerOK, InRange, WorkerState
      <4>3. \A i \in 1 .. W.applied, b \in K : InZone(b, items[i]) => <<i, b>> \in S
        BY <1>0, <3>1, <4>1 DEF Progress, Complete, Applying
      <4>4. \A b \in K : InZone(b, items[W.item]) => <<W.item, b>> \in S
        BY <1>0, <3>1, <4>1 DEF Progress, Complete
      <4>5. \A i \in 1 .. W.applied + 1, b \in K : InZone(b, items[i]) => <<i, b>> \in S
        BY <4>2, <4>3, <4>4
      <4>6. S \subseteq Nat \X Bindings
        BY <3>1, HeldType DEF IInv, TypeOK
      <4>7. \A write \in S : write[1] <= W.applied + 1
        BY <1>0, <3>1, <4>1, <4>2, <4>6 DEF Progress, NotAhead
      <4>8. Progress(worker'[w], items, S, K)
        BY <4>1, <4>5, <4>7 DEF Progress, Complete, NotAhead
      <4> QED BY <1>2, <3>1, <4>8
    <3> QED BY <2>4, <3>2, <3>3, <3>4, <3>5
  <2>5. ASSUME NEW b \in Bindings, Push(w, b)
        PROVE  Goal
    <3>1. /\ W.pc = "push" /\ W.pc \in Holding
          /\ UNCHANGED <<request, known>>
          /\ worker'[w].cs = c /\ worker'[w].pc = "push"
          /\ worker'[w].applied = W.applied /\ worker'[w].item = W.item
          /\ worker'[w].todo = W.todo \ {b}
      BY <1>0, <2>5 DEF Push, Land, db, Holding, Applying, WorkerState, IInv, TypeOK
    <3>2. sent'[c] = S \union {<<W.item, b>>}
      BY <2>5, <3>1, HeldType DEF Push, Land, IInv, TypeOK
    <3>3. Complete(worker'[w], items, sent'[c], K)
      BY <1>0, <3>1, <3>2 DEF Progress, Complete
    <3>4. NotAhead(worker'[w], sent'[c])
      BY <1>0, <3>1, <3>2 DEF Progress, NotAhead
    <3> QED BY <1>2, <3>1, <3>3, <3>4 DEF Progress
  <2> QED BY <1>5, <2>1, <2>2, <2>3, <2>4, <2>5 DEF WorkerStep
<1>6. CASE FaultStep(w)
  <2>1. CASE Abandon(w) \/ Crash(w) \/ \E d \in Changesets : ClaimFails(w, d)
    <3>1. PICK rows : worker' = [worker EXCEPT ![w] = Return(rows)]
      BY <2>1 DEF Abandon, Crash, ClaimFails
    <3>2. worker'[w].pc \notin Holding
      BY <3>1 DEF Return, Holding, Applying, RollingBack, IInv, TypeOK
    <3> QED BY <3>2
  <2>2. CASE UndoFails(w) \/ \E b \in Bindings : RestoreLandsAndFails(w, b)
    <3>1. worker'[w].pc \in RollingBack
      BY <1>0, <2>2 DEF UndoFails, RestoreLandsAndFails, RollingBack, WorkerState, IInv,
         TypeOK
    <3> QED BY <1>4, <3>1
  <2>3. CASE ItemFails(w)
    <3>1. /\ W.pc \in Applying /\ W.pc \in Holding
          /\ UNCHANGED <<request, known, sent>> /\ worker'[w].cs = c
          /\ worker'[w].pc = "failed" /\ worker'[w].applied = W.applied
      BY <1>0, <2>3 DEF ItemFails, db, history, Holding, Applying, WorkerState, IInv, TypeOK
    <3>2. Progress(worker'[w], items, S, K)
      BY <1>0, <3>1 DEF Progress, Complete, NotAhead
    <3> QED BY <1>2, <3>1, <3>2
  <2>4. ASSUME NEW b \in Bindings, PushLandsAndFails(w, b)
        PROVE  Goal
    <3>1. /\ W.pc \in Applying /\ W.pc \in Holding
          /\ UNCHANGED <<request, known>> /\ worker'[w].cs = c
          /\ worker'[w].pc = "failed" /\ worker'[w].applied = W.applied
      BY <1>0, <2>4 DEF PushLandsAndFails, Land, db, Holding, Applying, WorkerState, IInv,
         TypeOK
    <3>2. S \subseteq sent'[c]
      BY <2>4, <3>1, HeldType DEF PushLandsAndFails, Land, IInv, TypeOK
    <3>3. Progress(worker'[w], items, sent'[c], K)
      BY <1>0, <3>1, <3>2 DEF Progress, Complete, NotAhead
    <3> QED BY <1>2, <3>1, <3>3
  <2> QED BY <1>6, <2>1, <2>2, <2>3, <2>4 DEF FaultStep
<1>7. CASE Api \/ UNCHANGED vars
  <2>1. worker'[w] = W
    BY <1>7 DEF Api, CreateChangeset, ValidateRead, ValidateWrite, ValidateAbort,
                CreateProvider, vars
  <2> QED BY <1>1, <2>1
<1>8. ASSUME NEW u \in Workers, u # w, WorkerStep(u) \/ FaultStep(u)
      PROVE  Goal
  <2>1. worker'[w] = W
    BY <1>8 DEF WorkerStep, FaultStep, Poll, Load, StartItem, Refuse, ItemDone, Commit,
       Freeze, BeginRollback, StartUndo, UndoDone, CloseRolledBack, CloseRollbackFailed,
       Close, Claim, Lost, Push, Restore, Abandon, ItemFails, UndoFails, Crash, ClaimFails,
       PushLandsAndFails, RestoreLandsAndFails, IInv, TypeOK
  <2> QED BY <1>1, <2>1
<1> QED BY <1>5, <1>6, <1>7, <1>8 DEF Next

-----------------------------------------------------------------------------
(* What "applied" means.                                                   *)

\* Only Commit writes "applied".
LEMMA AppliedByCommit ==
    ASSUME IInv, [Next]_vars, NEW c \in Changesets,
           status[c] # "applied", status'[c] = "applied"
    PROVE  \E w \in Workers : Commit(w) /\ worker[w].cs = c
<1>1. CASE UNCHANGED status
  BY <1>1
<1>2. ASSUME NEW d \in Changesets, NEW r \in Requests, CreateChangeset(d, r)
      PROVE  FALSE
  BY <1>2 DEF CreateChangeset, IInv, TypeOK
<1>3. ASSUME NEW v \in Clients, ValidateWrite(v)
      PROVE  FALSE
  BY <1>3 DEF ValidateWrite, IInv, TypeOK
<1>4. ASSUME NEW d \in Changesets, NEW from, NEW to, to # "applied", UpdateStatus(d, from, to)
      PROVE  FALSE
  BY <1>4 DEF UpdateStatus, IInv, TypeOK
<1>5. ASSUME NEW w \in Workers, WorkerStep(w)
      PROVE  Commit(w) /\ worker[w].cs = c
  <2>1. CASE Commit(w)
    <3>1. worker[w].cs \in Changesets
      BY <2>1, HeldType DEF Commit, Close, Holding, Applying
    <3> QED BY <2>1, <3>1 DEF Commit, Close, UpdateStatus, IInv, TypeOK
  <2>2. ASSUME NEW pc \in Holding, NEW from, NEW to, to # "applied", Close(w, pc, from, to)
        PROVE  FALSE
    BY <1>4, <2>2, HeldType DEF Close
  <2>3. CASE Freeze(w) \/ CloseRolledBack(w) \/ CloseRollbackFailed(w)
    BY <2>2, <2>3 DEF Freeze, CloseRolledBack, CloseRollbackFailed, Holding, Applying,
                      RollingBack
  <2>4. CASE BeginRollback(w)
    BY <1>4, <2>4, HeldType DEF BeginRollback, Holding, Applying
  <2>5. ASSUME NEW d \in Changesets, Claim(w, d)
        PROVE  FALSE
    BY <1>4, <2>5 DEF Claim
  <2>6. CASE \/ Poll(w) \/ Load(w) \/ StartItem(w) \/ Refuse(w) \/ ItemDone(w)
             \/ StartUndo(w) \/ UndoDone(w) \/ \E d \in Changesets : Lost(w, d)
             \/ \E b \in Bindings : Push(w, b) \/ Restore(w, b)
    BY <1>1, <2>6 DEF Poll, Load, StartItem, Refuse, ItemDone, StartUndo, UndoDone, Lost,
                      Push, Land, Restore, Local, db
  <2> QED BY <1>5, <2>1, <2>3, <2>4, <2>5, <2>6 DEF WorkerStep
<1>6. ASSUME NEW w \in Workers, FaultStep(w)
      PROVE  UNCHANGED status
  BY <1>6 DEF FaultStep, Abandon, ItemFails, UndoFails, Crash, ClaimFails,
     PushLandsAndFails, Land, RestoreLandsAndFails, db
<1>7. CASE \/ UNCHANGED vars
           \/ \E v \in Clients, d \in Changesets : ValidateRead(v, d)
           \/ \E v \in Clients : ValidateAbort(v)
           \/ \E b \in Bindings : CreateProvider(b)
  BY <1>1, <1>7 DEF vars, ValidateRead, ValidateAbort, CreateProvider, db
<1> QED BY <1>1, <1>2, <1>3, <1>5, <1>6, <1>7 DEF Next, Api

\* What has been sent stays in the history.
LEMMA SentGrows ==
    ASSUME IInv, [Next]_vars, NEW c \in Changesets
    PROVE  sent[c] \subseteq sent'[c]
<1>1. ASSUME NEW w \in Workers, NEW b \in Bindings, Lands(w, b)
      PROVE  sent[c] \subseteq sent'[c]
  BY <1>1 DEF Lands, Land, IInv, TypeOK
<1> QED BY <1>1, SentSteps

LEMMA AppliedStep == IInv /\ DInv /\ [Next]_vars => AppliedReachesKnown'
<1> SUFFICES ASSUME IInv, DInv, [Next]_vars,
                    NEW c \in Changesets, status'[c] = "applied",
                    NEW i \in DOMAIN request'[c].items, NEW b \in known'[c],
                    InZone(b, request'[c].items[i])
             PROVE  <<i, b>> \in sent'[c]
  BY DEF AppliedReachesKnown, ItemsOf, InZone
<1>1. CASE status[c] = "applied"
  <2>1. request'[c] = request[c]
    BY <1>1, RowSteps DEF RowStep, InsertsDraft, MovesOne, IInv, TypeOK
  <2>2. ASSUME NEW w \in Workers, NEW d \in Changesets, Claim(w, d)
        PROVE  known'[c] = known[c]
    <3>1. d # c
      BY <1>1, <2>2 DEF Claim, UpdateStatus
    <3> QED BY <2>2, <3>1 DEF Claim, IInv, TypeOK
  <2>3. known'[c] = known[c]
    BY <2>2, KnownSteps
  <2>4. <<i, b>> \in sent[c]
    BY <1>1, <2>1, <2>3 DEF DInv, AppliedReachesKnown, ItemsOf
  <2> QED BY <2>4, SentGrows
<1>2. CASE status[c] # "applied"
  <2>1. PICK w \in Workers : Commit(w) /\ worker[w].cs = c
    BY <1>2, AppliedByCommit
  <2>2. /\ worker[w].pc = "commit" /\ worker[w].pc \in Applying /\ worker[w].pc \in Holding
        /\ UNCHANGED <<request, known, sent>>
    BY <2>1 DEF Commit, Close, history, Applying, Holding
  <2>3. worker[w].applied = Len(request[c].items) /\ request[c].items \in Seq(Item)
    BY <2>1, <2>2, HeldItems DEF IInv, WorkersOK, WorkerOK, InRange
  <2>4. i \in 1 .. worker[w].applied
    BY <2>2, <2>3
  <2>5. \A j \in 1 .. worker[w].applied, d \in known[c] :
           InZone(d, request[c].items[j]) => <<j, d>> \in sent[c]
    BY <2>1, <2>2 DEF DInv, WorkersProgress, Progress, Complete
  <2> QED BY <2>2, <2>4, <2>5
<1> QED BY <1>1, <1>2

-----------------------------------------------------------------------------
(* Nobody forgets a changeset.                                             *)

Unfinished == {"applying", "rolling_back"}

\* A step in which a worker that holds a changeset keeps it, closes it or is
\* said to abandon it, and nothing becomes unfinished without a holder.
LEMMA OrphansKept ==
    ASSUME OrphansAreAbandoned, abandoned \subseteq abandoned',
           \A c \in Changesets : status'[c] \in Unfinished =>
              \/ status[c] \in Unfinished
              \/ \E w \in Workers : worker'[w].pc \in Holding /\ worker'[w].cs = c,
           \A w \in Workers : worker[w].pc \in Holding =>
              \/ worker'[w].pc \in Holding /\ worker'[w].cs = worker[w].cs
              \/ worker[w].cs \in abandoned'
              \/ status'[worker[w].cs] \notin Unfinished
    PROVE  OrphansAreAbandoned'
BY DEF OrphansAreAbandoned, Unfinished, Holds, Holding, Applying, RollingBack

LEMMA OrphansStep == IInv /\ DInv /\ [Next]_vars => OrphansAreAbandoned'
<1> SUFFICES ASSUME IInv, DInv, [Next]_vars PROVE OrphansAreAbandoned'
  OBVIOUS
<1>0. OrphansAreAbandoned
  BY DEF DInv
<1>1. CASE Api \/ UNCHANGED vars
  <2>1. UNCHANGED <<worker, abandoned>>
    BY <1>1 DEF Api, CreateChangeset, ValidateRead, ValidateWrite, ValidateAbort,
                CreateProvider, history, vars
  <2>2. \A c \in Changesets : status'[c] \in Unfinished => status[c] \in Unfinished
    BY <1>1 DEF Api, CreateChangeset, ValidateRead, ValidateWrite, ValidateAbort,
                CreateProvider, db, vars, Unfinished, IInv, TypeOK
  <2> QED BY <1>0, <2>1, <2>2, OrphansKept
<1>2. ASSUME NEW w \in Workers, UNCHANGED status, abandoned \subseteq abandoned',
             \A u \in Workers : u # w => worker'[u] = worker[u],
             worker[w].pc \in Holding =>
                \/ worker'[w].pc \in Holding /\ worker'[w].cs = worker[w].cs
                \/ worker[w].cs \in abandoned'
      PROVE  OrphansAreAbandoned'
  BY <1>0, <1>2, OrphansKept
<1>3. ASSUME NEW w \in Workers, WorkerStep(w)
      PROVE  OrphansAreAbandoned'
  <2>0. worker[w] \in WorkerState
    BY DEF IInv, TypeOK
  <2>1. ASSUME NEW pc \in Holding, NEW from, NEW to, to \notin Unfinished,
               Close(w, pc, from, to)
        PROVE  OrphansAreAbandoned'
    <3>1. worker[w].cs \in Changesets
      BY <2>1, HeldType DEF Close
    <3>2. /\ UNCHANGED abandoned
          /\ status' = [status EXCEPT ![worker[w].cs] = to]
          /\ \A u \in Workers : u # w => worker'[u] = worker[u]
      BY <2>1 DEF Close, UpdateStatus, history, IInv, TypeOK
    <3>3. \A c \in Changesets : status'[c] \in Unfinished => status[c] \in Unfinished
      BY <2>1, <3>2 DEF IInv, TypeOK
    <3>4. status'[worker[w].cs] \notin Unfinished
      BY <2>1, <3>1, <3>2 DEF IInv, TypeOK
    <3> QED BY <1>0, <3>2, <3>3, <3>4, OrphansKept
  <2>2. CASE Commit(w) \/ Freeze(w) \/ CloseRolledBack(w) \/ CloseRollbackFailed(w)
    BY <2>1, <2>2 DEF Commit, Freeze, CloseRolledBack, CloseRollbackFailed, Holding,
                      Applying, RollingBack, Unfinished
  <2>3. CASE BeginRollback(w)
    <3>1. worker[w].cs \in Changesets /\ worker[w].pc \in Holding
      BY <2>3, HeldType DEF BeginRollback, Holding, Applying
    <3>2. /\ UNCHANGED abandoned
          /\ \A u \in Workers : u # w => worker'[u] = worker[u]
          /\ worker'[w].pc \in Holding /\ worker'[w].cs = worker[w].cs
      BY <2>0, <2>3 DEF BeginRollback, UndoFrom, history, Holding, RollingBack, WorkerState,
         IInv, TypeOK
    <3>3. \A c \in Changesets : status'[c] \in Unfinished => status[c] \in Unfinished
      BY <2>3, <3>1 DEF BeginRollback, UpdateStatus, Unfinished, IInv, TypeOK
    <3> QED BY <1>0, <3>2, <3>3, OrphansKept
  <2>4. ASSUME NEW c \in Changesets, Claim(w, c)
        PROVE  OrphansAreAbandoned'
    <3>1. /\ UNCHANGED abandoned
          /\ \A u \in Workers : u # w => worker'[u] = worker[u]
          /\ worker[w].pc = "row"
          /\ worker'[w].pc \in Holding /\ worker'[w].cs = c
      BY <2>0, <2>4 DEF Claim, Holding, Applying, WorkerState, IInv, TypeOK
    <3>2. \A d \in Changesets : d # c => status'[d] = status[d]
      BY <2>4 DEF Claim, UpdateStatus, IInv, TypeOK
    <3>3. worker[w].pc \notin Holding
      BY <3>1 DEF Holding, Applying, RollingBack
    <3> QED BY <1>0, <3>1, <3>2, <3>3, OrphansKept
  <2>5. ASSUME NEW c \in Changesets, Lost(w, c)
        PROVE  OrphansAreAbandoned'
    <3>1. worker[w].pc \notin Holding
      \* A holder's update finds the status it expects.
      BY <2>5 DEF Lost, WorksOn, IInv, SingleHolder, Holds, Holding, Applying, RollingBack
    <3>2. /\ UNCHANGED <<status, abandoned>>
          /\ \A u \in Workers : u # w => worker'[u] = worker[u]
      BY <2>5 DEF Lost, Local, db, history, IInv, TypeOK
    <3> QED BY <1>2, <3>1, <3>2
  <2>6. CASE Poll(w)
    <3>1. /\ worker[w].pc \notin Holding
          /\ UNCHANGED <<status, abandoned>>
          /\ \A u \in Workers : u # w => worker'[u] = worker[u]
      BY <2>6 DEF Poll, Local, db, history, Holding, Applying, RollingBack, IInv, TypeOK
    <3> QED BY <1>2, <3>1
  <2>7. CASE \/ Load(w) \/ StartItem(w) \/ Refuse(w) \/ ItemDone(w) \/ StartUndo(w)
             \/ UndoDone(w) \/ \E b \in Bindings : Push(w, b) \/ Restore(w, b)
    <3>1. /\ UNCHANGED <<status, abandoned>>
          /\ \A u \in Workers : u # w => worker'[u] = worker[u]
      BY <2>7 DEF Load, StartItem, Refuse, ItemDone, StartUndo, UndoDone, Push, Land,
         Restore, Local, db, history, IInv, TypeOK
    <3>2. worker'[w].pc \in Holding /\ worker'[w].cs = worker[w].cs
      BY <2>0, <2>7 DEF Load, StartItem, Refuse, ItemDone, AfterItem, StartUndo, UndoDone,
         UndoFrom, Push, Restore, Holding, Applying, RollingBack, WorkerState, IInv, TypeOK
    <3> QED BY <1>2, <3>1, <3>2
  <2> QED BY <1>3, <2>2, <2>3, <2>4, <2>5, <2>6, <2>7 DEF WorkerStep
<1>4. ASSUME NEW w \in Workers, FaultStep(w)
      PROVE  OrphansAreAbandoned'
  <2>0. worker[w] \in WorkerState
    BY DEF IInv, TypeOK
  <2>1. /\ UNCHANGED status /\ abandoned \subseteq abandoned'
        /\ \A u \in Workers : u # w => worker'[u] = worker[u]
    BY <1>4 DEF FaultStep, Abandon, ItemFails, UndoFails, Crash, ClaimFails,
       PushLandsAndFails, Land, RestoreLandsAndFails, db, history, IInv, TypeOK
  <2>2. CASE Abandon(w)
    BY <1>2, <2>1, <2>2 DEF Abandon
  <2>3. CASE Crash(w)
    BY <1>2, <2>1, <2>3, HeldType, SentinelsAssumption DEF Crash
  <2>4. CASE \E c \in Changesets : ClaimFails(w, c)
    BY <1>2, <2>1, <2>4 DEF ClaimFails, Holding, Applying, RollingBack
  <2>5. CASE \/ ItemFails(w) \/ UndoFails(w)
             \/ \E b \in Bindings : PushLandsAndFails(w, b) \/ RestoreLandsAndFails(w, b)
    <3>1. worker'[w].pc \in Holding /\ worker'[w].cs = worker[w].cs
      BY <2>0, <2>5 DEF ItemFails, UndoFails, PushLandsAndFails, RestoreLandsAndFails,
         Holding, Applying, RollingBack, WorkerState, IInv, TypeOK
    <3> QED BY <1>2, <2>1, <3>1
  <2> QED BY <1>4, <2>2, <2>3, <2>4, <2>5 DEF FaultStep
<1> QED BY <1>1, <1>3, <1>4 DEF Next

-----------------------------------------------------------------------------
(* The theorems.                                                           *)

LEMMA InitDelivery == Init => DInv
BY DEF Init, DInv, UnclaimedIsUnsent, KnownIsActive, WorkersProgress, AppliedReachesKnown,
   AtMostOnce, OrphansAreAbandoned, Return, Holding, Applying, RollingBack

\* The invariant behind the three theorems below.
THEOREM DeliveryInductive == Spec => []DInv
<1>1. IInv /\ DInv /\ [Next]_vars => DInv'
  BY UnsentStep, KnownStep, ProgressStep, AppliedStep, OnceStep, OrphansStep DEF DInv
<1> QED BY InitDelivery, Inductive, <1>1, PTL DEF Spec

\* No item is written to a binding a second time, however many workers share
\* the database and wherever they crash.
THEOREM AtMostOnceHolds == Spec => []AtMostOnce
BY DeliveryInductive, PTL DEF DInv

\* "applied" means that every binding known at the claim has every item.
THEOREM AppliedReachesKnownHolds == Spec => []AppliedReachesKnown
BY DeliveryInductive, PTL DEF DInv

\* A changeset is left unfinished only by a crash or a database error.
THEOREM OrphansAreAbandonedHolds == Spec => []OrphansAreAbandoned
BY DeliveryInductive, PTL DEF DInv

=============================================================================
