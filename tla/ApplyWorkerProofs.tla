------------------------- MODULE ApplyWorkerProofs -------------------------
(***************************************************************************)
(* Theorems about ApplyWorker, for every value of its constants.           *)
(***************************************************************************)
EXTENDS ApplyWorker, TLAPS

-----------------------------------------------------------------------------
(* The inductive invariant.                                                *)

\* What is created has passed the checks of create_changeset.
CreatedIsAcceptable ==
    \A c \in Changesets :
        status[c] # "absent" => request[c] \in Requests /\ Acceptable(request[c])

\* A worker (its state is W) between two changesets holds nothing.
Idle(W) == W.pc \in {"poll", "row"} => W.cs = NoChangeset /\ W.applied = 0

\* A worker that holds a changeset is inside its list of items.
InRange(W, items) ==
    W.pc \in Holding =>
        /\ W.cs \in Changesets
        /\ W.applied <= Len(items)
        /\ W.pc = "load" => W.applied = 0
        /\ W.pc \in {"item", "push"} => W.item = W.applied + 1 /\ W.item <= Len(items)
        /\ W.pc = "commit" => W.applied = Len(items)
        /\ W.pc \in {"undo", "restore"} => W.item \in 1 .. W.applied

\* The snapshots the worker dereferences are there.
Readable(W, items) ==
    W.pc \in Holding =>
        /\ \A i \in 1 .. W.applied : Parses(items[i]) /\ Writable(items[i])
        /\ W.pc = "push" => /\ Parses(items[W.item])
                            /\ W.todo = {} => Writable(items[W.item])

WorkerOK(W, items) == Idle(W) /\ InRange(W, items) /\ Readable(W, items)

WorkersOK ==
    \A w \in Workers : WorkerOK(worker[w], request[worker[w].cs].items)

IInv == TypeOK /\ CreatedIsAcceptable /\ SingleHolder /\ WorkersOK

-----------------------------------------------------------------------------
LEMMA ReturnType ==
    ASSUME NEW rows \in SUBSET Changesets
    PROVE  Return(rows) \in WorkerState
BY DEF Return, WorkerState, PCs

LEMMA WrittenType ==
    ASSUME NEW it \in Item, NEW contents \in Contents, Parses(it), Writable(it)
    PROVE  Written(it, contents) \in Contents
BY DEF Written, Item, Contents, Parses, Writable, Snapshots

\* An item that was created has an after value, whatever else it has.
LEMMA UndoneType ==
    ASSUME NEW it \in Item, NEW contents \in Contents, Parses(it), Writable(it)
    PROVE  Undone(it, contents) \in Contents
BY DEF Undone, Item, Contents, Parses, Writable, Snapshots

\* The item under work is an item.
LEMMA CurrentItemType ==
    ASSUME IInv, NEW w \in Workers,
           worker[w].pc \in {"item", "push", "undo", "restore"}
    PROVE  CurrentItem(w) \in Item
<1> DEFINE W == worker[w]
<1>1. W.cs \in Changesets /\ W \in WorkerState
  BY DEF IInv, TypeOK, WorkersOK, WorkerOK, InRange, Holding, Applying, RollingBack
<1>2. status[W.cs] # "absent"
  BY <1>1 DEF IInv, SingleHolder, Holds, Expected, Holding, Applying, RollingBack
<1>3. request[W.cs] \in Requests
  BY <1>1, <1>2 DEF IInv, CreatedIsAcceptable
<1>4. ItemsOf(W.cs) \in Seq(Item)
  BY <1>3, RequestsAssumption DEF ItemsOf
<1>5. W.item \in 1 .. Len(ItemsOf(W.cs))
  BY <1>1, <1>4 DEF IInv, WorkersOK, WorkerOK, InRange, Holding, Applying, RollingBack, WorkerState,
                      ItemsOf
<1> QED BY <1>4, <1>5 DEF CurrentItem

LEMMA InitInv == Init => IInv
<1> SUFFICES ASSUME Init PROVE IInv
  OBVIOUS
<1>1. TypeOK
  <2>1. provider \in [Bindings -> Contents]
    BY RequestsAssumption DEF Init
  <2> QED BY <2>1, ReturnType, RequestsAssumption, ZonesAssumption DEF Init, TypeOK, Statuses
<1>2. CreatedIsAcceptable
  BY DEF Init, CreatedIsAcceptable
<1>3. SingleHolder
  BY DEF Init, SingleHolder, Holds, Return, Holding, Applying, RollingBack
<1>4. WorkersOK
  BY DEF Init, WorkersOK, WorkerOK, Idle, InRange, Readable, Return, Holding, Applying, RollingBack
<1> QED BY <1>1, <1>2, <1>3, <1>4 DEF IInv

-----------------------------------------------------------------------------
(* Types.                                                                  *)

LEMMA TypeStep == IInv /\ [Next]_vars => TypeOK'
<1> SUFFICES ASSUME IInv, [Next]_vars PROVE TypeOK'
  OBVIOUS
<1> USE DEF IInv, TypeOK
<1>1. ASSUME NEW c \in Changesets, NEW r \in Requests, CreateChangeset(c, r)
      PROVE  TypeOK'
  BY <1>1 DEF CreateChangeset, Statuses, history
<1>2. ASSUME NEW v \in Clients, NEW c \in Changesets, ValidateRead(v, c)
      PROVE  TypeOK'
  BY <1>2 DEF ValidateRead, db, history
<1>3. ASSUME NEW v \in Clients, ValidateWrite(v)
      PROVE  TypeOK'
  BY <1>3 DEF ValidateWrite, Statuses, history
<1>4. ASSUME NEW v \in Clients, ValidateAbort(v)
      PROVE  TypeOK'
  BY <1>4 DEF ValidateAbort, db, history
<1>5. ASSUME NEW b \in Bindings, CreateProvider(b)
      PROVE  TypeOK'
  BY <1>5 DEF CreateProvider, history
<1>6. ASSUME NEW w \in Workers, WorkerStep(w)
      PROVE  TypeOK'
  <2> worker[w] \in WorkerState
    OBVIOUS
  <2>1. CASE Poll(w)
    BY <2>1, ReturnType DEF Poll, Local, db, history
  <2>2. CASE Load(w)
    BY <2>2 DEF Load, Local, db, history, WorkerState, PCs
  <2>3. CASE StartItem(w)
    BY <2>3 DEF StartItem, Targets, Local, db, history, WorkerState, PCs
  <2>4. CASE Refuse(w)
    BY <2>4 DEF Refuse, Local, db, history, WorkerState, PCs
  <2>5. CASE ItemDone(w)
    <3> DEFINE V == [worker[w] EXCEPT !.pc = AfterItem(w), !.applied = @ + 1, !.item = @ + 1]
    <3>1. V \in WorkerState
      <4> HIDE DEF IInv, TypeOK
      <4>1. AfterItem(w) \in PCs
        BY DEF AfterItem, PCs
      <4>2. worker[w].applied + 1 \in Nat /\ worker[w].item + 1 \in Nat
        BY DEF WorkerState
      <4> QED
        BY <4>1, <4>2 DEF WorkerState
    <3>2. worker' = [worker EXCEPT ![w] = V]
      BY <2>5 DEF ItemDone
    <3> HIDE DEF V
    <3>3. worker' \in [Workers -> WorkerState]
      BY <3>1, <3>2
    <3> QED
      BY <2>5, <3>3 DEF ItemDone, Local, db, history
  <2>6. ASSUME NEW pc, NEW from, NEW to \in Statuses, Close(w, pc, from, to)
        PROVE  TypeOK'
    BY <2>6, ReturnType DEF Close, UpdateStatus, history, WorkerState
  <2>7. CASE Commit(w) \/ Freeze(w) \/ CloseRolledBack(w) \/ CloseRollbackFailed(w)
    BY <2>6, <2>7 DEF Commit, Freeze, CloseRolledBack, CloseRollbackFailed, Statuses
  <2>8. CASE BeginRollback(w)
    BY <2>8 DEF BeginRollback, UpdateStatus, UndoFrom, Statuses, history, WorkerState, PCs
  <2>9. CASE StartUndo(w)
    BY <2>9 DEF StartUndo, Targets, Local, db, history, WorkerState, PCs
  <2>10. CASE UndoDone(w)
    <3>1. worker[w].item - 1 \in Nat
      BY <2>10 DEF UndoDone, WorkersOK, WorkerOK, InRange, Holding, RollingBack, WorkerState
    <3> QED BY <2>10, <3>1 DEF UndoDone, UndoFrom, Local, db, history, WorkerState, PCs
  <2>11. ASSUME NEW c \in Changesets, Claim(w, c)
         PROVE  TypeOK'
    BY <2>11 DEF Claim, UpdateStatus, Statuses, WorkerState, PCs
  <2>12. ASSUME NEW c \in Changesets, Lost(w, c)
         PROVE  TypeOK'
    BY <2>12, ReturnType DEF Lost, Local, db, history, WorkerState
  <2>13. ASSUME NEW b \in Bindings, Push(w, b)
         PROVE  TypeOK'
    <3>1. Written(CurrentItem(w), provider[b]) \in Contents
      BY <2>13, CurrentItemType, WrittenType DEF Push, WorkersOK, WorkerOK, Readable, Holding, Applying,
                                                         CurrentItem, ItemsOf
    <3>2. worker[w].cs \in Changesets
      BY <2>13 DEF Push, WorkersOK, WorkerOK, InRange, Holding, Applying
    <3>3. <<worker[w].item, b>> \in Nat \X Bindings
      BY DEF WorkerState
    <3>4. /\ provider' \in [Bindings -> Contents]
          /\ sent' \in [Changesets -> SUBSET (Nat \X Bindings)]
          /\ again' \in SUBSET (Changesets \X (Nat \X Bindings))
      BY <2>13, <3>1, <3>2, <3>3 DEF Push, Land
    <3> QED BY <2>13, <3>4 DEF Push, Land, db, WorkerState
  <2>14. ASSUME NEW b \in Bindings, Restore(w, b)
         PROVE  TypeOK'
    <3>1. Parses(CurrentItem(w)) /\ Writable(CurrentItem(w))
      BY <2>14 DEF Restore, WorkersOK, WorkerOK, InRange, Readable, Holding, RollingBack,
                       CurrentItem, ItemsOf
    <3>2. Undone(CurrentItem(w), provider[b]) \in Contents
      BY <2>14, <3>1, CurrentItemType, UndoneType DEF Restore
    <3> QED BY <2>14, <3>2 DEF Restore, db, history, WorkerState, PCs
  <2> QED
    BY <1>6, <2>1, <2>2, <2>3, <2>4, <2>5, <2>7, <2>8, <2>9, <2>10, <2>11, <2>12,
       <2>13, <2>14 DEF WorkerStep
<1>7. ASSUME NEW w \in Workers, FaultStep(w)
      PROVE  TypeOK'
  <2> worker[w] \in WorkerState
    OBVIOUS
  <2>0. Fault => faults' \in 0 .. MaxFaults
    BY RequestsAssumption DEF Fault
  <2>1. CASE Abandon(w)
    <3>1. worker[w].cs \in Changesets
      BY <2>1 DEF Abandon, WorkersOK, WorkerOK, InRange, Holding, Applying, RollingBack, Updating
    <3> QED BY <2>0, <2>1, <3>1, ReturnType DEF Abandon, db, WorkerState
  <2>2. CASE ItemFails(w)
    BY <2>0, <2>2 DEF ItemFails, db, history, WorkerState, PCs
  <2>3. CASE UndoFails(w)
    BY <2>0, <2>3 DEF UndoFails, db, history, WorkerState, PCs
  <2>4. CASE Crash(w)
    BY <2>0, <2>4, ReturnType DEF Crash, db, WorkerState
  <2>5. ASSUME NEW c \in Changesets, ClaimFails(w, c)
        PROVE  TypeOK'
    BY <2>0, <2>5, ReturnType DEF ClaimFails, db, history, WorkerState
  <2>6. ASSUME NEW b \in Bindings, PushLandsAndFails(w, b)
        PROVE  TypeOK'
    <3>1. Written(CurrentItem(w), provider[b]) \in Contents
      BY <2>6, CurrentItemType, WrittenType
      DEF PushLandsAndFails, WorkersOK, WorkerOK, Readable, Holding, Applying, CurrentItem,
          ItemsOf
    <3>2. worker[w].cs \in Changesets
      BY <2>6 DEF PushLandsAndFails, WorkersOK, WorkerOK, InRange, Holding, Applying
    <3>3. <<worker[w].item, b>> \in Nat \X Bindings
      BY DEF WorkerState
    <3>4. /\ provider' \in [Bindings -> Contents]
          /\ sent' \in [Changesets -> SUBSET (Nat \X Bindings)]
          /\ again' \in SUBSET (Changesets \X (Nat \X Bindings))
      BY <2>6, <3>1, <3>2, <3>3 DEF PushLandsAndFails, Land
    <3> QED BY <2>0, <2>6, <3>4 DEF PushLandsAndFails, Land, db, WorkerState, PCs
  <2>7. ASSUME NEW b \in Bindings, RestoreLandsAndFails(w, b)
        PROVE  TypeOK'
    <3>1. Parses(CurrentItem(w)) /\ Writable(CurrentItem(w))
      BY <2>7 DEF RestoreLandsAndFails, WorkersOK, WorkerOK, InRange, Readable, Holding,
                      RollingBack, CurrentItem, ItemsOf
    <3>2. Undone(CurrentItem(w), provider[b]) \in Contents
      BY <2>7, <3>1, CurrentItemType, UndoneType DEF RestoreLandsAndFails
    <3> QED BY <2>0, <2>7, <3>2 DEF RestoreLandsAndFails, db, history, WorkerState, PCs
  <2> QED
    BY <1>7, <2>1, <2>2, <2>3, <2>4, <2>5, <2>6, <2>7 DEF FaultStep
<1>8. CASE UNCHANGED vars
  BY <1>8 DEF vars
<1> QED
  BY <1>1, <1>2, <1>3, <1>4, <1>5, <1>6, <1>7, <1>8 DEF Next, Api

-----------------------------------------------------------------------------
(* The rows of changesets.                                                 *)

\* What a step does to the rows: nothing, the insertion of one draft, or one
\* move along the transition table.
InsertsDraft ==
    \E c \in Changesets, r \in Requests :
        /\ status[c] = "absent"
        /\ Acceptable(r)
        /\ status' = [status EXCEPT ![c] = "draft"]
        /\ request' = [request EXCEPT ![c] = r]

MovesOne ==
    /\ request' = request
    /\ \E c \in Changesets, to \in Statuses :
          /\ CanTransition(status[c], to)
          /\ status' = [status EXCEPT ![c] = to]

RowStep == UNCHANGED <<status, request>> \/ InsertsDraft \/ MovesOne

LEMMA HeldType ==
    ASSUME IInv, NEW w \in Workers, worker[w].pc \in Holding
    PROVE  worker[w].cs \in Changesets
BY DEF IInv, WorkersOK, WorkerOK, InRange

LEMMA RowSteps ==
    ASSUME IInv, [Next]_vars
    PROVE  RowStep
<1>1. ASSUME NEW c \in Changesets, NEW r \in Requests, CreateChangeset(c, r)
      PROVE  RowStep
  BY <1>1 DEF CreateChangeset, RowStep, InsertsDraft
<1>2. ASSUME NEW v \in Clients, ValidateWrite(v)
      PROVE  RowStep
  BY <1>2 DEF ValidateWrite, Serializable, IInv, TypeOK, Statuses, RowStep, MovesOne
<1>3. ASSUME NEW c \in Changesets, NEW from, NEW to \in Statuses,
             UpdateStatus(c, from, to), UNCHANGED request
      PROVE  RowStep
  BY <1>3 DEF UpdateStatus, RowStep, MovesOne
<1>4. ASSUME NEW w \in Workers, NEW pc \in Holding, NEW from, NEW to \in Statuses,
             Close(w, pc, from, to)
      PROVE  RowStep
  BY <1>3, <1>4, HeldType DEF Close
<1>5. ASSUME NEW w \in Workers, WorkerStep(w)
      PROVE  RowStep
  <2>1. CASE Commit(w)
    BY <1>4, <2>1 DEF Commit, Statuses, Holding, Applying
  <2>2. CASE Freeze(w)
    BY <1>4, <2>2 DEF Freeze, Statuses, Holding, Applying
  <2>3. CASE CloseRolledBack(w)
    BY <1>4, <2>3 DEF CloseRolledBack, Statuses, Holding, RollingBack
  <2>4. CASE CloseRollbackFailed(w)
    BY <1>4, <2>4 DEF CloseRollbackFailed, Statuses, Holding, RollingBack
  <2>5. CASE BeginRollback(w)
    BY <1>3, <2>5, HeldType DEF BeginRollback, Statuses, Holding, Applying
  <2>6. ASSUME NEW c \in Changesets, Claim(w, c)
        PROVE  RowStep
    BY <1>3, <2>6 DEF Claim, Statuses
  <2>7. CASE Poll(w) \/ Load(w) \/ StartItem(w) \/ Refuse(w) \/ ItemDone(w)
             \/ StartUndo(w) \/ UndoDone(w) \/ \E c \in Changesets : Lost(w, c)
    BY <2>7 DEF Poll, Load, StartItem, Refuse, ItemDone, StartUndo, UndoDone, Lost,
                Local, db, RowStep
  <2>8. CASE \E b \in Bindings : Push(w, b) \/ Restore(w, b)
    BY <2>8 DEF Push, Land, Restore, db, RowStep
  <2> QED
    BY <1>5, <2>1, <2>2, <2>3, <2>4, <2>5, <2>6, <2>7, <2>8 DEF WorkerStep
<1>6. ASSUME NEW w \in Workers, FaultStep(w)
      PROVE  RowStep
  BY <1>6 DEF FaultStep, Abandon, ItemFails, UndoFails, Crash, ClaimFails,
              PushLandsAndFails, Land, RestoreLandsAndFails, db, RowStep
<1>7. CASE \/ UNCHANGED vars
           \/ \E v \in Clients, c \in Changesets : ValidateRead(v, c)
           \/ \E v \in Clients : ValidateAbort(v)
           \/ \E b \in Bindings : CreateProvider(b)
  BY <1>7 DEF vars, ValidateRead, ValidateAbort, CreateProvider, db, RowStep
<1> QED
  BY <1>1, <1>2, <1>5, <1>6, <1>7 DEF Next, Api

LEMMA AcceptableStep == IInv /\ [Next]_vars => CreatedIsAcceptable'
<1> SUFFICES ASSUME IInv, [Next]_vars PROVE CreatedIsAcceptable'
  OBVIOUS
<1>1. RowStep
  BY RowSteps
<1>2. CASE UNCHANGED <<status, request>>
  BY <1>2 DEF IInv, CreatedIsAcceptable, Acceptable
<1>3. CASE InsertsDraft
  <2> PICK c \in Changesets, r \in Requests :
             /\ Acceptable(r)
             /\ status' = [status EXCEPT ![c] = "draft"]
             /\ request' = [request EXCEPT ![c] = r]
    BY <1>3 DEF InsertsDraft
  <2>1. \A d \in Changesets : d # c => status'[d] = status[d] /\ request'[d] = request[d]
    BY DEF IInv, TypeOK
  <2>2. request'[c] = r
    BY DEF IInv, TypeOK
  <2> QED BY <2>1, <2>2 DEF IInv, CreatedIsAcceptable, Acceptable
<1>4. CASE MovesOne
  <2>1. \A c \in Changesets : status'[c] # "absent" => status[c] # "absent"
    BY <1>4 DEF MovesOne, CanTransition, IInv, TypeOK
  <2> QED BY <1>4, <2>1 DEF MovesOne, IInv, CreatedIsAcceptable, Acceptable
<1> QED BY <1>1, <1>2, <1>3, <1>4 DEF RowStep

\* The request of a changeset somebody holds does not change.
LEMMA HeldRequest ==
    ASSUME IInv, [Next]_vars, NEW w \in Workers, worker[w].pc \in Holding
    PROVE  request'[worker[w].cs] = request[worker[w].cs]
<1> DEFINE c == worker[w].cs
<1>1. c \in Changesets /\ status[c] # "absent"
  BY HeldType DEF IInv, SingleHolder, Holds, Expected, Holding, Applying, RollingBack
<1>2. RowStep
  BY RowSteps
<1> QED BY <1>1, <1>2 DEF RowStep, InsertsDraft, MovesOne, IInv, TypeOK

-----------------------------------------------------------------------------
(* Who holds what.                                                         *)

\* A step that does not move the workers moves only changesets nobody holds.
LEMMA HoldersApi ==
    ASSUME IInv, [Next]_vars, UNCHANGED worker,
           \A c \in Changesets : status'[c] # status[c] => status[c] \in {"absent", "draft"}
    PROVE  SingleHolder'
BY DEF IInv, SingleHolder, Holds, Expected, Holding, Applying, RollingBack

\* w lets its changeset go, whatever it wrote into the status column.
LEMMA HoldersRelease ==
    ASSUME IInv, NEW w \in Workers, NEW rows,
           worker' = [worker EXCEPT ![w] = Return(rows)],
           \A c \in Changesets : status'[c] # status[c] => Holds(w, c)
    PROVE  SingleHolder'
<1>1. worker'[w].pc \notin Holding
  BY DEF IInv, TypeOK, Return, Holding, Applying, RollingBack
<1>2. \A u \in Workers : u # w => worker'[u] = worker[u]
  BY DEF IInv, TypeOK
<1>3. ASSUME NEW u \in Workers, NEW c \in Changesets, Holds(u, c)'
      PROVE  u # w /\ Holds(u, c) /\ status'[c] = status[c]
  BY <1>1, <1>2, <1>3 DEF Holds, IInv, SingleHolder
<1> QED BY <1>2, <1>3 DEF IInv, SingleHolder

\* w goes on with its changeset, and the status column with it.
LEMMA HoldersKeep ==
    ASSUME IInv, NEW w \in Workers,
           worker[w].pc \in Holding, worker'[w].pc \in Holding,
           worker'[w].cs = worker[w].cs,
           \A u \in Workers : u # w => worker'[u] = worker[u],
           status'[worker[w].cs] = Expected(worker'[w].pc),
           \A c \in Changesets : c # worker[w].cs => status'[c] = status[c]
    PROVE  SingleHolder'
<1> DEFINE c == worker[w].cs
<1>1. c \in Changesets /\ Holds(w, c)
  BY HeldType DEF Holds
<1>2. ASSUME NEW u \in Workers, NEW d \in Changesets, Holds(u, d)'
      PROVE  Holds(u, d)
  BY <1>2 DEF Holds
<1>3. ASSUME NEW u \in Workers, NEW d \in Changesets, Holds(u, d)'
      PROVE  status'[d] = Expected(worker'[u].pc)
  <2>1. CASE d = c
    BY <1>1, <1>2, <1>3, <2>1 DEF IInv, SingleHolder
  <2>2. CASE d # c
    BY <1>2, <1>3, <2>2 DEF IInv, SingleHolder, Holds
  <2> QED BY <2>1, <2>2
<1>4. ASSUME NEW t \in Workers, NEW u \in Workers, NEW d \in Changesets,
             Holds(t, d)', Holds(u, d)'
      PROVE  t = u
  BY <1>2, <1>4 DEF IInv, SingleHolder
<1> QED BY <1>3, <1>4 DEF SingleHolder, Expected

LEMMA HoldersStep == IInv /\ [Next]_vars => SingleHolder'
<1> SUFFICES ASSUME IInv, [Next]_vars PROVE SingleHolder'
  OBVIOUS
<1>1. ASSUME NEW c \in Changesets, NEW r \in Requests, CreateChangeset(c, r)
      PROVE  SingleHolder'
  <2>1. \A d \in Changesets : status'[d] # status[d] => status[d] \in {"absent", "draft"}
    BY <1>1 DEF CreateChangeset, IInv, TypeOK
  <2> QED BY <1>1, <2>1, HoldersApi DEF CreateChangeset
<1>2. ASSUME NEW v \in Clients, ValidateWrite(v)
      PROVE  SingleHolder'
  <2>1. \A d \in Changesets : status'[d] # status[d] => status[d] \in {"absent", "draft"}
    BY <1>2 DEF ValidateWrite, Serializable, CanTransition, IInv, TypeOK
  <2> QED BY <1>2, <2>1, HoldersApi DEF ValidateWrite
<1>3. CASE \/ UNCHANGED vars
           \/ \E v \in Clients, c \in Changesets : ValidateRead(v, c)
           \/ \E v \in Clients : ValidateAbort(v)
           \/ \E b \in Bindings : CreateProvider(b)
  <2>1. UNCHANGED <<worker, status>>
    BY <1>3 DEF vars, ValidateRead, ValidateAbort, CreateProvider, db
  <2> QED BY <2>1, HoldersApi
<1>4. ASSUME NEW w \in Workers, WorkerStep(w) \/ FaultStep(w)
      PROVE  SingleHolder'
  <2> worker[w] \in WorkerState
    BY DEF IInv, TypeOK
  <2>1. CASE \/ Poll(w) \/ Abandon(w) \/ Crash(w)
             \/ \E c \in Changesets : Lost(w, c) \/ ClaimFails(w, c)
    <3>1. status' = status
      BY <2>1 DEF Poll, Abandon, Crash, Lost, ClaimFails, Local, db
    <3>2. \E rows : worker' = [worker EXCEPT ![w] = Return(rows)]
      BY <2>1 DEF Poll, Abandon, Crash, Lost, ClaimFails
    <3> QED BY <3>1, <3>2, HoldersRelease
  <2>2. ASSUME NEW pc \in Holding, NEW from, NEW to, Close(w, pc, from, to)
        PROVE  SingleHolder'
    <3>1. Holds(w, worker[w].cs)
      BY <2>2 DEF Close, Holds
    <3>2. \A c \in Changesets : status'[c] # status[c] => Holds(w, c)
      BY <2>2, <3>1 DEF Close, UpdateStatus, IInv, TypeOK
    <3> QED BY <2>2, <3>2, HoldersRelease DEF Close
  <2>3. CASE Commit(w) \/ Freeze(w) \/ CloseRolledBack(w) \/ CloseRollbackFailed(w)
    BY <2>2, <2>3 DEF Commit, Freeze, CloseRolledBack, CloseRollbackFailed, Holding,
                      Applying, RollingBack
  <2>4. ASSUME UNCHANGED status,
               \/ worker[w].pc \in Applying /\ worker'[w].pc \in Applying
               \/ worker[w].pc \in RollingBack /\ worker'[w].pc \in RollingBack,
               worker'[w].cs = worker[w].cs,
               \A u \in Workers : u # w => worker'[u] = worker[u]
        PROVE  SingleHolder'
    <3>1. worker[w].pc \in Holding /\ worker'[w].pc \in Holding
      BY <2>4 DEF Holding
    <3>2. status[worker[w].cs] = Expected(worker[w].pc)
      BY <3>1, HeldType DEF IInv, SingleHolder, Holds
    <3>3. Expected(worker[w].pc) = Expected(worker'[w].pc)
      BY <2>4 DEF Expected, Applying, RollingBack
    <3> QED BY <2>4, <3>1, <3>2, <3>3, HoldersKeep
  <2>5. CASE Load(w)
    BY <2>4, <2>5 DEF Load, Local, db, Applying, IInv, TypeOK, WorkerState
  <2>6. CASE StartItem(w)
    BY <2>4, <2>6 DEF StartItem, Local, db, Applying, IInv, TypeOK, WorkerState
  <2>7. CASE Refuse(w)
    BY <2>4, <2>7 DEF Refuse, Local, db, Applying, IInv, TypeOK, WorkerState
  <2>8. CASE ItemDone(w)
    BY <2>4, <2>8 DEF ItemDone, AfterItem, Local, db, Applying, IInv, TypeOK, WorkerState
  <2>9. CASE StartUndo(w)
    BY <2>4, <2>9 DEF StartUndo, Local, db, RollingBack, IInv, TypeOK, WorkerState
  <2>10. CASE UndoDone(w)
    BY <2>4, <2>10 DEF UndoDone, UndoFrom, Local, db, RollingBack, IInv, TypeOK, WorkerState
  <2>11. ASSUME NEW b \in Bindings,
                Push(w, b) \/ PushLandsAndFails(w, b)
         PROVE  SingleHolder'
    BY <2>4, <2>11 DEF Push, PushLandsAndFails, Land, db, Applying, IInv, TypeOK, WorkerState
  <2>12. ASSUME NEW b \in Bindings,
                Restore(w, b) \/ RestoreLandsAndFails(w, b)
         PROVE  SingleHolder'
    BY <2>4, <2>12 DEF Restore, RestoreLandsAndFails, db, RollingBack, IInv, TypeOK, WorkerState
  <2>13. CASE ItemFails(w)
    BY <2>4, <2>13 DEF ItemFails, db, Applying, IInv, TypeOK, WorkerState
  <2>14. CASE UndoFails(w)
    BY <2>4, <2>14 DEF UndoFails, db, RollingBack, IInv, TypeOK, WorkerState
  <2>15. CASE BeginRollback(w)
    <3>1. worker[w].pc \in Holding /\ worker'[w].pc \in RollingBack
      BY <2>15 DEF BeginRollback, UndoFrom, Holding, Applying, RollingBack, IInv, TypeOK,
                   WorkerState
    <3>2. worker[w].cs \in Changesets
      BY <3>1, HeldType
    <3>3. /\ status'[worker[w].cs] = "rolling_back"
          /\ \A c \in Changesets : c # worker[w].cs => status'[c] = status[c]
      BY <2>15, <3>2 DEF BeginRollback, UpdateStatus, IInv, TypeOK
    <3>4. /\ worker'[w].cs = worker[w].cs
          /\ \A u \in Workers : u # w => worker'[u] = worker[u]
      BY <2>15 DEF BeginRollback, IInv, TypeOK, WorkerState
    <3>5. Expected(worker'[w].pc) = "rolling_back"
      BY <3>1 DEF Expected, Applying, RollingBack
    <3> QED BY <3>1, <3>3, <3>4, <3>5, HoldersKeep DEF Holding
  <2>16. ASSUME NEW c \in Changesets, Claim(w, c)
         PROVE  SingleHolder'
    <3>1. \A u \in Workers : ~ Holds(u, c)
      BY <2>16 DEF Claim, UpdateStatus, IInv, SingleHolder, Holds, Expected, Holding,
                   Applying, RollingBack
    <3>2. /\ worker'[w].pc = "load" /\ worker'[w].cs = c
          /\ \A u \in Workers : u # w => worker'[u] = worker[u]
      BY <2>16 DEF Claim, IInv, TypeOK, WorkerState
    <3>3. /\ status'[c] = "applying"
          /\ \A d \in Changesets : d # c => status'[d] = status[d]
      BY <2>16 DEF Claim, UpdateStatus, IInv, TypeOK
    <3>4. ASSUME NEW u \in Workers, NEW d \in Changesets, Holds(u, d)'
          PROVE  IF u = w THEN d = c ELSE d # c /\ Holds(u, d)
      BY <3>1, <3>2, <3>4 DEF Holds
    <3>5. Expected("load") = "applying"
      BY DEF Expected, Applying
    <3>6. ASSUME NEW u \in Workers, NEW d \in Changesets, Holds(u, d)'
          PROVE  status'[d] = Expected(worker'[u].pc)
      BY <3>2, <3>3, <3>4, <3>5, <3>6 DEF IInv, SingleHolder
    <3>7. ASSUME NEW t \in Workers, NEW u \in Workers, NEW d \in Changesets,
                 Holds(t, d)', Holds(u, d)'
          PROVE  t = u
      BY <3>4, <3>7 DEF IInv, SingleHolder
    <3> QED BY <3>6, <3>7 DEF SingleHolder, Expected
  <2> QED
    BY <1>4, <2>1, <2>3, <2>5, <2>6, <2>7, <2>8, <2>9, <2>10, <2>11, <2>12, <2>13,
       <2>14, <2>15, <2>16 DEF WorkerStep, FaultStep
<1> QED
  BY <1>1, <1>2, <1>3, <1>4 DEF Next, Api

-----------------------------------------------------------------------------
(* Where the workers are.                                                  *)

\* The items of a held changeset are a non-empty sequence of items.
LEMMA HeldItems ==
    ASSUME IInv, NEW w \in Workers, worker[w].pc \in Holding
    PROVE  /\ request[worker[w].cs].items \in Seq(Item)
           /\ Len(request[worker[w].cs].items) \in Nat \ {0}
<1>1. worker[w].cs \in Changesets /\ status[worker[w].cs] # "absent"
  BY HeldType DEF IInv, SingleHolder, Holds, Expected, Holding, Applying, RollingBack
<1>2. request[worker[w].cs] \in Requests /\ Acceptable(request[worker[w].cs])
  BY <1>1 DEF IInv, CreatedIsAcceptable
<1> QED BY <1>2, RequestsAssumption DEF Acceptable

\* A worker that does not move stays where it is.
LEMMA Unmoved ==
    ASSUME IInv, [Next]_vars, NEW w \in Workers, worker'[w] = worker[w]
    PROVE  WorkerOK(worker'[w], request'[worker'[w].cs].items)
<1>1. WorkerOK(worker[w], request[worker[w].cs].items)
  BY DEF IInv, WorkersOK
<1>2. CASE worker[w].pc \in Holding
  BY <1>1, <1>2, HeldRequest
<1>3. CASE worker[w].pc \notin Holding
  BY <1>1, <1>3 DEF WorkerOK, Idle, InRange, Readable
<1> QED BY <1>2, <1>3

\* A worker that lets its changeset go is idle.
LEMMA Released ==
    ASSUME NEW rows, NEW items
    PROVE  WorkerOK(Return(rows), items)
BY DEF WorkerOK, Idle, InRange, Readable, Return, Holding, Applying, RollingBack

LEMMA WorkersStep == IInv /\ [Next]_vars => WorkersOK'
<1> SUFFICES ASSUME IInv, [Next]_vars PROVE WorkersOK'
  OBVIOUS
<1>1. CASE UNCHANGED worker
  BY <1>1, Unmoved DEF WorkersOK
<1>2. ASSUME NEW w \in Workers, WorkerStep(w) \/ FaultStep(w)
      PROVE  WorkerOK(worker'[w], request'[worker'[w].cs].items)
  <2> DEFINE W == worker[w]
             items == request[W.cs].items
             Goal == WorkerOK(worker'[w], request'[worker'[w].cs].items)
  <2>0. W \in WorkerState /\ WorkerOK(W, items)
    BY DEF IInv, TypeOK, WorkersOK
  <2>1. CASE \/ Poll(w) \/ Abandon(w) \/ Crash(w)
             \/ Commit(w) \/ Freeze(w) \/ CloseRolledBack(w) \/ CloseRollbackFailed(w)
             \/ \E c \in Changesets : Lost(w, c) \/ ClaimFails(w, c)
    <3>1. PICK rows : worker' = [worker EXCEPT ![w] = Return(rows)]
      BY <2>1 DEF Poll, Abandon, Crash, Lost, ClaimFails, Commit, Freeze, CloseRolledBack,
                  CloseRollbackFailed, Close
    <3>2. worker'[w] = Return(rows)
      BY <3>1 DEF IInv, TypeOK
    <3> QED BY <3>2, Released
  \* A worker that fails in the middle of an item keeps what it has applied.
  <2>2. ASSUME UNCHANGED request, W.pc \in Holding,
               NEW pc \in {"failed", "undofailed"},
               worker' = [worker EXCEPT ![w].pc = pc, ![w].todo = {}]
        PROVE  Goal
    <3>1. /\ worker'[w].pc = pc
          /\ worker'[w].cs = W.cs
          /\ worker'[w].applied = W.applied
      BY <2>0, <2>2 DEF WorkerState, IInv, TypeOK
    <3>2. WorkerOK(worker'[w], items)
      BY <2>0, <2>2, <3>1 DEF WorkerOK, Idle, InRange, Readable
    <3> QED BY <2>2, <3>1, <3>2
  <2>3. CASE Refuse(w) \/ ItemFails(w) \/ \E b \in Bindings : PushLandsAndFails(w, b)
    <3>1. /\ W.pc \in Holding
          /\ UNCHANGED request
          /\ worker' = [worker EXCEPT ![w].pc = "failed", ![w].todo = {}]
      BY <2>3 DEF Refuse, ItemFails, PushLandsAndFails, Land, Local, db, Holding, Applying
    <3> QED BY <2>2, <3>1
  <2>4. CASE UndoFails(w) \/ \E b \in Bindings : RestoreLandsAndFails(w, b)
    <3>1. /\ W.pc \in Holding
          /\ UNCHANGED request
          /\ worker' = [worker EXCEPT ![w].pc = "undofailed", ![w].todo = {}]
      BY <2>4 DEF UndoFails, RestoreLandsAndFails, db, Holding, RollingBack
    <3> QED BY <2>2, <3>1
  <2>5. ASSUME NEW c \in Changesets, Claim(w, c)
        PROVE  Goal
    <3>1. worker'[w].pc = "load" /\ worker'[w].cs = c /\ worker'[w].applied = 0
      BY <2>0, <2>5 DEF Claim, WorkerOK, Idle, WorkerState, IInv, TypeOK
    <3>2. request' = request /\ status[c] # "absent"
      BY <2>5 DEF Claim, UpdateStatus
    <3>3. request'[c].items \in Seq(Item)
      BY <3>2, RequestsAssumption DEF IInv, CreatedIsAcceptable
    <3> QED BY <3>1, <3>3 DEF WorkerOK, Idle, InRange, Readable, Holding, Applying
  \* The steps below leave the held changeset and its items as they are.
  <2>6. ASSUME W.pc \in Holding, UNCHANGED request, worker'[w].cs = W.cs,
               WorkerOK(worker'[w], items)
        PROVE  Goal
    BY <2>6
  <2>7. W.pc \in Holding => items \in Seq(Item) /\ Len(items) \in Nat \ {0}
    BY HeldItems
  <2>8. CASE Load(w)
    BY <2>0, <2>6, <2>7, <2>8 DEF Load, Local, db, WorkerOK, Idle, InRange, Readable,
       Holding, Applying, WorkerState, IInv, TypeOK
  <2>9. CASE StartItem(w)
    BY <2>0, <2>6, <2>9 DEF StartItem, Local, db, WorkerOK, Idle, InRange, Readable, Holding,
       Applying, WorkerState, IInv, TypeOK, CurrentItem, ItemsOf
  <2>10. ASSUME NEW b \in Bindings, Push(w, b)
         PROVE  Goal
    BY <2>0, <2>6, <2>10 DEF Push, Land, db, WorkerOK, Idle, InRange, Readable, Holding,
       Applying, WorkerState, IInv, TypeOK, CurrentItem, ItemsOf
  <2>11. CASE ItemDone(w)
    <3>1. /\ W.pc \in Holding /\ W.pc = "push"
          /\ UNCHANGED request
          /\ W.todo = {}
      BY <2>11 DEF ItemDone, Holding, Applying, Local, db
    <3>2. W.item = W.applied + 1 /\ W.applied \in Nat /\ W.item <= Len(items)
      BY <2>0, <3>1 DEF WorkerOK, InRange, WorkerState
    <3>3. /\ worker'[w].cs = W.cs
          /\ worker'[w].applied = W.applied + 1
          /\ worker'[w].item = W.item + 1
          /\ worker'[w].pc = IF W.item < Len(items) THEN "item" ELSE "commit"
      BY <2>0, <2>11 DEF ItemDone, AfterItem, ItemsOf, WorkerState, IInv, TypeOK
    <3>4. \A i \in 1 .. W.applied + 1 : Parses(items[i]) /\ Writable(items[i])
      <4>1. \A i \in 1 .. W.applied : Parses(items[i]) /\ Writable(items[i])
        BY <2>0, <3>1 DEF WorkerOK, Readable
      <4>2. Parses(items[W.item]) /\ Writable(items[W.item])
        BY <2>0, <3>1 DEF WorkerOK, Readable
      <4>3. \A i \in 1 .. W.applied + 1 : i \in 1 .. W.applied \/ i = W.item
        BY <3>2
      <4> QED
        BY <4>1, <4>2, <4>3, Zenon
    <3>5. Idle(worker'[w]) /\ Readable(worker'[w], items)
      BY <3>3, <3>4 DEF Idle, Readable
    <3>6. InRange(worker'[w], items)
      BY <2>0, <2>7, <3>1, <3>2, <3>3 DEF WorkerOK, InRange
    <3> QED BY <2>6, <3>1, <3>3, <3>5, <3>6 DEF WorkerOK
  <2>12. CASE BeginRollback(w)
    <3>1. /\ worker'[w].cs = W.cs /\ worker'[w].applied = W.applied
          /\ worker'[w].item = W.applied
          /\ worker'[w].pc = IF W.applied = 0 THEN "undone" ELSE "undo"
          /\ W.applied \in Nat /\ W.pc \in Holding
          /\ UNCHANGED request
      BY <2>0, <2>12 DEF BeginRollback, UndoFrom, WorkerState, IInv, TypeOK, Holding, Applying
    <3>2. WorkerOK(worker'[w], items)
      BY <2>0, <3>1 DEF WorkerOK, Idle, InRange, Readable
    <3> QED BY <2>6, <3>1, <3>2
  <2>13. CASE StartUndo(w)
    <3>1. /\ W.pc = "undo" /\ W.pc \in Holding
          /\ UNCHANGED request
          /\ worker'[w].cs = W.cs /\ worker'[w].applied = W.applied
          /\ worker'[w].item = W.item /\ worker'[w].pc = "restore"
      BY <2>0, <2>13 DEF StartUndo, Local, db, WorkerState, IInv, TypeOK, Holding, RollingBack
    <3>2. WorkerOK(worker'[w], items)
      BY <2>0, <3>1 DEF WorkerOK, Idle, InRange, Readable
    <3> QED BY <2>6, <3>1, <3>2
  <2>14. ASSUME NEW b \in Bindings, Restore(w, b)
         PROVE  Goal
    BY <2>0, <2>6, <2>14 DEF Restore, db, WorkerOK, Idle, InRange, Readable, Holding,
       RollingBack, WorkerState, IInv, TypeOK
  <2>15. CASE UndoDone(w)
    <3>1. /\ W.pc = "restore" /\ W.pc \in Holding
          /\ UNCHANGED request
      BY <2>15 DEF UndoDone, Local, db, Holding, RollingBack
    <3>2. W.applied \in Nat /\ W.item \in 1 .. W.applied
      BY <2>0, <3>1 DEF WorkerOK, InRange, WorkerState
    <3>3. /\ worker'[w].cs = W.cs /\ worker'[w].applied = W.applied
          /\ worker'[w].item = W.item - 1
          /\ worker'[w].pc = IF W.item - 1 = 0 THEN "undone" ELSE "undo"
      BY <2>0, <2>15 DEF UndoDone, UndoFrom, WorkerState, IInv, TypeOK
    <3>4. WorkerOK(worker'[w], items)
      BY <2>0, <3>1, <3>2, <3>3 DEF WorkerOK, Idle, InRange, Readable
    <3> QED BY <2>6, <3>1, <3>3, <3>4
  <2> QED
    BY <1>2, <2>1, <2>3, <2>4, <2>5, <2>8, <2>9, <2>10, <2>11, <2>12, <2>13, <2>14, <2>15
    DEF WorkerStep, FaultStep
<1>3. ASSUME NEW w \in Workers, WorkerStep(w) \/ FaultStep(w)
      PROVE  WorkersOK'
  <2>1. \A u \in Workers : u # w => worker'[u] = worker[u]
    BY <1>3 DEF WorkerStep, FaultStep, Poll, Load, StartItem, Refuse, ItemDone, Commit,
       Freeze, BeginRollback, StartUndo, UndoDone, CloseRolledBack, CloseRollbackFailed,
       Close, Claim, Lost, Push, Restore, Abandon, ItemFails, UndoFails, Crash, ClaimFails,
       PushLandsAndFails, RestoreLandsAndFails, IInv, TypeOK
  <2> QED BY <1>2, <1>3, <2>1, Unmoved DEF WorkersOK
<1>4. CASE Api
  <2>1. UNCHANGED worker
    BY <1>4 DEF Api, CreateChangeset, ValidateRead, ValidateWrite, ValidateAbort,
                CreateProvider
  <2> QED BY <1>1, <2>1
<1> QED
  BY <1>1, <1>3, <1>4 DEF Next, vars

-----------------------------------------------------------------------------
(* The theorems.                                                           *)

\* The invariant behind all the others.
THEOREM Inductive == Spec => []IInv
<1>1. IInv /\ [Next]_vars => IInv'
  BY TypeStep, AcceptableStep, HoldersStep, WorkersStep DEF IInv
<1> QED BY InitInv, <1>1, PTL DEF Spec

\* Every variable keeps its type: in particular no write ever reaches for a
\* snapshot that is missing or did not parse.
THEOREM TypeCorrect == Spec => []TypeOK
BY Inductive, PTL DEF IInv

\* However many workers poll one database, a changeset has one holder, and its
\* status says what the holder is doing.
THEOREM SingleHolderHolds == Spec => []SingleHolder
BY Inductive, PTL DEF IInv

\* The apply loop, the API, their races and their faults implement the life
\* cycle of a changeset: the status column follows ChangesetLifecycle.
THEOREM Refinement == Spec => FollowsLifecycle
<1>1. Init => Lifecycle!Init
  BY DEF Init, Lifecycle!Init
<1>2. IInv /\ [Next]_vars => [Lifecycle!Next]_status
  <2> SUFFICES ASSUME IInv, [Next]_vars PROVE [Lifecycle!Next]_status
    OBVIOUS
  <2>1. RowStep
    BY RowSteps
  <2> QED
    BY <2>1 DEF RowStep, InsertsDraft, MovesOne, Lifecycle!Next, Lifecycle!Create,
       Lifecycle!Move, Lifecycle!CanTransition, CanTransition, Lifecycle!Statuses
<1> QED BY <1>1, <1>2, Inductive, PTL DEF Spec, FollowsLifecycle, Lifecycle!Spec

=============================================================================
