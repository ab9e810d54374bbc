------------------------- MODULE ApplyValuesProofs -------------------------
(***************************************************************************)
(* Theorems about what ApplyWorker leaves at the providers: what the items *)
(* say before "applied" is written, and what was there at the claim before *)
(* "rolled_back" is.  Both are about one worker, because a second one      *)
(* writes the same zones.                                                  *)
(***************************************************************************)
EXTENDS ApplyDeliveryProofs, WellFoundedInduction

OneWorker == \A u, w \in Workers : u = w

\* The item it writes key k of binding b.
Writes(it, b, k) == InZone(b, it) /\ KeyOf(it) = k

\* contents is what b holds after the first n items, if it held before when
\* they began: of each key, what the last item on it says.
Follows(contents, before, items, n, b) ==
    \A k \in Keys :
       \/ /\ \A i \in 1 .. n : ~ Writes(items[i], b, k)
          /\ contents[k] = before[k]
       \/ \E i \in 1 .. n :
             /\ Writes(items[i], b, k)
             /\ \A j \in i + 1 .. n : ~ Writes(items[j], b, k)
             /\ contents[k] = Image(items[i])

\* How many items b has, for a worker in state W.
Stage(W, b) ==
    CASE W.pc = "push"    -> IF b \in W.todo THEN W.applied ELSE W.item
      [] W.pc = "undo"    -> W.item
      [] W.pc = "restore" -> IF b \in W.todo THEN W.item ELSE W.item - 1
      [] W.pc = "undone"  -> 0
      [] OTHER            -> W.applied

\* Item i says truthfully what was there before it: what the item on its key
\* before it leaves there, or what was there at the start.
Truthful(items, i, before) ==
    \/ \E j \in DOMAIN items : /\ Shadows(items, j, i)
                               /\ BeforeImage(items[i]) = Image(items[j])
    \/ /\ \A j \in DOMAIN items : ~ Shadows(items, j, i)
       /\ BeforeImage(items[i]) = before[KeyOf(items[i])]

\* Accurate of a changeset with these items, claimed when the bindings K were
\* known and held what O says.
AccurateItems(items, K, O) ==
    \A i \in DOMAIN items :
       /\ Parses(items[i]) /\ Writable(items[i])
       /\ items[i].op # "create" => items[i].before # NULL
       /\ items[i].op = "update" => items[i].before.key = items[i].after.key
       /\ \A b \in K : InZone(b, items[i]) => Truthful(items, i, O[b])

\* S, the writes of the changeset, contains applied items only.
Clean(W, S) == \A write \in S : write[1] <= W.applied

\* When the number of its items says what a binding holds: always on the way
\* forward, but after a failure only if the failing item wrote nothing, and on
\* the way back only if the snapshots are accurate.
Telling(W, items, S, K, O) ==
    \/ W.pc \in {"load", "item", "push", "commit"}
    \/ W.pc = "failed" /\ Clean(W, S)
    \/ W.pc \in {"undo", "restore", "undone"} /\ Clean(W, S) /\ AccurateItems(items, K, O)

\* P, what the providers hold, is what the items worked off so far say.
Tells(W, items, S, K, O, P) ==
    Telling(W, items, S, K, O) =>
        \A b \in K : Follows(P[b], O[b], items, Stage(W, b), b)

\* The loop over bindings stays in the zone of the item.
StaysInZone(W, items) ==
    W.pc \in {"push", "restore"} => \A b \in W.todo : InZone(b, items[W.item])

ValuesOK(W, items, S, K, O, P) == Tells(W, items, S, K, O, P) /\ StaysInZone(W, items)

VInv ==
    \A w \in Workers :
        worker[w].pc \in Holding =>
            ValuesOK(worker[w], request[worker[w].cs].items, sent[worker[w].cs],
                     known[worker[w].cs], origin[w], provider)

-----------------------------------------------------------------------------
(* Items one after the other.                                              *)

\* A non-empty set of positions has a last one.
LEMMA LastPosition ==
    ASSUME NEW n \in Nat, NEW S, S \subseteq 1 .. n, S # {}
    PROVE  \E m \in S : \A j \in S : j <= m
<1> DEFINE R == OpToRel(<, Nat)
           D == {n - j : j \in S}
<1>1. \A x, y \in Nat : y < x => <<y, x>> \in R
  BY DEF OpToRel
<1>2. IsWellFoundedOn(R, Nat)
  BY NatLessThanWellFounded
<1> HIDE DEF R
<1>3. D \subseteq Nat /\ D # {}
  <2>1. \A j \in S : n - j \in Nat
    OBVIOUS
  <2> QED
    BY <2>1
<1> HIDE DEF D
<1>4. PICK x \in D : \A y \in D : ~ (<<y, x>> \in R)
  BY <1>2, <1>3, WFMin
<1>5. \A y \in D : ~ (y < x)
  BY <1>1, <1>3, <1>4
<1>6. PICK m \in S : x = n - m
  BY DEF D
<1>7. ASSUME NEW j \in S PROVE j <= m
  <2>1. n - j \in D
    BY DEF D
  <2>2. ~ (n - j < n - m)
    BY <1>5, <1>6, <2>1
  <2> QED
    BY <2>2
<1> QED
  BY <1>7

\* The item on a key that comes next after item i.
LEMMA NextPosition ==
    ASSUME NEW items, NEW b, NEW k, NEW n \in Nat, NEW i \in 1 .. n,
           NEW m \in i + 1 .. n, Writes(items[m], b, k)
    PROVE  \E j \in i + 1 .. n : /\ Writes(items[j], b, k)
                                 /\ \A o \in i + 1 .. j - 1 : ~ Writes(items[o], b, k)
<1> DEFINE S == {j \in i + 1 .. n : Writes(items[j], b, k)}
           R == OpToRel(<, Nat)
<1>1. \A x, y \in Nat : y < x => <<y, x>> \in R
  BY DEF OpToRel
<1>2. IsWellFoundedOn(R, Nat)
  BY NatLessThanWellFounded
<1> HIDE DEF R
<1>3. S \subseteq Nat /\ S # {}
  OBVIOUS
<1>4. PICK j \in S : \A y \in S : ~ (<<y, j>> \in R)
  <2> HIDE DEF S
  <2> QED BY <1>2, <1>3, WFMin
<1>5. \A y \in S : ~ (y < j)
  BY <1>1, <1>3, <1>4
<1>6. ASSUME NEW o \in i + 1 .. j - 1 PROVE ~ Writes(items[o], b, k)
  <2>1. o < j /\ o \in i + 1 .. n
    OBVIOUS
  <2> QED BY <1>5, <2>1
<1> QED BY <1>6

\* A write is the content of the item's key.
LEMMA WrittenIs ==
    ASSUME NEW it \in Item, NEW contents \in Contents, Parses(it), Writable(it)
    PROVE  /\ KeyOf(it) \in Keys
           /\ Written(it, contents) = [contents EXCEPT ![KeyOf(it)] = Image(it)]
BY DEF Written, KeyOf, Image, Item, Parses, Writable, Snapshots

\* With a before_value where one is due, and an update that keeps the key, so
\* is what undoes it.
LEMMA UndoneIs ==
    ASSUME NEW it \in Item, NEW contents \in Contents, Parses(it), Writable(it),
           it.op \in Operations, it.op # "create" => it.before # NULL,
           it.op = "update" => it.before.key = it.after.key
    PROVE  Undone(it, contents) = [contents EXCEPT ![KeyOf(it)] = BeforeImage(it)]
BY DEF Undone, KeyOf, BeforeImage, Item, Parses, Writable, Snapshots, Operations

\* An item of another zone does not count.
LEMMA FollowsOther ==
    ASSUME NEW contents, NEW before, NEW items, NEW n \in Nat \ {0}, NEW b,
           ~ InZone(b, items[n])
    PROVE  Follows(contents, before, items, n, b)
              <=> Follows(contents, before, items, n - 1, b)
<1>1. \A k : ~ Writes(items[n], b, k)
  BY DEF Writes
<1>2. \A i : i \in 1 .. n <=> i \in 1 .. n - 1 \/ i = n
  OBVIOUS
<1>3. \A i \in 1 .. n - 1 : \A j : j \in i + 1 .. n <=> j \in i + 1 .. n - 1 \/ j = n
  OBVIOUS
<1> QED
  BY <1>1, <1>2, <1>3 DEF Follows

\* The next item is written.
LEMMA FollowsWritten ==
    ASSUME NEW contents \in Contents, NEW before, NEW items, NEW n \in Nat \ {0}, NEW b,
           items[n] \in Item, Parses(items[n]), Writable(items[n]), InZone(b, items[n]),
           Follows(contents, before, items, n - 1, b)
    PROVE  Follows(Written(items[n], contents), before, items, n, b)
<1> DEFINE it == items[n]
           after == Written(it, contents)
<1>1. KeyOf(it) \in Keys /\ after = [contents EXCEPT ![KeyOf(it)] = Image(it)]
  BY WrittenIs
<1>2. \A k \in Keys : after[k] = IF k = KeyOf(it) THEN Image(it) ELSE contents[k]
  BY <1>1 DEF Contents
<1> HIDE DEF after
<1> SUFFICES ASSUME NEW k \in Keys
             PROVE  \/ /\ \A i \in 1 .. n : ~ Writes(items[i], b, k)
                       /\ after[k] = before[k]
                    \/ \E i \in 1 .. n :
                          /\ Writes(items[i], b, k)
                          /\ \A j \in i + 1 .. n : ~ Writes(items[j], b, k)
                          /\ after[k] = Image(items[i])
  BY DEF Follows, after
<1>3. CASE k = KeyOf(it)
  <2>1. /\ n \in 1 .. n /\ Writes(items[n], b, k)
        /\ \A j \in n + 1 .. n : ~ Writes(items[j], b, k)
        /\ after[k] = Image(items[n])
    BY <1>2, <1>3 DEF Writes
  <2> QED
    BY <2>1
<1>4. CASE k # KeyOf(it)
  <2>1. ~ Writes(items[n], b, k) /\ after[k] = contents[k]
    BY <1>2, <1>4 DEF Writes
  <2>2. CASE /\ \A i \in 1 .. n - 1 : ~ Writes(items[i], b, k)
             /\ contents[k] = before[k]
    <3>1. \A i \in 1 .. n : i \in 1 .. n - 1 \/ i = n
      OBVIOUS
    <3> QED
      BY <2>1, <2>2, <3>1
  <2>3. CASE \E i \in 1 .. n - 1 :
                /\ Writes(items[i], b, k)
                /\ \A j \in i + 1 .. n - 1 : ~ Writes(items[j], b, k)
                /\ contents[k] = Image(items[i])
    <3>1. PICK i \in 1 .. n - 1 :
             /\ Writes(items[i], b, k)
             /\ \A j \in i + 1 .. n - 1 : ~ Writes(items[j], b, k)
             /\ contents[k] = Image(items[i])
      BY <2>3
    <3>2. i \in 1 .. n /\ \A j \in i + 1 .. n : j \in i + 1 .. n - 1 \/ j = n
      OBVIOUS
    <3> QED
      BY <2>1, <3>1, <3>2
  <2> QED
    BY <2>2, <2>3 DEF Follows
<1> QED
  BY <1>3, <1>4

\* If an item before i writes the key of i, the last such item shadows it.
LEMMA SomeShadows ==
    ASSUME NEW items \in Seq(Item), NEW i \in DOMAIN items, NEW b, InZone(b, items[i]),
           NEW j \in 1 .. i - 1, Writes(items[j], b, KeyOf(items[i]))
    PROVE  \E m \in DOMAIN items : Shadows(items, m, i)
<1> DEFINE S == {m \in 1 .. i - 1 : Writes(items[m], b, KeyOf(items[i]))}
<1>1. DOMAIN items = 1 .. Len(items) /\ Len(items) \in Nat /\ i \in Nat /\ i - 1 \in Nat
  OBVIOUS
<1>2. S \subseteq 1 .. i - 1 /\ S # {}
  OBVIOUS
<1>3. PICK m \in S : \A o \in S : o <= m
  <2> HIDE DEF S
  <2> QED BY <1>1, <1>2, LastPosition
<1>4. m \in DOMAIN items /\ m < i
  BY <1>1
<1>5. /\ KeyOf(items[m]) = KeyOf(items[i])
      /\ RecordZone[items[m].record] = RecordZone[items[i].record]
  BY DEF Writes, InZone
<1>6. ASSUME NEW o \in m + 1 .. i - 1
      PROVE  ~ (/\ KeyOf(items[o]) = KeyOf(items[i])
                /\ RecordZone[items[o].record] = RecordZone[items[i].record])
  <2>1. o \in 1 .. i - 1 /\ ~ (o <= m)
    BY <1>1, <1>4
  <2>2. o \notin S
    BY <1>3, <2>1
  <2> QED
    BY <2>1, <2>2 DEF Writes, InZone
<1> QED
  BY <1>4, <1>5, <1>6 DEF Shadows

\* The last item is undone.
LEMMA FollowsUndone ==
    ASSUME NEW contents \in Contents, NEW before, NEW items \in Seq(Item),
           NEW n \in DOMAIN items, NEW b, InZone(b, items[n]),
           Parses(items[n]), Writable(items[n]), items[n].op \in Operations,
           items[n].op # "create" => items[n].before # NULL,
           items[n].op = "update" => items[n].before.key = items[n].after.key,
           Truthful(items, n, before),
           Follows(contents, before, items, n, b)
    PROVE  Follows(Undone(items[n], contents), before, items, n - 1, b)
<1> DEFINE it == items[n]
           after == Undone(it, contents)
<1>1. it \in Item /\ n \in Nat \ {0} /\ n <= Len(items) /\ Len(items) \in Nat
  OBVIOUS
<1>2. KeyOf(it) \in Keys /\ after = [contents EXCEPT ![KeyOf(it)] = BeforeImage(it)]
  BY <1>1, WrittenIs, UndoneIs
<1>3. \A k \in Keys : after[k] = IF k = KeyOf(it) THEN BeforeImage(it) ELSE contents[k]
  BY <1>2 DEF Contents
<1> HIDE DEF after
<1> SUFFICES ASSUME NEW k \in Keys
             PROVE  \/ /\ \A i \in 1 .. n - 1 : ~ Writes(items[i], b, k)
                       /\ after[k] = before[k]
                    \/ \E i \in 1 .. n - 1 :
                          /\ Writes(items[i], b, k)
                          /\ \A j \in i + 1 .. n - 1 : ~ Writes(items[j], b, k)
                          /\ after[k] = Image(items[i])
  BY DEF Follows, after
<1>4. CASE k = KeyOf(it)
  <2>1. after[k] = BeforeImage(it)
    BY <1>3, <1>4
  <2>2. CASE \E j \in DOMAIN items : Shadows(items, j, n) /\ BeforeImage(it) = Image(items[j])
    <3>1. PICK j \in DOMAIN items : Shadows(items, j, n) /\ BeforeImage(it) = Image(items[j])
      BY <2>2
    <3>2. /\ j \in 1 .. n - 1
          /\ KeyOf(items[j]) = k /\ RecordZone[items[j].record] = RecordZone[it.record]
          /\ \A o \in j + 1 .. n - 1 :
                ~ (KeyOf(items[o]) = k /\ RecordZone[items[o].record] = RecordZone[it.record])
      BY <1>1, <1>4, <3>1 DEF Shadows
    <3>3. Writes(items[j], b, k) /\ \A o \in j + 1 .. n - 1 : ~ Writes(items[o], b, k)
      BY <3>2 DEF Writes, InZone
    <3> QED
      BY <2>1, <3>1, <3>2, <3>3
  <2>3. CASE /\ \A j \in DOMAIN items : ~ Shadows(items, j, n)
             /\ BeforeImage(it) = before[KeyOf(it)]
    BY <1>4, <2>1, <2>3, SomeShadows
  <2> QED
    BY <2>2, <2>3 DEF Truthful
<1>5. CASE k # KeyOf(it)
  <2>1. ~ Writes(items[n], b, k) /\ after[k] = contents[k]
    BY <1>3, <1>5 DEF Writes
  <2>2. CASE /\ \A i \in 1 .. n : ~ Writes(items[i], b, k)
             /\ contents[k] = before[k]
    <3>1. \A i \in 1 .. n - 1 : i \in 1 .. n
      BY <1>1
    <3> QED
      BY <2>1, <2>2, <3>1
  <2>3. CASE \E i \in 1 .. n :
                /\ Writes(items[i], b, k)
                /\ \A j \in i + 1 .. n : ~ Writes(items[j], b, k)
                /\ contents[k] = Image(items[i])
    <3>1. PICK i \in 1 .. n :
             /\ Writes(items[i], b, k)
             /\ \A j \in i + 1 .. n : ~ Writes(items[j], b, k)
             /\ contents[k] = Image(items[i])
      BY <2>3
    <3>2. i # n
      BY <2>1, <3>1
    <3>3. i \in 1 .. n - 1 /\ \A j \in i + 1 .. n - 1 : j \in i + 1 .. n
      BY <1>1, <3>2
    <3> QED
      BY <2>1, <3>1, <3>3
  <2> QED
    BY <2>2, <2>3 DEF Follows
<1> QED
  BY <1>4, <1>5

-----------------------------------------------------------------------------
(* The steps of the apply loop.                                            *)

\* What a state says depends on the number of items only: a step that changes
\* no provider and no history says the same if it counts the same.
LEMMA TellsSame ==
    ASSUME NEW W, NEW V, NEW items, NEW S, NEW K, NEW O, NEW P,
           Tells(W, items, S, K, O, P),
           V.applied = W.applied,
           Telling(V, items, S, K, O) => Telling(W, items, S, K, O),
           Telling(V, items, S, K, O) =>
              \A b \in K : Follows(P[b], O[b], items, Stage(W, b), b)
                             => Follows(P[b], O[b], items, Stage(V, b), b)
    PROVE  Tells(V, items, S, K, O, P)
BY DEF Tells

LEMMA ValuesStep == OneWorker /\ IInv /\ DInv /\ VInv /\ [Next]_vars => VInv'
<1> SUFFICES ASSUME OneWorker, IInv, DInv, VInv, [Next]_vars,
                    NEW w \in Workers, worker'[w].pc \in Holding
             PROVE  ValuesOK(worker'[w], request'[worker'[w].cs].items,
                             sent'[worker'[w].cs], known'[worker'[w].cs], origin'[w],
                             provider')
  BY DEF VInv, Holding, Applying, RollingBack
<1> DEFINE W == worker[w]
           c == W.cs
           items == request[c].items
           S == sent[c]
           K == known[c]
           O == origin[w]
           V == worker'[w]
           Goal == ValuesOK(worker'[w], request'[worker'[w].cs].items,
                            sent'[worker'[w].cs], known'[worker'[w].cs], origin'[w],
                            provider')
<1>0. /\ W \in WorkerState /\ WorkerOK(W, items)
      /\ provider \in [Bindings -> Contents]
      /\ W.pc \in Holding => /\ Progress(W, items, S, K)
                             /\ ValuesOK(W, items, S, K, O, provider)
                             /\ items \in Seq(Item) /\ Len(items) \in Nat \ {0}
                             /\ c \in Changesets
                             /\ K \subseteq bindings /\ K \subseteq Bindings
                             /\ CreatedIsAcceptable
  <2>1. W.pc \in Holding => c \in Changesets /\ items \in Seq(Item) /\ Len(items) \in Nat \ {0}
    BY HeldItems, HeldType
  <2>2. W.pc \in Holding => K \subseteq bindings /\ K \subseteq Bindings
    BY <2>1 DEF DInv, KnownIsActive, IInv, TypeOK
  <2> QED
    BY <2>1, <2>2 DEF IInv, TypeOK, WorkersOK, DInv, WorkersProgress, VInv
<1>1. CASE UNCHANGED <<worker, provider, origin>>
  BY <1>0, <1>1, HeldRequest, HistoryUnmoved
\* Within a changeset the items, the known bindings and the origin stay.
<1>2. ASSUME W.pc \in Holding, V.cs = c, UNCHANGED <<request, known, origin>>,
             ValuesOK(V, items, sent'[c], K, O, provider')
      PROVE  Goal
  BY <1>2
\* Nothing is said of what a failed rollback leaves.
<1>3. ASSUME V.pc = "undofailed"
      PROVE  Goal
  BY <1>3 DEF ValuesOK, Tells, Telling, StaysInZone
\* An item that is worked on is one of the items.
<1>4. W.pc \in {"item", "push", "undo", "restore"} =>
        /\ W.pc \in Holding
        /\ W.item \in Nat \ {0} /\ W.item \in DOMAIN items /\ items[W.item] \in Item
        /\ CurrentItem(w) = items[W.item]
        /\ W.pc \in {"item", "push"} => W.item = W.applied + 1 /\ W.applied \in Nat
  BY <1>0 DEF WorkerOK, InRange, WorkerState, CurrentItem, ItemsOf, Holding, Applying,
              RollingBack
\* Where b is not in its zone, an item makes no difference.
<1>5. ASSUME NEW b, NEW contents, W.pc \in {"item", "push", "undo", "restore"},
             ~ InZone(b, items[W.item])
      PROVE  Follows(contents, O[b], items, W.item, b)
                <=> Follows(contents, O[b], items, W.item - 1, b)
  BY <1>4, <1>5, FollowsOther
\* An item fails before anything is written to b, or b has it and more has
\* been written than the applied items.
<1>6. ASSUME W.pc \in {"item", "push"}, V.pc = "failed", V.cs = c, V.applied = W.applied,
             UNCHANGED <<request, known, origin, sent, provider>>
      PROVE  Goal
  <2>1. W.pc \in Holding /\ W.item = W.applied + 1 /\ W.applied \in Nat
    BY <1>4, <1>6
  <2>2. Tells(W, items, S, K, O, provider) /\ Telling(W, items, S, K, O)
    BY <1>0, <1>6, <2>1 DEF ValuesOK, Telling
  <2>3. ASSUME Clean(V, S), NEW b \in K
        PROVE  Follows(provider[b], O[b], items, W.applied, b)
    <3>1. Follows(provider[b], O[b], items, Stage(W, b), b)
      BY <2>2 DEF Tells
    <3>2. CASE Stage(W, b) = W.applied
      BY <3>1, <3>2
    <3>3. CASE Stage(W, b) # W.applied
      <4>1. W.pc = "push" /\ b \notin W.todo /\ Stage(W, b) = W.item
        BY <1>6, <3>3 DEF Stage
      <4>2. <<W.item, b>> \notin S
        BY <1>6, <2>1, <2>3 DEF Clean
      <4>3. ~ InZone(b, items[W.item])
        BY <1>0, <2>1, <4>1, <4>2 DEF Progress, Complete
      <4>4. W.item - 1 = W.applied
        BY <2>1
      <4> QED
        BY <1>5, <3>1, <4>1, <4>3, <4>4
    <3> QED
      BY <3>2, <3>3
  <2>4. \A b : Stage(V, b) = W.applied
    BY <1>6 DEF Stage
  <2>5. Telling(V, items, S, K, O) => Clean(V, S)
    BY <1>6 DEF Telling
  <2>6. ValuesOK(V, items, S, K, O, provider)
    BY <1>6, <2>3, <2>4, <2>5 DEF ValuesOK, Tells, StaysInZone
  <2> QED
    BY <1>2, <1>6, <2>1, <2>6
<1>7. ASSUME WorkerStep(w)
      PROVE  Goal
  <2>1. CASE Poll(w) \/ Commit(w) \/ Freeze(w) \/ CloseRolledBack(w)
             \/ CloseRollbackFailed(w) \/ \E d \in Changesets : Lost(w, d)
    <3>1. PICK rows : worker' = [worker EXCEPT ![w] = Return(rows)]
      BY <2>1 DEF Poll, Lost, Commit, Freeze, CloseRolledBack, CloseRollbackFailed, Close
    <3>2. V.pc \notin Holding
      BY <3>1 DEF Return, Holding, Applying, RollingBack, IInv, TypeOK
    <3> QED BY <3>2
  <2>2. ASSUME NEW d \in Changesets, Claim(w, d)
        PROVE  Goal
    <3>1. /\ V.pc = "load" /\ V.applied = 0 /\ V.cs = d
          /\ UNCHANGED provider
          /\ origin'[w] = provider
      BY <1>0, <2>2 DEF Claim, WorkerOK, Idle, WorkerState, IInv, TypeOK
    <3>2. \A b : Stage(V, b) = 0
      BY <3>1 DEF Stage
    <3>3. \A b, its : Follows(provider'[b], origin'[w][b], its, 0, b)
      BY <3>1 DEF Follows
    <3> QED
      BY <3>1, <3>2, <3>3 DEF ValuesOK, Tells, StaysInZone
  <2>3. CASE Load(w)
    <3>1. /\ W.pc = "load" /\ V.pc = "item" /\ W.pc \in Holding
          /\ V.cs = c /\ V.applied = W.applied
          /\ UNCHANGED <<request, known, origin, sent, provider>>
      BY <1>0, <2>3 DEF Load, Local, db, history, Holding, Applying, WorkerState, IInv, TypeOK
    <3>2. \A b : Stage(V, b) = Stage(W, b)
      BY <3>1 DEF Stage
    <3>3. ValuesOK(V, items, S, K, O, provider)
      BY <1>0, <3>1, <3>2, TellsSame DEF ValuesOK, StaysInZone, Telling
    <3> QED BY <1>2, <3>1, <3>3
  <2>4. CASE StartItem(w)
    <3>1. /\ W.pc = "item" /\ V.pc = "push" /\ W.pc \in Holding
          /\ V.cs = c /\ V.applied = W.applied /\ V.item = W.item
          /\ V.todo = Targets(items[W.item])
          /\ UNCHANGED <<request, known, origin, sent, provider>>
      BY <1>0, <1>4, <2>4 DEF StartItem, Local, db, history, Holding, Applying, WorkerState,
         IInv, TypeOK
    <3>2. W.item = W.applied + 1 /\ W.applied \in Nat
      BY <1>4, <3>1
    <3>3. \A b \in K : Stage(W, b) = W.item - 1
      BY <3>1, <3>2 DEF Stage
    <3>4. \A b \in K : Stage(V, b) = IF InZone(b, items[W.item]) THEN W.item - 1 ELSE W.item
      <4>1. \A b \in K : b \in V.todo <=> InZone(b, items[W.item])
        BY <1>0, <3>1 DEF Targets, InZone
      <4> QED
        BY <3>1, <3>2, <4>1 DEF Stage
    <3>5. Tells(V, items, S, K, O, provider)
      BY <1>0, <1>5, <3>1, <3>3, <3>4, TellsSame DEF ValuesOK, Telling
    <3>6. StaysInZone(V, items)
      BY <3>1 DEF StaysInZone, Targets, InZone
    <3> QED BY <1>2, <3>1, <3>5, <3>6 DEF ValuesOK
  <2>5. CASE Refuse(w)
    <3>1. /\ W.pc \in {"item", "push"} /\ V.pc = "failed"
          /\ V.cs = c /\ V.applied = W.applied
          /\ UNCHANGED <<request, known, origin, sent, provider>>
      BY <1>0, <2>5 DEF Refuse, Local, db, history, WorkerState, IInv, TypeOK
    <3> QED BY <1>6, <3>1
  <2>6. CASE ItemDone(w)
    <3>1. /\ W.pc = "push" /\ V.pc \in {"item", "commit"} /\ W.pc \in Holding
          /\ W.todo = {}
          /\ V.cs = c /\ V.applied = W.applied + 1
          /\ UNCHANGED <<request, known, origin, sent, provider>>
      BY <1>0, <2>6 DEF ItemDone, AfterItem, Local, db, history, Holding, Applying,
         WorkerState, IInv, TypeOK
    <3>2. \A b : Stage(V, b) = Stage(W, b)
      BY <1>4, <3>1 DEF Stage
    <3> QED
      BY <1>0, <1>2, <3>1, <3>2 DEF ValuesOK, Tells, Telling, StaysInZone
  <2>7. CASE BeginRollback(w)
    <3>1. /\ W.pc = "failed" /\ W.pc \in Holding
          /\ V.cs = c /\ V.applied = W.applied /\ V.item = W.applied
          /\ V.pc = IF W.applied = 0 THEN "undone" ELSE "undo"
          /\ UNCHANGED <<request, known, origin, sent, provider>>
      BY <1>0, <2>7 DEF BeginRollback, UndoFrom, history, Holding, Applying, WorkerState,
         IInv, TypeOK
    <3>2. \A b : Stage(V, b) = Stage(W, b)
      BY <3>1 DEF Stage
    <3>3. Telling(V, items, S, K, O) => Telling(W, items, S, K, O)
      BY <3>1 DEF Telling, Clean
    <3>4. ValuesOK(V, items, S, K, O, provider)
      BY <1>0, <3>1, <3>2, <3>3, TellsSame DEF ValuesOK, StaysInZone
    <3> QED BY <1>2, <3>1, <3>4
  <2>8. CASE StartUndo(w)
    <3>1. /\ W.pc = "undo" /\ V.pc = "restore" /\ W.pc \in Holding
          /\ V.cs = c /\ V.applied = W.applied /\ V.item = W.item
          /\ V.todo = Targets(items[W.item])
          /\ UNCHANGED <<request, known, origin, sent, provider>>
      BY <1>0, <1>4, <2>8 DEF StartUndo, Local, db, history, Holding, RollingBack, WorkerState,
         IInv, TypeOK
    <3>2. \A b \in K : Stage(W, b) = W.item
      BY <3>1 DEF Stage
    <3>3. \A b \in K : Stage(V, b) = IF InZone(b, items[W.item]) THEN W.item ELSE W.item - 1
      BY <1>0, <3>1 DEF Stage, Targets, InZone
    <3>4. Tells(V, items, S, K, O, provider)
      <4>1. Telling(V, items, S, K, O) => Telling(W, items, S, K, O)
        BY <3>1 DEF Telling, Clean
      <4>2. ASSUME NEW b \in K, Follows(provider[b], O[b], items, Stage(W, b), b)
            PROVE  Follows(provider[b], O[b], items, Stage(V, b), b)
        BY <1>5, <3>1, <3>2, <3>3, <4>2
      <4>3. Tells(W, items, S, K, O, provider)
        BY <1>0, <3>1 DEF ValuesOK
      <4> QED
        BY <3>1, <4>1, <4>2, <4>3, TellsSame
    <3>5. StaysInZone(V, items)
      BY <3>1 DEF StaysInZone, Targets, InZone
    <3> QED BY <1>2, <3>1, <3>4, <3>5 DEF ValuesOK
  <2>9. CASE UndoDone(w)
    <3>1. /\ W.pc = "restore" /\ W.todo = {} /\ W.pc \in Holding
          /\ V.cs = c /\ V.applied = W.applied /\ V.item = W.item - 1
          /\ V.pc = IF W.item - 1 = 0 THEN "undone" ELSE "undo"
          /\ UNCHANGED <<request, known, origin, sent, provider>>
      BY <1>0, <2>9 DEF UndoDone, UndoFrom, Local, db, history, Holding, RollingBack,
         WorkerState, IInv, TypeOK
    <3>2. \A b : Stage(V, b) = Stage(W, b)
      BY <3>1 DEF Stage
    <3>3. Telling(V, items, S, K, O) => Telling(W, items, S, K, O)
      BY <3>1 DEF Telling, Clean
    <3>4. ValuesOK(V, items, S, K, O, provider)
      BY <1>0, <3>1, <3>2, <3>3, TellsSame DEF ValuesOK, StaysInZone
    <3> QED BY <1>2, <3>1, <3>4
  <2>10. ASSUME NEW a \in Bindings, Push(w, a)
         PROVE  Goal
    <3>1. /\ W.pc = "push" /\ V.pc = "push" /\ W.pc \in Holding
          /\ a \in W.todo
          /\ V.cs = c /\ V.applied = W.applied /\ V.item = W.item /\ V.todo = W.todo \ {a}
          /\ UNCHANGED <<request, known, origin>>
          /\ provider' = [provider EXCEPT ![a] = Written(items[W.item], provider[a])]
          /\ Writable(items[W.item])
      BY <1>0, <1>4, <2>10 DEF Push, Land, db, Holding, Applying, WorkerState, IInv, TypeOK
    <3>2. W.item = W.applied + 1 /\ W.applied \in Nat /\ Parses(items[W.item])
      BY <1>0, <1>4, <3>1 DEF WorkerOK, Readable
    <3>3. /\ Tells(W, items, S, K, O, provider) /\ Telling(W, items, S, K, O)
          /\ InZone(a, items[W.item])
      BY <1>0, <3>1 DEF ValuesOK, Telling, StaysInZone
    <3>4. ASSUME NEW b \in K
          PROVE  Follows(provider'[b], O[b], items, Stage(V, b), b)
      <4>1. Follows(provider[b], O[b], items, Stage(W, b), b) /\ b \in Bindings
        BY <1>0, <3>1, <3>3 DEF Tells
      <4>2. CASE b = a
        <5>1. Stage(W, b) = W.item - 1 /\ Stage(V, b) = W.item
          BY <3>1, <3>2, <4>2 DEF Stage
        <5>2. provider'[b] = Written(items[W.item], provider[b]) /\ provider[b] \in Contents
          BY <1>0, <3>1, <4>1, <4>2
        <5>3. InZone(b, items[W.item]) /\ items[W.item] \in Item /\ W.item \in Nat \ {0}
          BY <1>4, <3>1, <3>3, <4>2
        <5> DEFINE n == W.item
                   before == provider[b]
        <5>4. /\ before \in Contents /\ n \in Nat \ {0} /\ items[n] \in Item
              /\ Parses(items[n]) /\ Writable(items[n]) /\ InZone(b, items[n])
              /\ Follows(before, O[b], items, n - 1, b)
          BY <3>1, <3>2, <4>1, <5>1, <5>2, <5>3
        <5> HIDE DEF n, before, W, items, O
        <5>5. Follows(Written(items[n], before), O[b], items, n, b)
          BY <5>4, FollowsWritten
        <5> QED
          BY <5>1, <5>2, <5>5 DEF n, before
      <4>3. CASE b # a
        <5>1. Stage(V, b) = Stage(W, b)
          BY <3>1, <4>3 DEF Stage
        <5>2. provider'[b] = provider[b]
          BY <1>0, <3>1, <4>1, <4>3
        <5> QED
          BY <4>1, <5>1, <5>2
      <4> QED
        BY <4>2, <4>3
    <3>5. ValuesOK(V, items, sent'[c], K, O, provider')
      BY <1>0, <3>1, <3>4 DEF ValuesOK, Tells, StaysInZone
    <3> QED BY <1>2, <3>1, <3>5
  <2>11. ASSUME NEW a \in Bindings, Restore(w, a)
         PROVE  Goal
    <3>1. /\ W.pc = "restore" /\ V.pc = "restore" /\ W.pc \in Holding
          /\ a \in W.todo
          /\ V.cs = c /\ V.applied = W.applied /\ V.item = W.item /\ V.todo = W.todo \ {a}
          /\ UNCHANGED <<request, known, origin, sent>>
          /\ provider' = [provider EXCEPT ![a] = Undone(items[W.item], provider[a])]
      BY <1>0, <1>4, <2>11 DEF Restore, db, history, Holding, RollingBack, WorkerState, IInv,
         TypeOK
    <3>2. Tells(W, items, S, K, O, provider) /\ StaysInZone(W, items)
      BY <1>0, <3>1 DEF ValuesOK
    <3>3. ASSUME Telling(V, items, S, K, O), NEW b \in K
          PROVE  Follows(provider'[b], O[b], items, Stage(V, b), b)
      <4>1. AccurateItems(items, K, O) /\ Telling(W, items, S, K, O)
        BY <3>1, <3>3 DEF Telling, Clean
      <4>2. Follows(provider[b], O[b], items, Stage(W, b), b) /\ b \in Bindings
        BY <1>0, <3>1, <3>2, <4>1 DEF Tells
      <4>3. CASE b = a
        <5>1. Stage(W, b) = W.item /\ Stage(V, b) = W.item - 1
          BY <3>1, <4>3 DEF Stage
        <5>2. provider'[b] = Undone(items[W.item], provider[b]) /\ provider[b] \in Contents
          BY <1>0, <3>1, <4>2, <4>3
        <5>3. InZone(b, items[W.item]) /\ W.item \in DOMAIN items
          BY <1>4, <3>1, <3>2, <4>3 DEF StaysInZone
        <5>4. /\ Parses(items[W.item]) /\ Writable(items[W.item])
              /\ items[W.item].op # "create" => items[W.item].before # NULL
              /\ items[W.item].op = "update" =>
                    items[W.item].before.key = items[W.item].after.key
              /\ Truthful(items, W.item, O[b])
          BY <4>1, <5>3 DEF AccurateItems
        <5>5. items[W.item].op \in Operations
          <6>1. Acceptable(request[c])
            BY <1>0, <3>1, HeldStatus DEF CreatedIsAcceptable
          <6> QED
            BY <5>3, <6>1 DEF Acceptable
        <5>6. items \in Seq(Item)
          BY <1>0, <3>1
        <5> QED
          BY <4>2, <5>1, <5>2, <5>3, <5>4, <5>5, <5>6, FollowsUndone
      <4>4. CASE b # a
        <5>1. Stage(V, b) = Stage(W, b)
          BY <3>1, <4>4 DEF Stage
        <5>2. provider'[b] = provider[b]
          BY <1>0, <3>1, <4>2, <4>4
        <5> QED
          BY <4>2, <5>1, <5>2
      <4> QED
        BY <4>3, <4>4
    <3>4. ValuesOK(V, items, S, K, O, provider')
      BY <3>1, <3>2, <3>3 DEF ValuesOK, Tells, StaysInZone
    <3> QED BY <1>2, <3>1, <3>4
  <2> QED
    BY <1>7, <2>1, <2>2, <2>3, <2>4, <2>5, <2>6, <2>7, <2>8, <2>9, <2>10, <2>11 DEF WorkerStep
<1>8. ASSUME FaultStep(w)
      PROVE  Goal
  <2>1. CASE Abandon(w) \/ Crash(w) \/ \E d \in Changesets : ClaimFails(w, d)
    <3>1. PICK rows : worker' = [worker EXCEPT ![w] = Return(rows)]
      BY <2>1 DEF Abandon, Crash, ClaimFails
    <3>2. V.pc \notin Holding
      BY <3>1 DEF Return, Holding, Applying, RollingBack, IInv, TypeOK
    <3> QED BY <3>2
  <2>2. CASE ItemFails(w)
    <3>1. /\ W.pc \in {"item", "push"} /\ V.pc = "failed"
          /\ V.cs = c /\ V.applied = W.applied
          /\ UNCHANGED <<request, known, origin, sent, provider>>
      BY <1>0, <2>2 DEF ItemFails, db, history, WorkerState, IInv, TypeOK
    <3> QED BY <1>6, <3>1
  \* The write that landed is one too many for the applied items.
  <2>3. ASSUME NEW a \in Bindings, PushLandsAndFails(w, a)
        PROVE  Goal
    <3>1. /\ W.pc = "push" /\ V.pc = "failed" /\ W.pc \in Holding
          /\ V.cs = c /\ V.applied = W.applied
          /\ UNCHANGED <<request, known, origin>>
          /\ sent' = [sent EXCEPT ![c] = sent[c] \union {<<W.item, a>>}]
      BY <1>0, <2>3 DEF PushLandsAndFails, Land, db, Holding, Applying, WorkerState, IInv,
         TypeOK
    <3>2. <<W.item, a>> \in sent'[c]
      BY <1>0, <3>1 DEF IInv, TypeOK
    <3>3. ~ Clean(V, sent'[c])
      BY <1>4, <3>1, <3>2 DEF Clean
    <3>4. ValuesOK(V, items, sent'[c], K, O, provider')
      BY <3>1, <3>3 DEF ValuesOK, Tells, Telling, StaysInZone
    <3> QED BY <1>2, <3>1, <3>4
  <2>4. CASE UndoFails(w) \/ \E b \in Bindings : RestoreLandsAndFails(w, b)
    <3>1. V.pc = "undofailed"
      BY <1>0, <2>4 DEF UndoFails, RestoreLandsAndFails, WorkerState, IInv, TypeOK
    <3> QED BY <1>3, <3>1
  <2> QED
    BY <1>8, <2>1, <2>2, <2>3, <2>4 DEF FaultStep
<1>9. CASE Api \/ UNCHANGED vars
  <2>1. UNCHANGED <<worker, provider, origin>>
    BY <1>9 DEF Api, CreateChangeset, ValidateRead, ValidateWrite, ValidateAbort,
                CreateProvider, history, vars
  <2> QED BY <1>1, <2>1
<1> QED
  BY <1>7, <1>8, <1>9 DEF Next, OneWorker

-----------------------------------------------------------------------------
(* The theorems.                                                           *)

LEMMA InitValues == Init => VInv
BY DEF Init, VInv, Return, Holding, Applying, RollingBack

\* The invariant behind the two theorems below: of one worker, what every
\* binding known at the claim holds is what the items worked off so far say.
THEOREM ValuesInductive == ASSUME OneWorker PROVE Spec => []VInv
<1>1. IInv /\ DInv /\ VInv /\ [Next]_vars => VInv'
  BY OneWorker, ValuesStep
<1> QED BY InitValues, Inductive, DeliveryInductive, <1>1, PTL DEF Spec

\* When "applied" is about to be written, the last item on each key of a zone
\* is what every binding of the zone known at the claim holds.
THEOREM AppliedAsWrittenHolds == ASSUME OneWorker PROVE Spec => []AppliedAsWritten
<1>1. IInv /\ VInv => AppliedAsWritten
  <2> SUFFICES ASSUME IInv, VInv,
                      NEW w \in Workers, worker[w].pc = "commit",
                      NEW i \in DOMAIN request[worker[w].cs].items,
                      NEW b \in known[worker[w].cs],
                      InZone(b, request[worker[w].cs].items[i]),
                      \A j \in DOMAIN request[worker[w].cs].items :
                         ~ Shadows(request[worker[w].cs].items, i, j)
               PROVE  provider[b][KeyOf(request[worker[w].cs].items[i])]
                         = Image(request[worker[w].cs].items[i])
    BY DEF AppliedAsWritten, ItemsOf
  <2> DEFINE W == worker[w]
             items == request[W.cs].items
             k == KeyOf(items[i])
             n == Len(items)
  <2>1. W.pc \in Holding /\ W.pc = "commit"
    BY DEF Holding, Applying
  <2>2. items \in Seq(Item) /\ n \in Nat /\ i \in 1 .. n /\ items[i] \in Item
    BY <2>1, HeldItems
  <2>3. W.applied = n /\ Parses(items[i]) /\ Writable(items[i])
    BY <2>1, <2>2 DEF IInv, WorkersOK, WorkerOK, InRange, Readable
  <2>4. Follows(provider[b], origin[w][b], items, n, b)
    <3>1. Stage(W, b) = n
      BY <2>1, <2>3 DEF Stage
    <3> QED
      BY <2>1, <3>1 DEF VInv, ValuesOK, Tells, Telling
  <2>5. k \in Keys
    BY <2>2, <2>3 DEF KeyOf, Item, Parses, Writable, Snapshots
  <2>6. Writes(items[i], b, k)
    BY DEF Writes
  <2>7. PICK m \in 1 .. n : /\ Writes(items[m], b, k)
                            /\ \A j \in m + 1 .. n : ~ Writes(items[j], b, k)
                            /\ provider[b][k] = Image(items[m])
    BY <2>2, <2>4, <2>5, <2>6 DEF Follows
  <2>8. m = i
    <3>1. ~ (m < i)
      <4> HIDE DEF n, items, k
      <4>0. n \in Nat /\ i \in 1 .. n /\ m \in 1 .. n
        BY <2>2
      <4>1. m < i => i \in m + 1 .. n
        BY <4>0
      <4> QED
        BY <2>6, <2>7, <4>1
    <3>2. ASSUME i < m PROVE FALSE
      <4>1. PICK j \in i + 1 .. n : /\ Writes(items[j], b, k)
                                    /\ \A o \in i + 1 .. j - 1 : ~ Writes(items[o], b, k)
        <5> HIDE DEF items, k, n
        <5>1. n \in Nat /\ i \in 1 .. n /\ m \in i + 1 .. n /\ Writes(items[m], b, k)
          BY <2>2, <2>7, <3>2
        <5> QED
          BY <5>1, NextPosition
      <4>2. j \in DOMAIN items /\ i < j
        BY <2>2
      <4>3. KeyOf(items[i]) = KeyOf(items[j])
            /\ RecordZone[items[i].record] = RecordZone[items[j].record]
        BY <2>6, <4>1 DEF Writes, InZone
      <4>4. \A o \in i + 1 .. j - 1 :
               ~ (/\ KeyOf(items[o]) = KeyOf(items[j])
                  /\ RecordZone[items[o].record] = RecordZone[items[j].record])
        BY <2>6, <4>1, <4>3 DEF Writes, InZone
      <4>5. Shadows(items, i, j)
        BY <4>2, <4>3, <4>4 DEF Shadows
      <4> QED
        BY <4>2, <4>5
    <3> QED
      BY <2>2, <3>1, <3>2
  <2> QED
    BY <2>7, <2>8
<1> QED BY <1>1, Inductive, ValuesInductive, OneWorker, PTL

\* A rollback of a changeset with accurate snapshots, whose failing item wrote
\* nothing, gives every binding back what it held at the claim.
THEOREM RollbackRevertsHolds == ASSUME OneWorker PROVE Spec => []RollbackReverts
<1>1. IInv /\ VInv => RollbackReverts
  <2> SUFFICES ASSUME IInv, VInv,
                      NEW w \in Workers, worker[w].pc = "undone", Accurate(w),
                      \A write \in sent[worker[w].cs] : write[1] <= worker[w].applied,
                      NEW b \in known[worker[w].cs]
               PROVE  provider[b] = origin[w][b]
    BY DEF RollbackReverts, Reverted
  <2> DEFINE W == worker[w]
             items == request[W.cs].items
  <2>1. W.pc \in Holding /\ W.pc = "undone"
    BY DEF Holding, RollingBack
  <2>2. AccurateItems(items, known[W.cs], origin[w])
    BY DEF Accurate, AccurateItems, Truthful, ItemsOf
  <2>3. Follows(provider[b], origin[w][b], items, 0, b)
    <3>1. Stage(W, b) = 0
      BY <2>1 DEF Stage
    <3>2. Clean(W, sent[W.cs])
      BY DEF Clean
    <3> QED
      BY <2>1, <2>2, <3>1, <3>2 DEF VInv, ValuesOK, Tells, Telling
  <2>4. \A k \in Keys : provider[b][k] = origin[w][b][k]
    BY <2>3 DEF Follows
  <2>5. b \in Bindings
    BY <2>1, HeldType DEF IInv, TypeOK
  <2>6. provider[b] \in Contents /\ origin[w][b] \in Contents
    BY <2>5 DEF IInv, TypeOK
  <2> QED
    BY <2>4, <2>6 DEF Contents
<1> QED BY <1>1, Inductive, ValuesInductive, OneWorker, PTL

=============================================================================
