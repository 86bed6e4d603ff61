-------------------------- MODULE DeviceQueueProofs --------------------------
(***************************************************************************)
(* What the device's queue owes its owner, for any number of tabs, cards,  *)
(* fields and operations.  The invariant has three parts.  DQBase holds    *)
(* however the operations arrive: every queued operation stems from one    *)
(* that was persisted, ids are never used twice, and only what was         *)
(* persisted is settled.  DQShape does too: the queue is in the order of   *)
(* the stamps, and another merge changes nothing that it will do.  DQOrder *)
(* holds as long as operations are persisted in the order of their stamps, *)
(* and says what the queue still owes each of them (Orderly): a merge, an  *)
(* acknowledgement and a clear-all each keep it, by what                   *)
(* PendingQueueProofs shows of the merge of a queue.                       *)
(***************************************************************************)
EXTENDS DeviceQueue, PendingQueueProofs, FiniteSetTheorems

-----------------------------------------------------------------------------
(* The operations that arrived, as a sequence a, and those that stem from  *)
(* them.                                                                   *)

OpType == [kind : Kinds, card : Cards, id : Nat, at : Nat, base : Int, epoch : Int,
           mask : SUBSET Fields, val : [Fields -> Nat]]

\* x is the i-th that arrived, or a patch that took others in under its id.
Stems(a, i, x) == /\ x.id = a[i].id /\ x.kind = a[i].kind
                  /\ x.card = a[i].card /\ x.at = a[i].at
                  /\ x.kind # "patch" => x = a[i]
From(a) == {x \in OpType : \E i \in DOMAIN a : Stems(a, i, x)}

Unique(a) == \A i, j \in DOMAIN a : a[i].id = a[j].id => i = j
IdsOf(a) == {a[i].id : i \in DOMAIN a}
Place(a) == [n \in IdsOf(a) |-> CHOOSE i \in DOMAIN a : a[i].id = n]
InOrder(a) == \A i, j \in DOMAIN a : i < j => a[i].at <= a[j].at

\* The place of an id is that of the operation it stands for.
LEMMA PlaceIs ==
    ASSUME NEW a, Unique(a), NEW i \in DOMAIN a
    PROVE  a[i].id \in IdsOf(a) /\ Place(a)[a[i].id] = i
<1> DEFINE n == a[i].id
           k == CHOOSE j \in DOMAIN a : a[j].id = n
<1>1. n \in IdsOf(a)
  BY DEF IdsOf
<1>2. \E j \in DOMAIN a : a[j].id = n
  OBVIOUS
<1>3. k \in DOMAIN a /\ a[k].id = n
  BY <1>2, Zenon
<1>4. k = i
  BY <1>3, Zenon DEF Unique
<1>5. Place(a)[n] = k
  BY <1>1, Zenon DEF Place
<1> QED BY <1>1, <1>4, <1>5

\* Folding two patches of a card that stem from arrivals.
LEMMA FromFolds ==
    ASSUME NEW a
    PROVE  Timed(From(a)) /\ Foldable(From(a)) /\ Patching(From(a))
<1>1. Timed(From(a))
  BY DEF Timed, From, OpType
<1>2. ASSUME NEW x \in From(a), NEW y \in From(a),
             x.kind = "patch", y.kind = "patch", x.card = y.card
      PROVE  LET n == FoldPatch(x, y) IN
             /\ n \in From(a) /\ n.kind = "patch" /\ n.id = y.id /\ n.card = y.card
             /\ n.mask = x.mask \cup y.mask
             /\ \A f \in y.mask : n.val[f] = y.val[f]
             /\ \A f \in x.mask \ y.mask : n.val[f] = x.val[f]
  <2> DEFINE n == FoldPatch(x, y)
             v == [f \in Fields |-> IF f \in y.mask THEN y.val[f] ELSE x.val[f]]
  <2>1. x \in OpType /\ y \in OpType
    BY DEF From
  <2>2. /\ x.mask \in SUBSET Fields /\ y.mask \in SUBSET Fields
        /\ x.val \in [Fields -> Nat] /\ y.val \in [Fields -> Nat] /\ DOMAIN y.val = Fields
    BY <2>1 DEF OpType
  <2>3. v \in [Fields -> Nat]
    BY <2>2
  <2>4. n = [y EXCEPT !.mask = x.mask \cup y.mask, !.val = v]
    BY <2>2 DEF FoldPatch
  <2> HIDE DEF n, v
  <2>5. /\ n \in OpType /\ n.kind = y.kind /\ n.id = y.id /\ n.card = y.card /\ n.at = y.at
        /\ n.mask = x.mask \cup y.mask /\ n.val = v
    BY <2>1, <2>2, <2>3, <2>4 DEF OpType
  <2>6. n \in From(a)
    BY <1>2, <2>5 DEF From, Stems
  <2>7. /\ \A f \in y.mask : v[f] = y.val[f]
        /\ \A f \in x.mask \ y.mask : v[f] = x.val[f]
    BY <2>2 DEF v
  <2> QED BY <1>2, <2>5, <2>6, <2>7 DEF n
<1>3. Patching(From(a))
  BY <1>2, Zenon DEF Patching
<1>4. Foldable(From(a))
  BY <1>2, Zenon DEF Foldable
<1> QED BY <1>1, <1>3, <1>4

\* An id stands for one operation, and for one thing that is not a patch.
LEMMA FromIds ==
    ASSUME NEW a, Unique(a)
    PROVE  /\ Identified(From(a))
           /\ \A x \in From(a) : /\ x.id \in IdsOf(a) /\ Place(a)[x.id] \in DOMAIN a
                                 /\ Stems(a, Place(a)[x.id], x)
<1>1. ASSUME NEW x \in From(a)
      PROVE  x.id \in IdsOf(a) /\ Place(a)[x.id] \in DOMAIN a /\ Stems(a, Place(a)[x.id], x)
  <2>1. PICK i \in DOMAIN a : Stems(a, i, x)
    BY DEF From
  <2>2. a[i].id \in IdsOf(a) /\ Place(a)[a[i].id] = i
    BY PlaceIs
  <2>3. x.id = a[i].id
    BY <2>1 DEF Stems
  <2> QED BY <2>1, <2>2, <2>3
<1>2. Identified(From(a))
  BY <1>1 DEF Identified, Stems
<1> QED BY <1>1, <1>2

\* Where arrivals are in the order of their stamps, so are the places.
LEMMA FromRanked ==
    ASSUME NEW a, Unique(a), InOrder(a), NEW n \in Nat, DOMAIN a = 1 .. n
    PROVE  Ranked(From(a), Place(a))
<1>1. ASSUME NEW x \in From(a)
      PROVE  Place(a)[x.id] \in 1 .. n /\ x.at \in Int /\ x.at = a[Place(a)[x.id]].at
  <2>1. Place(a)[x.id] \in DOMAIN a /\ Stems(a, Place(a)[x.id], x)
    BY FromIds
  <2>2. x.at \in Int
    BY DEF From, OpType
  <2>3. x.at = a[Place(a)[x.id]].at
    BY <2>1 DEF Stems
  <2> QED BY <2>1, <2>2, <2>3
<1>2. \A x \in From(a) : Place(a)[x.id] \in Nat
  BY <1>1
<1>3. ASSUME NEW x \in From(a), NEW y \in From(a), Place(a)[x.id] <= Place(a)[y.id]
      PROVE  x.at <= y.at
  <2> DEFINE i == Place(a)[x.id]
             j == Place(a)[y.id]
  <2>1. i \in 1 .. n /\ j \in 1 .. n /\ x.at = a[i].at /\ y.at = a[j].at
        /\ x.at \in Int /\ i <= j
    BY <1>1, <1>3
  <2> HIDE DEF i, j
  <2>2. CASE i = j
    BY <2>1, <2>2
  <2>3. CASE i < j
    BY <2>1, <2>3 DEF InOrder
  <2> QED BY <2>1, <2>2, <2>3
<1> QED BY <1>2, <1>3 DEF Ranked

\* One more arrival leaves the earlier ones in their places.
LEMMA FromAppend ==
    ASSUME NEW a \in Seq(OpType), NEW op \in OpType, op.id \notin IdsOf(a), Unique(a)
    PROVE  LET b == Append(a, op) IN
           /\ b \in Seq(OpType) /\ DOMAIN b = 1 .. Len(a) + 1 /\ DOMAIN a = 1 .. Len(a)
           /\ \A i \in DOMAIN a : b[i] = a[i]
           /\ b[Len(a) + 1] = op
           /\ Unique(b) /\ IdsOf(b) = IdsOf(a) \cup {op.id}
           /\ From(a) \subseteq From(b) /\ op \in From(b)
           /\ \A x \in From(a) : Place(b)[x.id] = Place(a)[x.id]
           /\ Place(b)[op.id] = Len(a) + 1
<1> DEFINE b == Append(a, op)
<1>1. /\ b \in Seq(OpType) /\ DOMAIN b = 1 .. Len(a) + 1 /\ DOMAIN a = 1 .. Len(a)
      /\ \A i \in DOMAIN a : b[i] = a[i]
      /\ b[Len(a) + 1] = op /\ Len(a) \in Nat
  <2>1. b \in Seq(OpType) /\ Len(b) = Len(a) + 1 /\ Len(a) \in Nat
        /\ (\A i \in 1 .. Len(a) : b[i] = a[i]) /\ b[Len(a) + 1] = op
    BY AppendProperties, LenProperties
  <2> HIDE DEF b
  <2> QED BY <2>1, LenProperties
<1> HIDE DEF b
<1>2. DOMAIN b = DOMAIN a \cup {Len(a) + 1} /\ Len(a) + 1 \notin DOMAIN a /\ Len(a) + 1 \in DOMAIN b
  BY <1>1
<1>3. Unique(b)
  BY <1>1, <1>2 DEF Unique, IdsOf
<1>4. IdsOf(b) = IdsOf(a) \cup {op.id}
  BY <1>1, <1>2 DEF IdsOf
<1>5. From(a) \subseteq From(b)
  BY <1>1, <1>2 DEF From, Stems
<1>6. op \in From(b)
  BY <1>1, <1>2 DEF From, Stems
<1>7. ASSUME NEW x \in From(a) PROVE Place(b)[x.id] = Place(a)[x.id]
  <2>1. PICK i \in DOMAIN a : x.id = a[i].id
    BY DEF From, Stems
  <2>2. Place(a)[a[i].id] = i
    BY PlaceIs
  <2>3. i \in DOMAIN b /\ b[i] = a[i]
    BY <1>1, <1>2
  <2>4. Place(b)[b[i].id] = i
    BY <1>3, <2>3, PlaceIs
  <2> QED BY <2>1, <2>2, <2>3, <2>4
<1>8. Place(b)[op.id] = Len(a) + 1
  BY <1>1, <1>2, <1>3, PlaceIs
<1> QED BY <1>1, <1>3, <1>4, <1>5, <1>6, <1>7, <1>8 DEF b

-----------------------------------------------------------------------------
(* What holds however the operations arrive.                               *)

DQTypes ==
    /\ arrived \in Seq(OpType)
    /\ past \in Seq(SUBSET Nat) /\ Len(past) = Len(arrived)
    /\ clock \in Nat /\ known \in Nat
    /\ draft \in [Tabs -> Seq(OpType)]
    /\ queue \in Seq(From(arrived)) /\ snapshot \in Seq(From(arrived))

\* Every operation has an id of its own, which its fields hold.
Own(x) == x.val = [f \in Fields |-> x.id]
DraftIds == {o.id : o \in UNION {ToSet(draft[t]) : t \in Tabs}}
Numbered ==
    /\ Unique(arrived)
    /\ \A t \in Tabs : \A k \in DOMAIN draft[t] :
          draft[t][k].id \notin IdsOf(arrived) /\ Own(draft[t][k])
    /\ \A t, u \in Tabs : \A k \in DOMAIN draft[t], l \in DOMAIN draft[u] :
          draft[t][k].id = draft[u][l].id => t = u /\ k = l
    /\ \E n \in Nat : IdsUsed = 1 .. n

\* Only what arrived is settled, and what was settled when an operation arrived
\* is settled when a later one does.
Settling ==
    /\ settled \subseteq IdsOf(arrived)
    /\ \A i \in DOMAIN past : /\ past[i] \subseteq settled
                              /\ \A j \in DOMAIN past : i <= j => past[i] \subseteq past[j]

DQBase == DQTypes /\ Numbered /\ Settling

\* The ids in use are those of the arrivals and of the drafts.
LEMMA IdsUsedIs == IdsUsed = IdsOf(arrived) \cup DraftIds
BY DEF IdsUsed, IdsOf, DraftIds

\* At first nothing was staged.
LEMMA BaseInit == DQInit => DQBase
<1> SUFFICES ASSUME DQInit PROVE DQBase
  OBVIOUS
<1>1. DQTypes
  <2>1. <<>> \in Seq(OpType) /\ <<>> \in Seq(SUBSET Nat) /\ <<>> \in Seq(From(<<>>)) /\ Len(<<>>) = 0
    BY EmptySeq
  <2> QED BY <2>1 DEF DQInit, DQTypes
<1>2. DraftIds = {} /\ IdsOf(arrived) = {}
  BY DEF DQInit, DraftIds, ToSet, IdsOf
<1>3. IdsUsed = 1 .. 0
  BY <1>2, IdsUsedIs
<1>4. Numbered
  BY <1>3 DEF Numbered, DQInit, Unique
<1>5. Settling
  BY DEF DQInit, Settling
<1> QED BY <1>1, <1>4, <1>5 DEF DQBase

\* A new operation takes the next id.
LEMMA BaseStamp ==
    ASSUME DQBase, NEW t \in Tabs, StampOp(t)
    PROVE  DQBase'
<1>1. PICK c \in Cards, s \in Staged :
         draft' = [draft EXCEPT ![t] = Append(@, Stamped(Cardinality(IdsUsed) + 1, c, s))]
  BY DEF StampOp
<1>2. PICK n \in Nat : IdsUsed = 1 .. n
  BY DEF DQBase, Numbered
<1>3. Cardinality(IdsUsed) = n
  BY <1>2, FS_Interval
<1> DEFINE op == Stamped(n + 1, c, s)
<1>4. draft' = [draft EXCEPT ![t] = Append(@, op)]
  BY <1>1, <1>3
<1>5. op \in OpType /\ op.id = n + 1 /\ Own(op)
  BY StagedAssumption DEF DQBase, DQTypes, Stamped, OpType, Own
<1> HIDE DEF op
<1>6. /\ draft[t] \in Seq(OpType) /\ Append(draft[t], op) \in Seq(OpType)
      /\ Len(draft[t]) \in Nat /\ DOMAIN draft[t] = 1 .. Len(draft[t])
      /\ DOMAIN Append(draft[t], op) = 1 .. Len(draft[t]) + 1
      /\ \A k \in 1 .. Len(draft[t]) : Append(draft[t], op)[k] = draft[t][k]
      /\ Append(draft[t], op)[Len(draft[t]) + 1] = op
  <2>1. draft[t] \in Seq(OpType)
    BY DEF DQBase, DQTypes
  <2> DEFINE d == draft[t]
             e == Append(d, op)
  <2>2. d \in Seq(OpType)
    BY <2>1
  <2> HIDE DEF d
  <2>3. /\ e \in Seq(OpType) /\ Len(e) = Len(d) + 1
        /\ (\A k \in 1 .. Len(d) : e[k] = d[k]) /\ e[Len(d) + 1] = op
    BY <1>5, <2>2, AppendProperties
  <2>4. Len(d) \in Nat /\ DOMAIN d = 1 .. Len(d)
    BY <2>2, LenProperties
  <2> HIDE DEF e
  <2>5. DOMAIN e = 1 .. Len(d) + 1
    BY <2>3, LenProperties
  <2> QED BY <2>2, <2>3, <2>4, <2>5 DEF d, e
<1>7. UNCHANGED <<queue, snapshot, clock, known, arrived, past, settled>>
  BY DEF StampOp
<1>8. DQTypes'
  BY <1>4, <1>6, <1>7 DEF DQBase, DQTypes
<1> DEFINE D(u) == DOMAIN draft[u]
           m == Len(draft[t]) + 1
<1>9. /\ draft'[t][m] = op /\ m \in DOMAIN draft'[t] /\ m \notin D(t)
      /\ \A u \in Tabs : \A k \in DOMAIN draft'[u] : (u = t /\ k = m) \/ (k \in D(u) /\ draft'[u][k] = draft[u][k])
      /\ \A u \in Tabs : \A k \in D(u) : k \in DOMAIN draft'[u] /\ draft'[u][k] = draft[u][k]
  BY <1>4, <1>6 DEF DQBase, DQTypes
<1>10. \A u \in Tabs : \A k \in D(u) : draft[u][k].id \in 1 .. n
  <2>1. ASSUME NEW u \in Tabs, NEW k \in D(u) PROVE draft[u][k].id \in DraftIds
    BY DEF DraftIds, ToSet
  <2> QED BY <1>2, <2>1, IdsUsedIs
<1>11. \A i \in DOMAIN arrived : arrived[i].id \in 1 .. n
  BY <1>2, IdsUsedIs DEF IdsOf
<1>12. IdsUsed' = 1 .. n + 1
  <2>1. IdsUsed' = IdsOf(arrived) \cup DraftIds'
    BY <1>7 DEF IdsUsed, IdsOf, DraftIds
  <2>2. \A i : i \in DraftIds' <=> \E u \in Tabs : \E k \in DOMAIN draft'[u] : i = draft'[u][k].id
    BY DEF DraftIds, ToSet
  <2>3. \A i : i \in DraftIds <=> \E u \in Tabs : \E k \in D(u) : i = draft[u][k].id
    BY DEF DraftIds, ToSet
  <2>4. DraftIds' = DraftIds \cup {n + 1}
    <3>1. ASSUME NEW i \in DraftIds' PROVE i \in DraftIds \cup {n + 1}
      BY <1>5, <1>9, <2>2, <2>3
    <3>2. ASSUME NEW i \in DraftIds PROVE i \in DraftIds'
      BY <1>9, <2>2, <2>3
    <3>3. n + 1 \in DraftIds'
      BY <1>5, <1>9, <2>2
    <3> QED BY <3>1, <3>2, <3>3
  <2>5. 1 .. n + 1 = (1 .. n) \cup {n + 1}
    OBVIOUS
  <2> QED BY <1>2, <2>1, <2>4, <2>5, IdsUsedIs
<1>13. Numbered'
  <2>1. Unique(arrived') /\ n + 1 \in Nat
    BY <1>7 DEF DQBase, Numbered
  <2>2. ASSUME NEW u \in Tabs, NEW k \in DOMAIN draft'[u]
        PROVE  draft'[u][k].id \notin IdsOf(arrived') /\ Own(draft'[u][k])
    <3>1. CASE u = t /\ k = m
      <4>1. draft'[u][k] = op
        BY <1>9, <3>1
      <4>2. op.id \notin IdsOf(arrived')
        BY <1>5, <1>7, <1>11 DEF IdsOf
      <4> QED BY <1>5, <4>1, <4>2
    <3>2. CASE k \in D(u) /\ draft'[u][k] = draft[u][k]
      <4> DEFINE o == draft[u][k]
      <4>1. o.id \notin IdsOf(arrived) /\ Own(o)
        BY <3>2 DEF DQBase, Numbered
      <4>2. draft'[u][k] = o
        BY <3>2
      <4> HIDE DEF o
      <4> QED BY <1>7, <4>1, <4>2
    <3> QED BY <1>9, <3>1, <3>2
  <2>3. ASSUME NEW u \in Tabs, NEW v \in Tabs, NEW k \in DOMAIN draft'[u], NEW l \in DOMAIN draft'[v],
               draft'[u][k].id = draft'[v][l].id
        PROVE  u = v /\ k = l
    <3>1. CASE k \in D(u) /\ draft'[u][k] = draft[u][k] /\ l \in D(v) /\ draft'[v][l] = draft[v][l]
      BY <2>3, <3>1 DEF DQBase, Numbered
    <3>2. CASE u = t /\ k = m /\ l \in D(v) /\ draft'[v][l] = draft[v][l]
      BY <1>5, <1>9, <1>10, <2>3, <3>2
    <3>3. CASE v = t /\ l = m /\ k \in D(u) /\ draft'[u][k] = draft[u][k]
      BY <1>5, <1>9, <1>10, <2>3, <3>3
    <3> QED BY <1>9, <3>1, <3>2, <3>3
  <2> HIDE DEF m
  <2> QED BY <1>12, <2>1, <2>2, <2>3 DEF Numbered
<1>14. Settling'
  BY <1>7 DEF DQBase, Settling
<1> QED BY <1>8, <1>13, <1>14 DEF DQBase

\* An operation that a tab persists is a new arrival, with an id that no other
\* draft has.
LEMMA HeadIsNew ==
    ASSUME DQBase, NEW t \in Tabs, draft[t] # <<>>
    PROVE  LET op == Head(draft[t]) IN
           /\ op \in OpType /\ op.id \notin IdsOf(arrived) /\ Own(op)
           /\ 1 \in DOMAIN draft[t] /\ draft[t][1] = op
           /\ Tail(draft[t]) \in Seq(OpType)
           /\ \A k \in DOMAIN Tail(draft[t]) : k + 1 \in DOMAIN draft[t] /\ k \in Nat \ {0}
                                               /\ Tail(draft[t])[k] = draft[t][k + 1]
           /\ \A k \in DOMAIN draft[t] : k = 1 \/ (k - 1 \in DOMAIN Tail(draft[t]) /\ k = (k - 1) + 1)
<1> DEFINE d == draft[t]
           e == Tail(d)
<1>1. d \in Seq(OpType) /\ d # <<>>
  BY DEF DQBase, DQTypes
<1>2. \A k \in DOMAIN d : d[k].id \notin IdsOf(arrived) /\ Own(d[k])
  BY DEF DQBase, Numbered
<1> HIDE DEF d
<1>3. Len(d) \in Nat /\ Len(d) # 0 /\ DOMAIN d = 1 .. Len(d) /\ Head(d) = d[1] /\ Head(d) \in OpType
  BY <1>1, EmptySeq, LenProperties, HeadTailProperties
<1>4. e \in Seq(OpType) /\ Len(e) = Len(d) - 1 /\ \A k \in 1 .. Len(e) : e[k] = d[k + 1]
  BY <1>1, HeadTailProperties
<1> HIDE DEF e
<1>5. DOMAIN e = 1 .. Len(d) - 1
  BY <1>4, LenProperties
<1>6. \A k \in DOMAIN e : k + 1 \in DOMAIN d /\ k \in Nat \ {0} /\ e[k] = d[k + 1]
  BY <1>3, <1>4, <1>5
<1>7. \A k \in DOMAIN d : k = 1 \/ (k - 1 \in DOMAIN e /\ k = (k - 1) + 1)
  BY <1>3, <1>5
<1>8. Head(d) \in OpType /\ Head(d).id \notin IdsOf(arrived) /\ Own(Head(d))
      /\ 1 \in DOMAIN d /\ d[1] = Head(d)
  <2>1. 1 \in DOMAIN d
    BY <1>3
  <2> QED BY <1>2, <1>3, <2>1
<1> QED BY <1>4, <1>6, <1>7, <1>8 DEF d, e

\* Persisting makes a draft an arrival; its id is used as before.
LEMMA BasePersist ==
    ASSUME DQBase, NEW t \in Tabs, Persist(t)
    PROVE  DQBase'
<1> DEFINE op == Head(draft[t])
           b == Append(arrived, op)
<1>1. /\ op \in OpType /\ op.id \notin IdsOf(arrived) /\ Own(op)
      /\ 1 \in DOMAIN draft[t] /\ draft[t][1] = op
      /\ Tail(draft[t]) \in Seq(OpType)
      /\ \A k \in DOMAIN Tail(draft[t]) : k + 1 \in DOMAIN draft[t] /\ k \in Nat \ {0}
                                          /\ Tail(draft[t])[k] = draft[t][k + 1]
      /\ \A k \in DOMAIN draft[t] : k = 1 \/ (k - 1 \in DOMAIN Tail(draft[t]) /\ k = (k - 1) + 1)
  BY HeadIsNew DEF Persist
<1>2. /\ arrived' = b /\ queue' = Merge(Append(queue, op)) /\ past' = Append(past, settled)
      /\ draft' = [draft EXCEPT ![t] = Tail(@)]
      /\ UNCHANGED <<snapshot, clock, known, settled>>
  BY DEF Persist
<1> HIDE DEF op
<1>3. arrived \in Seq(OpType) /\ Unique(arrived)
  BY DEF DQBase, DQTypes, Numbered
<1>4. /\ b \in Seq(OpType) /\ DOMAIN b = 1 .. Len(arrived) + 1 /\ DOMAIN arrived = 1 .. Len(arrived)
      /\ \A i \in DOMAIN arrived : b[i] = arrived[i]
      /\ b[Len(arrived) + 1] = op
      /\ Unique(b) /\ IdsOf(b) = IdsOf(arrived) \cup {op.id}
      /\ From(arrived) \subseteq From(b) /\ op \in From(b)
  BY <1>1, <1>3, FromAppend
<1> HIDE DEF b
<1>5. queue \in Seq(From(b)) /\ snapshot \in Seq(From(b))
  <2>1. queue \in Seq(From(arrived)) /\ snapshot \in Seq(From(arrived))
    BY DEF DQBase, DQTypes
  <2>2. Ops(queue) \subseteq From(b) /\ Ops(snapshot) \subseteq From(b)
    BY <1>4, <2>1, OpsIn
  <2> QED BY <2>1, <2>2, SeqOfOps
<1>6. Merge(Append(queue, op)) \in Seq(From(b))
  <2> DEFINE q == Append(queue, op)
  <2>1. q \in Seq(From(b)) /\ Timed(From(b)) /\ Foldable(From(b))
    BY <1>4, <1>5, AppendProperties, FromFolds
  <2> HIDE DEF q
  <2>2. Merge(q) \in Seq(From(b))
    BY <2>1, MergeFacts
  <2> QED BY <2>2 DEF q
<1>7. settled \in SUBSET Nat
  <2>1. IdsOf(arrived) \subseteq Nat
    <3>1. \A i \in DOMAIN arrived : arrived[i] \in OpType
      BY <1>3, <1>4, ElementOfSeq
    <3>2. \A i \in DOMAIN arrived : arrived[i].id \in Nat
      BY <3>1 DEF OpType
    <3> QED BY <3>2 DEF IdsOf
  <2> QED BY <2>1 DEF DQBase, Settling
<1>8. /\ past' \in Seq(SUBSET Nat) /\ Len(past') = Len(past) + 1 /\ Len(past) \in Nat
      /\ Len(past) = Len(arrived) /\ DOMAIN past = 1 .. Len(past) /\ DOMAIN past' = 1 .. Len(past) + 1
      /\ (\A i \in 1 .. Len(past) : past'[i] = past[i]) /\ past'[Len(past) + 1] = settled
  <2>1. past \in Seq(SUBSET Nat) /\ Len(past) = Len(arrived)
    BY DEF DQBase, DQTypes
  <2>2. /\ past' \in Seq(SUBSET Nat) /\ Len(past') = Len(past) + 1
        /\ (\A i \in 1 .. Len(past) : past'[i] = past[i]) /\ past'[Len(past) + 1] = settled
    BY <1>2, <1>7, <2>1, AppendProperties
  <2> QED BY <2>1, <2>2, LenProperties
<1>9. DQTypes'
  <2>1. Len(b) = Len(arrived) + 1
    BY <1>4, LenProperties
  <2>2. draft' \in [Tabs -> Seq(OpType)] /\ clock' \in Nat /\ known' \in Nat
    <3>1. draft \in [Tabs -> Seq(OpType)] /\ clock \in Nat /\ known \in Nat
      BY DEF DQBase, DQTypes
    <3> DEFINE e == Tail(draft[t])
    <3>2. e \in Seq(OpType) /\ draft' = [draft EXCEPT ![t] = e]
      BY <1>1, <1>2
    <3> HIDE DEF e
    <3> QED BY <1>2, <3>1, <3>2
  <2>3. queue' \in Seq(From(b)) /\ snapshot' \in Seq(From(b))
    BY <1>2, <1>5, <1>6
  <2> QED BY <1>2, <1>4, <1>8, <2>1, <2>2, <2>3 DEF DQTypes
<1> DEFINE D(u) == DOMAIN draft[u]
           \* Where a draft was before the head left.
           Old(u, k) == IF u = t THEN k + 1 ELSE k
<1>10. \A u \in Tabs : \A k \in DOMAIN draft'[u] : /\ Old(u, k) \in D(u) /\ draft'[u][k] = draft[u][Old(u, k)]
                                                   /\ (u = t => k \in Nat \ {0} /\ Old(u, k) # 1)
  BY <1>1, <1>2 DEF DQBase, DQTypes
<1>11. \A u \in Tabs : \A k \in D(u) : (u = t /\ k = 1) \/ \E l \in DOMAIN draft'[u] : k = Old(u, l)
  BY <1>1, <1>2 DEF DQBase, DQTypes
<1>12. ASSUME NEW u \in Tabs, NEW v \in Tabs, NEW k \in D(u), NEW l \in D(v), draft[u][k].id = draft[v][l].id
       PROVE  u = v /\ k = l
  BY <1>12 DEF DQBase, Numbered
<1>13. ASSUME NEW u \in Tabs, NEW k \in D(u) PROVE draft[u][k].id \notin IdsOf(arrived) /\ Own(draft[u][k])
  BY DEF DQBase, Numbered
<1>14. IdsUsed' = IdsUsed
  <2>1. IdsUsed' = IdsOf(b) \cup DraftIds'
    BY <1>2 DEF IdsUsed, IdsOf, DraftIds
  <2>2. \A i : i \in DraftIds' <=> \E u \in Tabs : \E k \in DOMAIN draft'[u] : i = draft'[u][k].id
    BY DEF DraftIds, ToSet
  <2>3. \A i : i \in DraftIds <=> \E u \in Tabs : \E k \in D(u) : i = draft[u][k].id
    BY DEF DraftIds, ToSet
  <2> HIDE DEF Old
  <2>4. ASSUME NEW i \in DraftIds' PROVE i \in DraftIds
    BY <1>10, <2>2, <2>3
  <2>5. op.id \in DraftIds
    BY <1>1, <2>3
  <2>6. ASSUME NEW i \in DraftIds PROVE i \in DraftIds' \cup {op.id}
    <3>0. PICK u \in Tabs : \E k \in D(u) : i = draft[u][k].id
      BY <2>3
    <3>1. PICK k \in D(u) : i = draft[u][k].id
      BY <3>0
    <3>2. CASE u = t /\ k = 1
      BY <1>1, <3>1, <3>2
    <3>3. ASSUME NEW l \in DOMAIN draft'[u], k = Old(u, l) PROVE i \in DraftIds'
      BY <1>10, <2>2, <3>1, <3>3
    <3> QED BY <1>11, <3>2, <3>3
  <2> QED BY <1>4, <2>1, <2>4, <2>5, <2>6, IdsUsedIs
<1>15. Numbered'
  <2>1. ASSUME NEW u \in Tabs, NEW k \in DOMAIN draft'[u]
        PROVE  draft'[u][k].id \notin IdsOf(arrived') /\ Own(draft'[u][k])
    <3> DEFINE k1 == Old(u, k)
    <3>1. k1 \in D(u) /\ draft'[u][k] = draft[u][k1] /\ (u = t => k1 # 1)
      BY <1>10
    <3> HIDE DEF k1
    <3>2. draft[u][k1].id # op.id
      BY <1>1, <1>12, <3>1
    <3> QED BY <1>2, <1>4, <1>13, <3>1, <3>2
  <2>2. ASSUME NEW u \in Tabs, NEW v \in Tabs, NEW k \in DOMAIN draft'[u], NEW l \in DOMAIN draft'[v],
               draft'[u][k].id = draft'[v][l].id
        PROVE  u = v /\ k = l
    <3> DEFINE k1 == Old(u, k)
               l1 == Old(v, l)
    <3>1. k1 \in D(u) /\ draft'[u][k] = draft[u][k1] /\ l1 \in D(v) /\ draft'[v][l] = draft[v][l1]
      BY <1>10
    <3>2. u = v /\ k1 = l1
      <4> HIDE DEF k1, l1
      <4> QED BY <1>12, <2>2, <3>1
    <3>3. CASE u = t
      <4>1. k \in Nat /\ l \in Nat
        BY <1>10, <3>2, <3>3
      <4> QED BY <3>2, <3>3, <4>1
    <3>4. CASE u # t
      BY <3>2, <3>4
    <3> QED BY <3>3, <3>4
  <2>3. \E n \in Nat : IdsUsed' = 1 .. n
    BY <1>14 DEF DQBase, Numbered
  <2>4. Unique(arrived')
    BY <1>2, <1>4
  <2> QED BY <2>1, <2>2, <2>3, <2>4 DEF Numbered
<1>16. Settling'
  <2>1. settled' \subseteq IdsOf(arrived')
    BY <1>2, <1>4 DEF DQBase, Settling
  <2>2. ASSUME NEW i \in DOMAIN past' PROVE past'[i] \subseteq settled
    BY <1>8 DEF DQBase, Settling
  <2>3. ASSUME NEW i \in DOMAIN past', NEW j \in DOMAIN past', i <= j PROVE past'[i] \subseteq past'[j]
    <3>1. CASE j = Len(past) + 1
      BY <1>8, <2>2, <3>1
    <3>2. CASE j # Len(past) + 1
      <4>1. i \in DOMAIN past /\ j \in DOMAIN past /\ past'[i] = past[i] /\ past'[j] = past[j]
        BY <1>8, <2>3, <3>2
      <4> QED BY <2>3, <4>1 DEF DQBase, Settling
    <3> QED BY <3>1, <3>2
  <2> QED BY <1>2, <2>1, <2>2, <2>3 DEF Settling
<1> QED BY <1>9, <1>15, <1>16 DEF DQBase

\* The stored queue, merged or in part, is of operations that stem from arrivals.
LEMMA BaseAcknowledged ==
    ASSUME NEW a, NEW q \in Seq(From(a)), NEW done
    PROVE  Merge(q) \in Seq(From(a)) /\ Acknowledged(q, done) \in Seq(From(a))
<1>1. Merge(q) \in Seq(From(a))
  BY FromFolds, MergeFacts
<1> DEFINE m == Merge(q)
           S == {x \in Ops(m) : \A o \in done : o.id # x.id}
<1>2. Acknowledged(q, done) = Keep(m, S)
  BY Zenon DEF Acknowledged
<1>3. m \in Seq(From(a))
  BY <1>1
<1> HIDE DEF m, S
<1>4. Keep(m, S) \in Seq(From(a))
  BY <1>3, KeepFacts
<1> QED BY <1>1, <1>2, <1>4

\* What the other steps queue and settle had arrived.
LEMMA BaseRest ==
    ASSUME DQBase, Tick \/ LoadPending \/ Acknowledge \/ VerifyEpoch \/ ClearQueue
           \/ UNCHANGED dqVars
    PROVE  DQBase'
<1>1. draft' = draft /\ arrived' = arrived /\ past' = past /\ IdsUsed' = IdsUsed
  BY DEF Tick, LoadPending, Acknowledge, VerifyEpoch, ClearQueue, dqVars, IdsUsed
<1>2. clock' \in Nat /\ known' \in Nat
  BY DEF Tick, LoadPending, Acknowledge, VerifyEpoch, ClearQueue, dqVars, DQBase, DQTypes
<1>3. queue \in Seq(From(arrived)) /\ snapshot \in Seq(From(arrived)) /\ <<>> \in Seq(From(arrived))
  BY EmptySeq DEF DQBase, DQTypes
<1>4. queue' \in Seq(From(arrived)) /\ snapshot' \in Seq(From(arrived))
  <2>1. CASE LoadPending
    BY <1>3, <2>1, BaseAcknowledged DEF LoadPending
  <2>2. CASE Acknowledge
    BY <1>3, <2>2, BaseAcknowledged DEF Acknowledge
  <2>3. CASE ClearQueue
    BY <1>3, <2>3 DEF ClearQueue
  <2>4. CASE Tick \/ VerifyEpoch \/ UNCHANGED dqVars
    BY <1>3, <2>4 DEF Tick, VerifyEpoch, dqVars
  <2> QED BY <2>1, <2>2, <2>3, <2>4
<1>5. settled \subseteq settled' /\ settled' \subseteq IdsOf(arrived)
  <2>1. settled \subseteq IdsOf(arrived)
    BY DEF DQBase, Settling
  <2>2. CASE Acknowledge
    <3>1. PICK done \in SUBSET ToSet(snapshot) :
             settled' = settled \cup {o.id : o \in done} \cup AbsorbedBy({o.id : o \in done})
      BY <2>2 DEF Acknowledge
    <3>2. AbsorbedBy({o.id : o \in done}) \subseteq IdsOf(arrived)
      BY DEF AbsorbedBy, IdsOf
    <3>3. ToSet(snapshot) \subseteq From(arrived)
      BY <1>3, OpsIn DEF Ops, ToSet
    <3>4. \A o \in done : o.id \in IdsOf(arrived)
      BY <3>3 DEF From, Stems, IdsOf
    <3> QED BY <2>1, <3>1, <3>2, <3>4
  <2>3. CASE ClearQueue
    BY <2>1, <2>3 DEF ClearQueue, IdsOf
  <2>4. CASE Tick \/ LoadPending \/ VerifyEpoch \/ UNCHANGED dqVars
    BY <2>1, <2>4 DEF Tick, LoadPending, VerifyEpoch, dqVars
  <2> QED BY <2>2, <2>3, <2>4
<1>6. DQTypes'
  BY <1>1, <1>2, <1>4 DEF DQBase, DQTypes
<1>7. Numbered'
  BY <1>1 DEF DQBase, Numbered
<1>8. Settling'
  BY <1>1, <1>5 DEF DQBase, Settling
<1> QED BY <1>6, <1>7, <1>8 DEF DQBase

\* Every step keeps what holds however the operations arrive.
LEMMA BaseNext == DQBase /\ [DQNext]_dqVars => DQBase'
<1> SUFFICES ASSUME DQBase, [DQNext]_dqVars PROVE DQBase'
  OBVIOUS
<1>1. ASSUME NEW t \in Tabs, StampOp(t) PROVE DQBase'
  BY <1>1, BaseStamp
<1>2. ASSUME NEW t \in Tabs, Persist(t) PROVE DQBase'
  BY <1>2, BasePersist
<1>3. CASE Tick \/ LoadPending \/ Acknowledge \/ VerifyEpoch \/ ClearQueue \/ UNCHANGED dqVars
  BY <1>3, BaseRest
<1> QED BY <1>1, <1>2, <1>3 DEF DQNext

-----------------------------------------------------------------------------
(* What holds while operations arrive in the order of their stamps: of the *)
(* arrivals a, what was settled at each (p), what is settled now (s) and   *)
(* the operations that are queued (S).                                     *)

CreateBetween(a, c, i, j) ==
    \E k \in DOMAIN a : a[k].card = c /\ a[k].kind = "create" /\ i < k /\ k < j
CreateAfter(a, c, i) ==
    \E k \in DOMAIN a : a[k].card = c /\ a[k].kind = "create" /\ i < k

\* A delete j that was open when i arrived, and no create since.
Dooms(a, p, j, i) ==
    /\ a[j].card = a[i].card /\ a[j].kind = "delete" /\ j < i
    /\ a[j].id \notin p[i]
    /\ ~CreateBetween(a, a[i].card, j, i) /\ a[i].kind # "create"

\* The queue owes i nothing: something as late was settled, a later create or
\* delete took its place, or a delete had it refused.
Passed(a, p, s, i) ==
    \/ \E j \in DOMAIN a : a[j].card = a[i].card /\ i <= j /\ a[j].id \in s
    \/ \E j \in DOMAIN a : a[j].card = a[i].card /\ i < j /\ a[j].kind \in {"create", "delete"}
    \/ \E j \in DOMAIN a : Dooms(a, p, j, i)

\* What is settled is not queued.
Live(s, S) == \A x \in S : x.id \notin s

\* No create of its card has arrived since a queued delete, and no delete was
\* open when it did, unless a create came between the two.
Alone(a, p, S) ==
    \A x \in S : x.kind = "delete" =>
        /\ ~CreateAfter(a, x.card, Place(a)[x.id])
        /\ \A d \in DOMAIN a :
              /\ a[d].card = x.card /\ a[d].kind = "delete" /\ d < Place(a)[x.id]
              /\ a[d].id \notin p[Place(a)[x.id]]
              => CreateBetween(a, x.card, d, Place(a)[x.id])

\* A delete that is not settled, and no create has followed, is queued, or the
\* queued delete was open when it arrived.
Waits(a, p, s, S) ==
    \A d \in DOMAIN a :
        a[d].kind = "delete" /\ a[d].id \notin s /\ ~CreateAfter(a, a[d].card, d) =>
            \E x \in S : /\ x.card = a[d].card /\ x.kind = "delete"
                         /\ \/ Place(a)[x.id] = d
                            \/ Place(a)[x.id] < d /\ x.id \notin p[d]

\* Creates and reviews are queued as they arrived.
Kept(a, p, s, S) ==
    \A i \in DOMAIN a : a[i].kind \in {"create", "review"} => Passed(a, p, s, i) \/ a[i] \in S

\* The last value of a field is that of the queue's highest patch that sets it.
Written(a, p, s, S) ==
    \A i \in DOMAIN a : a[i].kind = "patch" => \A f \in a[i].mask :
        \/ Passed(a, p, s, i)
        \/ \E l \in DOMAIN a : a[l].card = a[i].card /\ i < l /\ WritesField(a[l], f)
        \/ \E x \in S : /\ TopWriter(S, Place(a), x, f)
                        /\ x.card = a[i].card /\ x.val[f] = a[i].id /\ i <= Place(a)[x.id]

Orderly(a, p, s, S) ==
    /\ Proper(S, Place(a)) /\ Live(s, S) /\ Alone(a, p, S) /\ Waits(a, p, s, S)
    /\ Kept(a, p, s, S) /\ Written(a, p, s, S)

\* Two operations that stem from the same arrival and are not patches.
LEMMA OneStem ==
    ASSUME NEW a, Unique(a), NEW x \in From(a), NEW y \in From(a), x.id = y.id, x.kind # "patch"
    PROVE  x = y
<1>1. Stems(a, Place(a)[x.id], x) /\ Stems(a, Place(a)[x.id], y)
  BY FromIds
<1> QED BY <1>1 DEF Stems

\* A merge keeps all that.
LEMMA OrderlySame ==
    ASSUME NEW a, Unique(a), NEW n \in Nat, DOMAIN a = 1 .. n, NEW p, NEW s,
           NEW S \in SUBSET From(a), NEW T \in SUBSET From(a), Same(S, T, Place(a)),
           Orderly(a, p, s, S)
    PROVE  Orderly(a, p, s, T)
<1> DEFINE r == Place(a)
<1>0. /\ \A x : x.kind # "patch" => (x \in T <=> x \in S)
      /\ \A y \in T : \E x \in S : x.id = y.id
  BY DEF Same
<1>1. \A x \in From(a) : r[x.id] \in Nat
  BY FromIds
<1>2. Proper(T, r)
  <2>1. SUFFICES ASSUME NEW x \in T, NEW y \in T, x.card = y.card, x # y
                 PROVE  x.kind # "delete" /\ (x.kind = "create" => r[x.id] < r[y.id])
    BY Zenon DEF Proper
  <2>2. SUFFICES ASSUME x.kind \in {"create", "delete"}
                 PROVE  x.kind # "delete" /\ r[x.id] < r[y.id]
    BY <2>2
  <2>3. x \in S
    BY <1>0, <2>2
  <2>4. PICK z \in S : z.id = y.id
    BY <1>0
  <2>5. z.card = y.card /\ z.id # x.id
    <3>1. y.id # x.id
      BY <2>1, <2>2, OneStem
    <3> QED BY <2>4, <3>1, FromIds DEF Identified
  <2>6. z # x /\ x.card = z.card
    BY <2>1, <2>5
  <2> HIDE DEF r
  <2>7. x.kind # "delete" /\ (x.kind = "create" => r[x.id] < r[z.id])
    BY <2>3, <2>6, Zenon DEF Orderly, Proper, r
  <2> QED BY <2>2, <2>4, <2>7
<1>3. Live(s, T)
  BY <1>0 DEF Orderly, Live
<1>4. Alone(a, p, T)
  BY <1>0 DEF Orderly, Alone
<1>5. Waits(a, p, s, T)
  BY <1>0 DEF Orderly, Waits
<1>6. Kept(a, p, s, T)
  BY <1>0 DEF Orderly, Kept
<1>7. Written(a, p, s, T)
  <2>1. SUFFICES ASSUME NEW i \in DOMAIN a, a[i].kind = "patch", NEW f \in a[i].mask,
                        ~Passed(a, p, s, i),
                        ~\E l \in DOMAIN a : a[l].card = a[i].card /\ i < l /\ WritesField(a[l], f)
                 PROVE  \E x \in T : /\ TopWriter(T, r, x, f)
                                     /\ x.card = a[i].card /\ x.val[f] = a[i].id /\ i <= r[x.id]
    BY Zenon DEF Written
  <2>2. PICK x \in S : /\ TopWriter(S, r, x, f)
                       /\ x.card = a[i].card /\ x.val[f] = a[i].id /\ i <= r[x.id]
    BY <2>1, Zenon DEF Orderly, Written
  <2>3. PICK y \in T : /\ TopWriter(T, r, y, f)
                       /\ y.card = x.card /\ y.val[f] = x.val[f] /\ r[x.id] <= r[y.id]
    BY <2>2, Zenon DEF Same
  <2> HIDE DEF r
  <2>4. i <= r[y.id]
    BY <1>1, <2>2, <2>3
  <2> QED BY <2>2, <2>3, <2>4
<1> QED BY <1>2, <1>3, <1>4, <1>5, <1>6, <1>7 DEF Orderly

\* An acknowledgement of the ids D settles them, and the deletes that the
\* deletes of D absorbed.
Settles(a, p, s, D, s2) ==
    /\ s \subseteq s2 /\ D \subseteq s2 /\ D \subseteq IdsOf(a)
    /\ \A j \in DOMAIN a : a[j].id \in s2 <=>
          \/ a[j].id \in s \cup D
          \/ /\ a[j].kind = "delete"
             /\ \E d \in DOMAIN a : /\ a[d].id \in D /\ a[d].kind = "delete"
                                    /\ a[d].card = a[j].card /\ d < j
                                    /\ a[d].id \notin p[j]
                                    /\ ~CreateBetween(a, a[j].card, d, j)

\* Neither does an acknowledgement break it.
LEMMA OrderlyAcknowledged ==
    ASSUME NEW a, Unique(a), NEW n \in Nat, DOMAIN a = 1 .. n, NEW p, NEW s, NEW s2,
           NEW S \in SUBSET From(a), NEW D, Orderly(a, p, s, S), Settles(a, p, s, D, s2)
    PROVE  Orderly(a, p, s2, {x \in S : x.id \notin D})
<1>0. /\ s \subseteq s2 /\ D \subseteq s2 /\ D \subseteq IdsOf(a)
      /\ \A j \in DOMAIN a : a[j].id \in s2 <=>
            \/ a[j].id \in s \cup D
            \/ /\ a[j].kind = "delete"
               /\ \E d \in DOMAIN a : /\ a[d].id \in D /\ a[d].kind = "delete"
                                      /\ a[d].card = a[j].card /\ d < j
                                      /\ a[d].id \notin p[j]
                                      /\ ~CreateBetween(a, a[j].card, d, j)
  BY DEF Settles
<1> USE <1>0
<1> DEFINE r == Place(a)
           T == {x \in S : x.id \notin D}
<1>1. \A x \in From(a) : r[x.id] \in DOMAIN a /\ Stems(a, r[x.id], x)
  BY FromIds
<1>2. Proper(T, r)
  BY DEF Orderly, Proper
<1>3. Live(s2, T)
  <2>1. SUFFICES ASSUME NEW x \in S, x.id \notin D, x.id \in s2 PROVE FALSE
    BY DEF Live
  <2>2. r[x.id] \in DOMAIN a /\ a[r[x.id]].id = x.id /\ a[r[x.id]].kind = x.kind /\ a[r[x.id]].card = x.card
    BY <1>1 DEF Stems
  <2>3. x.id \notin s
    BY DEF Orderly, Live
  <2>4. x.kind = "delete" /\ \E d \in DOMAIN a : /\ a[d].id \in D /\ a[d].kind = "delete"
                                                 /\ a[d].card = x.card /\ d < r[x.id]
                                                 /\ a[d].id \notin p[r[x.id]]
                                                 /\ ~CreateBetween(a, x.card, d, r[x.id])
    <3> HIDE DEF r
    <3> QED BY <2>1, <2>2, <2>3
  <2> QED BY <2>4 DEF Orderly, Alone
<1>4. Alone(a, p, T)
  BY DEF Orderly, Alone
<1>5. ASSUME NEW i \in DOMAIN a, Passed(a, p, s, i) PROVE Passed(a, p, s2, i)
  BY <1>5 DEF Passed
<1>6. ASSUME NEW x \in S, NEW i \in DOMAIN a, x.card = a[i].card, i <= r[x.id], ~Passed(a, p, s2, i)
      PROVE  x \in T
  <2>1. r[x.id] \in DOMAIN a /\ a[r[x.id]].id = x.id /\ a[r[x.id]].card = x.card
    BY <1>1 DEF Stems
  <2>2. x.id \notin s2
    <3> HIDE DEF r
    <3> QED BY <1>6, <2>1 DEF Passed
  <2> QED BY <2>2
<1>7. Waits(a, p, s2, T)
  <2>1. SUFFICES ASSUME NEW d \in DOMAIN a, a[d].kind = "delete", a[d].id \notin s2,
                        ~CreateAfter(a, a[d].card, d)
                 PROVE  \E x \in T : /\ x.card = a[d].card /\ x.kind = "delete"
                                     /\ \/ r[x.id] = d
                                        \/ r[x.id] < d /\ x.id \notin p[d]
    BY Zenon DEF Waits
  <2>2. a[d].id \notin s
    BY <2>1
  <2>3. PICK x \in S : /\ x.card = a[d].card /\ x.kind = "delete"
                       /\ \/ r[x.id] = d
                          \/ r[x.id] < d /\ x.id \notin p[d]
    BY <2>1, <2>2, Zenon DEF Orderly, Waits
  <2>4. r[x.id] \in DOMAIN a /\ a[r[x.id]].id = x.id /\ a[r[x.id]].kind = x.kind /\ a[r[x.id]].card = x.card
    BY <1>1 DEF Stems
  <2>5. ~CreateAfter(a, x.card, r[x.id])
    BY <2>3 DEF Orderly, Alone
  <2> HIDE DEF r
  <2>6. ~CreateBetween(a, a[d].card, r[x.id], d)
    BY <2>3, <2>5 DEF CreateAfter, CreateBetween
  <2>7. x.id \notin D
    <3>1. CASE r[x.id] = d
      BY <2>1, <2>4, <3>1
    <3>2. CASE r[x.id] < d /\ x.id \notin p[d]
      BY <2>1, <2>3, <2>4, <2>6, <3>2
    <3> QED BY <2>3, <3>1, <3>2
  <2> QED BY <2>3, <2>7
<1>8. Kept(a, p, s2, T)
  <2>1. SUFFICES ASSUME NEW i \in DOMAIN a, a[i].kind \in {"create", "review"}, ~Passed(a, p, s2, i)
                 PROVE  a[i] \in T
    BY Zenon DEF Kept
  <2>2. a[i] \in S
    BY <1>5, <2>1, Zenon DEF Orderly, Kept
  <2>3. r[a[i].id] = i
    BY PlaceIs
  <2> HIDE DEF T, r
  <2>4. i <= r[a[i].id]
    BY <2>3
  <2> QED BY <1>6, <2>1, <2>2, <2>4
<1>9. Written(a, p, s2, T)
  <2>1. SUFFICES ASSUME NEW i \in DOMAIN a, a[i].kind = "patch", NEW f \in a[i].mask,
                        ~Passed(a, p, s2, i),
                        ~\E l \in DOMAIN a : a[l].card = a[i].card /\ i < l /\ WritesField(a[l], f)
                 PROVE  \E x \in T : /\ TopWriter(T, r, x, f)
                                     /\ x.card = a[i].card /\ x.val[f] = a[i].id /\ i <= r[x.id]
    BY Zenon DEF Written
  <2>2. PICK x \in S : /\ TopWriter(S, r, x, f)
                       /\ x.card = a[i].card /\ x.val[f] = a[i].id /\ i <= r[x.id]
    BY <1>5, <2>1, Zenon DEF Orderly, Written
  <2>3. x \in T
    BY <1>6, <2>1, <2>2
  <2>4. TopWriter(T, r, x, f)
    BY <2>2, <2>3 DEF TopWriter
  <2> HIDE DEF T, r
  <2> QED BY <2>2, <2>3, <2>4
<1> QED BY <1>2, <1>3, <1>4, <1>7, <1>8, <1>9 DEF Orderly

\* Where all is settled and nothing queued.
LEMMA OrderlyCleared ==
    ASSUME NEW a, NEW n \in Nat, DOMAIN a = 1 .. n, NEW p
    PROVE  Orderly(a, p, IdsOf(a), {})
<1>1. \A i \in DOMAIN a : Passed(a, p, IdsOf(a), i)
  BY DEF Passed, IdsOf
<1> QED BY <1>1 DEF Orderly, Proper, Live, Alone, Waits, Kept, Written, IdsOf

\* What becomes of a proper queue F that absorbs op: T is F with op in the place
\* of its card's commands, or with op behind them, or F as it was, or F with
\* op taking in the patch on top of its card.
Replaces(F, op, T) == /\ op.kind \in {"create", "delete"}
                      /\ op.kind = "delete" => \A x \in OnCard(F, op.card) : x.kind # "delete"
                      /\ T = OffCard(F, op.card) \cup {op}
Joins(F, op, T) == /\ op.kind \notin {"create", "delete"}
                   /\ \A x \in OnCard(F, op.card) : x.kind # "delete"
                   /\ T = F \cup {op}
Refused(F, op, T) == /\ op.kind # "create"
                     /\ \E x \in OnCard(F, op.card) : x.kind = "delete"
                     /\ T = F
Folds(F, op, T, l, r) == /\ op.kind = "patch" /\ l \in OnCard(F, op.card) /\ l.kind = "patch"
                         /\ \A x \in OnCard(F, op.card) : x.kind # "delete"
                                                      /\ (x = l \/ r[x.id] < r[l.id])
                         /\ T = (F \ {l}) \cup {FoldPatch(l, op)}

\* Those are all the ways, where the operation is stamped last.
LEMMA AbsorbedHow ==
    ASSUME NEW E, NEW r, NEW F, Proper(F, r), NEW op, NEW N,
           Absorbed(OnCard(F, op.card), op, N, r), \A x \in F : op.at >= x.at
    PROVE  LET T == OffCard(F, op.card) \cup N IN
           \/ Replaces(F, op, T) \/ Joins(F, op, T) \/ Refused(F, op, T)
           \/ \E l \in F : Folds(F, op, T, l, r)
<1> DEFINE c == op.card
           T == OffCard(F, c) \cup N
<1>1. F = OffCard(F, c) \cup OnCard(F, c) /\ OnCard(F, c) \subseteq F /\ \A x \in OnCard(F, c) : x.card = c
  BY DEF OnCard, OffCard
<1>2. CASE OnCard(F, c) = {} /\ N = {op}
  <2>1. CASE op.kind \in {"create", "delete"}
    <3>1. Replaces(F, op, T)
      BY <1>2, <2>1 DEF Replaces
    <3> QED BY <3>1
  <2>2. CASE op.kind \notin {"create", "delete"}
    <3>1. T = F \cup {op}
      BY <1>1, <1>2
    <3>2. Joins(F, op, T)
      BY <1>2, <2>2, <3>1 DEF Joins
    <3> QED BY <3>2
  <2> QED BY <2>1, <2>2
<1>3. ASSUME NEW l \in OnCard(F, c), l.kind # "delete" PROVE \A x \in OnCard(F, c) : x.kind # "delete"
  BY <1>1, <1>3 DEF Proper
<1>4. ASSUME NEW l \in OnCard(F, c), l.kind = "delete", op.kind # "create", N = OnCard(F, c)
      PROVE  Refused(F, op, T)
  BY <1>1, <1>4 DEF Refused
<1>5. ASSUME NEW l \in OnCard(F, c), N = {op},
             \/ l.kind = "delete" /\ op.kind = "create"
             \/ l.kind # "delete" /\ op.kind \in {"create", "delete"}
      PROVE  Replaces(F, op, T)
  BY <1>1, <1>3, <1>5 DEF Replaces
<1>6. ASSUME NEW l \in OnCard(F, c), l.kind # "delete", FoldsWith(l, op),
             \A x \in OnCard(F, c) : x = l \/ r[x.id] < r[l.id],
             N = (OnCard(F, c) \ {l}) \cup {FoldPatch(l, op)}
      PROVE  Folds(F, op, T, l, r)
  <2> DEFINE n == FoldPatch(l, op)
  <2>1. l \notin OffCard(F, c)
    BY <1>1 DEF OffCard
  <2> HIDE DEF n
  <2>2. T = (F \ {l}) \cup {n}
    BY <1>1, <1>6, <2>1 DEF n
  <2> HIDE DEF T
  <2> QED BY <1>3, <1>6, <2>2 DEF Folds, FoldsWith, n
<1>7. ASSUME NEW l \in OnCard(F, c), l.kind # "delete", op.kind \notin {"create", "delete"},
             N = OnCard(F, c) \cup {op}
      PROVE  Joins(F, op, T)
  <2>1. T = F \cup {op}
    BY <1>1, <1>7
  <2> HIDE DEF T
  <2> QED BY <1>3, <1>7, <2>1 DEF Joins
<1> HIDE DEF T
<1>8. ASSUME NEW l \in OnCard(F, c), \A x \in OnCard(F, c) : x = l \/ r[x.id] < r[l.id],
             \/ /\ l.kind = "delete" /\ ~(op.kind = "create" /\ op.at >= l.at)
                /\ N = OnCard(F, c)
             \/ /\ \/ l.kind = "delete" /\ op.kind = "create" /\ op.at >= l.at
                   \/ l.kind # "delete" /\ op.kind \in {"create", "delete"}
                /\ N = {op}
             \/ /\ l.kind # "delete" /\ op.kind \notin {"create", "delete"}
                /\ FoldsWith(l, op)
                /\ N = (OnCard(F, c) \ {l}) \cup {FoldPatch(l, op)}
             \/ /\ l.kind # "delete" /\ op.kind \notin {"create", "delete"}
                /\ ~FoldsWith(l, op)
                /\ N = OnCard(F, c) \cup {op}
      PROVE  \/ Replaces(F, op, T) \/ Joins(F, op, T) \/ Refused(F, op, T)
             \/ \E k \in F : Folds(F, op, T, k, r)
  <2>1. op.at >= l.at /\ l \in F
    BY <1>1
  <2> QED BY <1>4, <1>5, <1>6, <1>7, <1>8, <2>1
<1> QED BY <1>2, <1>8, Zenon DEF Absorbed, T

-----------------------------------------------------------------------------
(* One more arrival, op, the last in the order of their stamps.            *)

\* The arrivals a and b, with what was settled at each, where op is the last of b.
Arrives(a, p, b, q, s, op, m) ==
    /\ m \in Nat /\ DOMAIN a = 1 .. m - 1 /\ DOMAIN b = 1 .. m
    /\ Unique(a) /\ Unique(b) /\ op.id \notin IdsOf(a) /\ s \subseteq IdsOf(a)
    /\ \A i \in DOMAIN a : b[i] = a[i] /\ q[i] = p[i]
    /\ b[m] = op /\ q[m] = s /\ op \in OpType /\ Own(op)
    /\ From(a) \subseteq From(b) /\ op \in From(b)

\* The operations queued for arrivals, with the places they have among b.
LEMMA ArrivesPlaces ==
    ASSUME NEW a, NEW p, NEW b, NEW q, NEW s, NEW op, NEW m, Arrives(a, p, b, q, s, op, m)
    PROVE  /\ \A x \in From(a) : /\ Place(b)[x.id] = Place(a)[x.id]
                                 /\ Place(b)[x.id] \in DOMAIN a /\ Place(b)[x.id] < m
                                 /\ x.id = a[Place(b)[x.id]].id /\ x.card = a[Place(b)[x.id]].card
                                 /\ x.kind = a[Place(b)[x.id]].kind
           /\ Place(b)[op.id] = m /\ m \in DOMAIN b
           /\ \A i \in DOMAIN a : i \in DOMAIN b /\ i < m /\ i \in Nat
           /\ \A i \in DOMAIN b : i = m \/ i \in DOMAIN a
<1>1. m \in DOMAIN b /\ (\A i \in DOMAIN a : i \in DOMAIN b /\ i < m /\ i \in Nat)
      /\ \A i \in DOMAIN b : i = m \/ i \in DOMAIN a
  <2>1. m \in Nat /\ DOMAIN a = 1 .. m - 1 /\ DOMAIN b = 1 .. m
    BY DEF Arrives
  <2>2. m # 0
    <3>1. op \in From(b)
      BY DEF Arrives
    <3>2. DOMAIN b # {}
      BY <3>1 DEF From
    <3> QED BY <2>1, <3>2
  <2> QED BY <2>1, <2>2
<1>2. Place(b)[op.id] = m
  BY <1>1, PlaceIs DEF Arrives
<1>3. ASSUME NEW x \in From(a)
      PROVE  /\ Place(b)[x.id] = Place(a)[x.id] /\ Place(b)[x.id] \in DOMAIN a
             /\ x.id = a[Place(b)[x.id]].id /\ x.card = a[Place(b)[x.id]].card
             /\ x.kind = a[Place(b)[x.id]].kind
  <2>1. PICK i \in DOMAIN a : Stems(a, i, x)
    BY DEF From
  <2>2. Place(a)[a[i].id] = i
    BY PlaceIs DEF Arrives
  <2>3. Place(b)[b[i].id] = i
    BY <1>1, PlaceIs DEF Arrives
  <2>4. b[i] = a[i]
    BY DEF Arrives
  <2> QED BY <2>1, <2>2, <2>3, <2>4 DEF Stems
<1> QED BY <1>1, <1>2, <1>3

\* What the arrivals say of those before the last stays.
LEMMA ArrivesKeeps ==
    ASSUME NEW a, NEW p, NEW b, NEW q, NEW s, NEW op, NEW m, Arrives(a, p, b, q, s, op, m)
    PROVE  /\ \A c, i, j : j <= m /\ j \in Nat => (CreateBetween(b, c, i, j) <=> CreateBetween(a, c, i, j))
           /\ \A c, i : CreateAfter(b, c, i) <=>
                 CreateAfter(a, c, i) \/ (op.card = c /\ op.kind = "create" /\ i < m)
           /\ \A i \in DOMAIN a : Passed(a, p, s, i) => Passed(b, q, s, i)
           /\ \A i \in DOMAIN a : op.card = a[i].card /\ op.kind \in {"create", "delete"} => Passed(b, q, s, i)
<1>1. /\ m \in DOMAIN b /\ m \in Nat /\ b[m] = op
      /\ \A i \in DOMAIN a : i \in DOMAIN b /\ i < m /\ i \in Nat /\ b[i] = a[i] /\ q[i] = p[i]
      /\ \A i \in DOMAIN b : i = m \/ i \in DOMAIN a
  <2>1. m \in Nat /\ b[m] = op /\ \A i \in DOMAIN a : b[i] = a[i] /\ q[i] = p[i]
    BY DEF Arrives
  <2>2. /\ m \in DOMAIN b /\ \A i \in DOMAIN a : i \in DOMAIN b /\ i < m /\ i \in Nat
        /\ \A i \in DOMAIN b : i = m \/ i \in DOMAIN a
    BY ArrivesPlaces
  <2> QED BY <2>1, <2>2
<1>2. ASSUME NEW c, NEW i, NEW j, j <= m, j \in Nat
      PROVE  CreateBetween(b, c, i, j) <=> CreateBetween(a, c, i, j)
  BY <1>1, <1>2 DEF CreateBetween
<1>3. ASSUME NEW c, NEW i
      PROVE  CreateAfter(b, c, i) <=>
                CreateAfter(a, c, i) \/ (op.card = c /\ op.kind = "create" /\ i < m)
  BY <1>1 DEF CreateAfter
<1>4. ASSUME NEW i \in DOMAIN a, NEW j \in DOMAIN a, Dooms(a, p, j, i) PROVE Dooms(b, q, j, i)
  <2>1. ~CreateBetween(b, a[i].card, j, i)
    BY <1>1, <1>2, <1>4 DEF Dooms
  <2> QED BY <1>1, <1>4, <2>1 DEF Dooms
<1>5. ASSUME NEW i \in DOMAIN a, Passed(a, p, s, i) PROVE Passed(b, q, s, i)
  <2>1. CASE \E j \in DOMAIN a : a[j].card = a[i].card /\ i <= j /\ a[j].id \in s
    BY <1>1, <2>1 DEF Passed
  <2>2. CASE \E j \in DOMAIN a : a[j].card = a[i].card /\ i < j /\ a[j].kind \in {"create", "delete"}
    BY <1>1, <2>2 DEF Passed
  <2>3. CASE \E j \in DOMAIN a : Dooms(a, p, j, i)
    <3>1. \E j \in DOMAIN b : Dooms(b, q, j, i)
      BY <1>1, <1>4, <2>3
    <3> QED BY <3>1 DEF Passed
  <2> QED BY <1>5, <2>1, <2>2, <2>3 DEF Passed
<1>6. ASSUME NEW i \in DOMAIN a, op.card = a[i].card, op.kind \in {"create", "delete"}
      PROVE  Passed(b, q, s, i)
  BY <1>1, <1>6 DEF Passed
<1> QED BY <1>2, <1>3, <1>5, <1>6

\* Each of them leaves the queue owing what it should, the new arrival included.
LEMMA OrderlyArrival ==
    ASSUME NEW a, NEW p, NEW b, NEW q, NEW s, NEW op, NEW m, Arrives(a, p, b, q, s, op, m),
           NEW F \in SUBSET From(a), Orderly(a, p, s, F), NEW T,
           \/ Replaces(F, op, T) \/ Joins(F, op, T) \/ Refused(F, op, T)
           \/ \E l \in F : Folds(F, op, T, l, Place(b))
    PROVE  Orderly(b, q, s, T)
<1> DEFINE r == Place(b)
           c == op.card
           Folded(n) == /\ n.kind = "patch" /\ n.id = op.id /\ n.card = c /\ op.kind = "patch"
                        /\ \E l \in F : /\ Folds(F, op, T, l, r) /\ T = (F \ {l}) \cup {n}
                                        /\ n.mask = l.mask \cup op.mask
                                        /\ \A f \in op.mask : n.val[f] = op.val[f]
                                        /\ \A f \in l.mask \ op.mask : n.val[f] = l.val[f]
\* The places, and the arrivals before op.
<1>1. \A x \in F : /\ r[x.id] = Place(a)[x.id] /\ r[x.id] \in DOMAIN a
                   /\ x.id = a[r[x.id]].id /\ x.card = a[r[x.id]].card /\ x.kind = a[r[x.id]].kind
  BY ArrivesPlaces
<1>2. /\ r[op.id] = m /\ m \in DOMAIN b /\ m \in Nat
      /\ \A i \in DOMAIN a : i \in DOMAIN b /\ i < m /\ i \in Nat
      /\ \A i \in DOMAIN b : i = m \/ i \in DOMAIN a
  <2>1. m \in Nat
    BY DEF Arrives
  <2> QED BY <2>1, ArrivesPlaces
<1>3. /\ \A i \in DOMAIN a : b[i] = a[i] /\ q[i] = p[i]
      /\ b[m] = op /\ q[m] = s /\ op \in OpType /\ Own(op)
      /\ op.id \notin s
  BY DEF Arrives
<1>4. /\ \A d, i, j : j <= m /\ j \in Nat => (CreateBetween(b, d, i, j) <=> CreateBetween(a, d, i, j))
      /\ \A d, i : CreateAfter(b, d, i) <=> CreateAfter(a, d, i) \/ (c = d /\ op.kind = "create" /\ i < m)
      /\ \A i \in DOMAIN a : Passed(a, p, s, i) => Passed(b, q, s, i)
      /\ \A i \in DOMAIN a : c = a[i].card /\ op.kind \in {"create", "delete"} => Passed(b, q, s, i)
  BY ArrivesKeeps
\* The queue after op.
<1>5. (\E n : Folded(n)) \/ Replaces(F, op, T) \/ Joins(F, op, T) \/ Refused(F, op, T)
  <2>1. ASSUME NEW l \in F, Folds(F, op, T, l, r) PROVE \E n : Folded(n)
    <3> DEFINE n == FoldPatch(l, op)
    <3>1. l \in From(b) /\ op \in From(b) /\ l.kind = "patch" /\ op.kind = "patch" /\ l.card = op.card
      BY <2>1 DEF Folds, OnCard, Arrives
    <3>2. /\ n.kind = "patch" /\ n.id = op.id /\ n.card = c /\ n.mask = l.mask \cup op.mask
          /\ \A f \in op.mask : n.val[f] = op.val[f]
          /\ \A f \in l.mask \ op.mask : n.val[f] = l.val[f]
      <4>1. Patching(From(b))
        BY FromFolds
      <4> QED BY ONLY <3>1, <4>1, Zenon DEF Patching
    <3>3. T = (F \ {l}) \cup {n}
      BY <2>1 DEF Folds
    <3> HIDE DEF n, r
    <3>4. /\ n.mask = l.mask \cup op.mask
          /\ \A f \in op.mask : n.val[f] = op.val[f]
          /\ \A f \in l.mask \ op.mask : n.val[f] = l.val[f]
          /\ Folds(F, op, T, l, r) /\ T = (F \ {l}) \cup {n}
      BY ONLY <2>1, <3>2, <3>3
    <3>5. /\ n.kind = "patch" /\ n.id = op.id /\ n.card = c /\ op.kind = "patch"
      BY <3>1, <3>2
    <3>6. Folded(n)
      BY <3>4, <3>5, Zenon
    <3> QED BY <3>6, Zenon
  <2> QED BY <2>1
<1>6. ASSUME NEW n, Folded(n)
      PROVE  /\ \A x \in OnCard(F, c) : x.kind # "delete"
             /\ \E l \in OnCard(F, c) : /\ l.kind = "patch" /\ T = (F \ {l}) \cup {n}
                                        /\ \A x \in OnCard(F, c) : x = l \/ r[x.id] < r[l.id]
                                        /\ n.mask = l.mask \cup op.mask
                                        /\ \A f \in l.mask \ op.mask : n.val[f] = l.val[f]
             /\ \A f \in op.mask : n.val[f] = op.val[f]
  BY <1>6 DEF Folds
<1>7. \A x \in F : x.card = c <=> x \in OnCard(F, c)
  BY DEF OnCard
<1>8. \A x \in F : x.card # c => x \in T
  <2>1. ASSUME NEW x \in F, x.card # c, NEW n, Folded(n) PROVE x \in T
    BY <1>6, <1>7, <2>1
  <2> QED BY <1>5, <2>1 DEF Replaces, Joins, Refused, OffCard
<1>9. \A y \in T : \/ y \in F
                   \/ y = op /\ (Replaces(F, op, T) \/ Joins(F, op, T))
                   \/ Folded(y)
  <2>1. ASSUME NEW y \in T, NEW n, Folded(n) PROVE y \in F \/ y = n
    BY <1>6, <2>1
  <2> HIDE DEF Folded
  <2>2. ASSUME NEW y \in T, NEW n, Folded(n) PROVE y \in F \/ Folded(y)
    BY <2>1, <2>2
  <2> QED BY <1>5, <2>2 DEF Replaces, Joins, Refused, OffCard
<1>10. \A x \in F : r[x.id] < m /\ r[x.id] \in Nat
  BY <1>1, <1>2
<1>11. Proper(F, r)
  BY <1>1 DEF Orderly, Proper
<1> HIDE DEF r, Folded
<1>12. Live(s, T)
  <2>1. \A n : Folded(n) => n.id = op.id
    BY DEF Folded
  <2> QED BY <1>3, <1>9, <2>1 DEF Orderly, Live
<1>13. Proper(T, r)
  <2>1. CASE Replaces(F, op, T)
    <3>1. \A x \in T : x.card = c => x = op
      BY <2>1 DEF Replaces, OffCard
    <3>2. \A x \in T : x.card # c => x \in F
      BY <2>1 DEF Replaces, OffCard
    <3> QED BY <1>11, <3>1, <3>2 DEF Proper
  <2>2. CASE Joins(F, op, T)
    <3>1. T = F \cup {op} /\ op.kind \notin {"create", "delete"} /\ \A x \in F : x.card = c => x.kind # "delete"
      BY <1>7, <2>2 DEF Joins
    <3> QED BY <1>2, <1>10, <1>11, <3>1 DEF Proper
  <2>3. CASE Refused(F, op, T)
    BY <1>11, <2>3 DEF Refused
  <2>4. ASSUME NEW n, Folded(n) PROVE Proper(T, r)
    <3>1. n.kind = "patch" /\ r[n.id] = m /\ n.card = c
      BY <1>2, <2>4 DEF Folded
    <3>2. \A x \in F : x.card = c => x.kind # "delete"
      BY <1>6, <1>7, <2>4
    <3>3. T \subseteq F \cup {n}
      BY <1>6, <2>4
    <3> QED BY <1>10, <1>11, <3>1, <3>2, <3>3 DEF Proper
  <2> QED BY <1>5, <2>1, <2>2, <2>3, <2>4
\* A queued delete of F is of another card than a create that arrives and takes
\* its place.
<1>14. Alone(b, q, T)
  <2>1. SUFFICES ASSUME NEW x \in T, x.kind = "delete"
                 PROVE  /\ ~CreateAfter(b, x.card, r[x.id])
                        /\ \A d \in DOMAIN b :
                              /\ b[d].card = x.card /\ b[d].kind = "delete" /\ d < r[x.id]
                              /\ b[d].id \notin q[r[x.id]]
                              => CreateBetween(b, x.card, d, r[x.id])
    BY Zenon DEF Alone, r
  <2>2. CASE x \in F
    <3>1. /\ ~CreateAfter(a, x.card, r[x.id])
          /\ \A d \in DOMAIN a :
                /\ a[d].card = x.card /\ a[d].kind = "delete" /\ d < r[x.id]
                /\ a[d].id \notin p[r[x.id]]
                => CreateBetween(a, x.card, d, r[x.id])
      BY <1>1, <2>1, <2>2 DEF Orderly, Alone
    <3>2. ~(c = x.card /\ op.kind = "create")
      <4>1. ASSUME c = x.card PROVE ~Replaces(F, op, T)
        <5>1. x # op
          BY <1>2, <1>10, <2>2
        <5>2. x \notin OffCard(F, c) \cup {op}
          BY <4>1, <5>1 DEF OffCard
        <5> QED BY <2>1, <5>2 DEF Replaces
      <4>2. ASSUME NEW n, Folded(n) PROVE op.kind # "create"
        BY <4>2 DEF Folded
      <4> QED BY <1>5, <4>1, <4>2 DEF Joins, Refused
    <3>3. \A d \in DOMAIN b : d < r[x.id] => d \in DOMAIN a
      BY <1>2, <1>10, <2>2
    <3>4. ~CreateAfter(b, x.card, r[x.id])
      BY <1>4, <3>1, <3>2
    <3>5. r[x.id] <= m /\ r[x.id] \in Nat /\ q[r[x.id]] = p[r[x.id]]
      <4>1. r[x.id] \in DOMAIN a /\ r[x.id] < m /\ r[x.id] \in Nat
        BY <1>1, <1>10, <2>2
      <4> QED BY <1>2, <1>3, <4>1
    <3>6. \A d : CreateBetween(b, x.card, d, r[x.id]) <=> CreateBetween(a, x.card, d, r[x.id])
      BY <1>4, <3>5
    <3> QED BY <1>3, <3>1, <3>3, <3>4, <3>5, <3>6
  <2>3. CASE x = op /\ Replaces(F, op, T)
    <3>1. ~CreateAfter(b, c, m)
      BY <1>2 DEF CreateAfter
    <3>2. ASSUME NEW d \in DOMAIN b, b[d].card = c, b[d].kind = "delete", d < m, b[d].id \notin s,
                 ~CreateBetween(b, c, d, m)
          PROVE  FALSE
      <4>1. d \in DOMAIN a /\ a[d] = b[d]
        BY <1>2, <1>3, <3>2
      <4>2. ~CreateAfter(a, c, d)
        <5>1. ~CreateBetween(a, c, d, m)
          BY <1>2, <1>4, <3>2
        <5> QED BY <1>2, <5>1 DEF CreateAfter, CreateBetween
      <4>3. PICK y \in F : y.card = c /\ y.kind = "delete"
        BY <3>2, <4>1, <4>2 DEF Orderly, Waits
      <4> QED BY <1>7, <2>1, <2>3, <4>3 DEF Replaces
    <3> QED BY <1>2, <1>3, <2>3, <3>1, <3>2
  <2>4. ~(x = op /\ Joins(F, op, T)) /\ ~Folded(x)
    BY <2>1 DEF Joins, Folded
  <2> QED BY <1>9, <2>2, <2>3, <2>4
<1>15. Waits(b, q, s, T)
  <2>1. SUFFICES ASSUME NEW d \in DOMAIN b, b[d].kind = "delete", b[d].id \notin s,
                        ~CreateAfter(b, b[d].card, d)
                 PROVE  \E x \in T : /\ x.card = b[d].card /\ x.kind = "delete"
                                     /\ r[x.id] = d \/ (r[x.id] < d /\ x.id \notin q[d])
    BY Zenon DEF Waits, r
  <2>2. CASE d \in DOMAIN a
    <3>1. PICK x \in F : /\ x.card = a[d].card /\ x.kind = "delete"
                         /\ r[x.id] = d \/ (r[x.id] < d /\ x.id \notin p[d])
      <4>1. a[d].kind = "delete" /\ a[d].id \notin s /\ ~CreateAfter(a, a[d].card, d)
        BY <1>3, <1>4, <2>1, <2>2
      <4>2. PICK x \in F : /\ x.card = a[d].card /\ x.kind = "delete"
                           /\ \/ Place(a)[x.id] = d
                              \/ Place(a)[x.id] < d /\ x.id \notin p[d]
        BY <2>2, <4>1, Zenon DEF Orderly, Waits
      <4>3. Place(a)[x.id] = r[x.id]
        BY <1>1
      <4> QED BY <4>2, <4>3
    <3>2. x \in T
      <4>1. ASSUME x.card = c PROVE ~Replaces(F, op, T)
        <5>1. op.kind # "create"
          BY <1>2, <1>3, <1>4, <2>1, <2>2, <3>1, <4>1
        <5> QED BY <1>7, <3>1, <4>1, <5>1 DEF Replaces
      <4>2. ASSUME x.card = c, NEW n PROVE ~Folded(n) /\ ~Joins(F, op, T)
        BY <1>6, <1>7, <3>1, <4>2 DEF Joins
      <4> QED BY <1>5, <1>8, <4>1, <4>2 DEF Refused
    <3> QED BY <1>3, <2>2, <3>1, <3>2
  <2>3. CASE d = m
    <3>1. op.kind = "delete" /\ b[d] = op /\ q[d] = s
      BY <1>3, <2>1, <2>3
    <3>2. CASE Replaces(F, op, T)
      <4>1. op \in T
        BY <3>2 DEF Replaces
      <4> QED BY <1>2, <2>3, <3>1, <4>1
    <3>3. CASE Refused(F, op, T)
      <4>1. PICK x \in F : x.card = c /\ x.kind = "delete" /\ x \in T
        BY <1>7, <3>3 DEF Refused, OnCard
      <4>2. x.id \notin s
        BY DEF Orderly, Live
      <4> QED BY <1>10, <2>3, <3>1, <4>1, <4>2
    <3>4. ~Joins(F, op, T) /\ \A n : ~Folded(n)
      BY <3>1 DEF Joins, Folded
    <3> QED BY <1>5, <3>2, <3>3, <3>4
  <2> QED BY <1>2, <2>2, <2>3
\* What a queued delete refuses.
<1>16. ASSUME Refused(F, op, T) PROVE Passed(b, q, s, m)
  <2>1. PICK x \in F : x.card = c /\ x.kind = "delete"
    BY <1>16 DEF Refused, OnCard
  <2> DEFINE j == r[x.id]
  <2>2. j \in DOMAIN a /\ j \in DOMAIN b /\ j < m /\ b[j].card = c /\ b[j].kind = "delete" /\ b[j].id = x.id
    BY <1>1, <1>2, <1>3, <2>1
  <2>3. ~CreateAfter(a, c, j)
    BY <1>1, <2>1 DEF Orderly, Alone
  <2>4. x.id \notin s
    BY DEF Orderly, Live
  <2> HIDE DEF j
  <2>5. ~CreateBetween(b, c, j, m)
    <3>1. ~CreateBetween(a, c, j, m)
      BY <2>3 DEF CreateAfter, CreateBetween
    <3> QED BY <1>2, <1>4, <3>1
  <2>6. Dooms(b, q, j, m)
    BY <1>3, <1>16, <2>2, <2>4, <2>5 DEF Dooms, Refused
  <2> QED BY <2>2, <2>6 DEF Passed
<1>17. Kept(b, q, s, T)
  <2>1. SUFFICES ASSUME NEW i \in DOMAIN b, b[i].kind \in {"create", "review"}, ~Passed(b, q, s, i)
                 PROVE  b[i] \in T
    BY Zenon DEF Kept
  <2>2. CASE i \in DOMAIN a
    <3>1. a[i] \in F /\ a[i].kind # "patch" /\ b[i] = a[i]
      BY <1>3, <1>4, <2>1, <2>2 DEF Orderly, Kept
    <3>2. a[i].card = c => ~Replaces(F, op, T)
      BY <1>4, <2>1, <2>2 DEF Replaces
    <3>3. ASSUME NEW n, Folded(n) PROVE a[i] \in T
      BY <1>6, <3>1, <3>3
    <3> QED BY <1>5, <1>8, <3>1, <3>2, <3>3 DEF Joins, Refused
  <2>3. CASE i = m
    <3>1. \A n : ~Folded(n)
      BY <1>3, <2>1, <2>3 DEF Folded
    <3> QED BY <1>3, <1>5, <1>16, <2>1, <2>3, <3>1 DEF Replaces, Joins
  <2> QED BY <1>2, <2>2, <2>3
<1>18. Written(b, q, s, T)
  <2>1. SUFFICES ASSUME NEW i \in DOMAIN b, b[i].kind = "patch", NEW f \in b[i].mask,
                        ~Passed(b, q, s, i),
                        ~\E l \in DOMAIN b : b[l].card = b[i].card /\ i < l /\ WritesField(b[l], f)
                 PROVE  \E x \in T : /\ TopWriter(T, r, x, f)
                                     /\ x.card = b[i].card /\ x.val[f] = b[i].id /\ i <= r[x.id]
    BY Zenon DEF Written, r
  <2>2. CASE i \in DOMAIN a
    <3>1. b[i] = a[i] /\ ~Passed(a, p, s, i)
      BY <1>3, <1>4, <2>1, <2>2
    <3>2. ~\E l \in DOMAIN a : a[l].card = a[i].card /\ i < l /\ WritesField(a[l], f)
      BY <1>2, <1>3, <2>1, <3>1
    <3>3. PICK y \in F : /\ TopWriter(F, Place(a), y, f)
                         /\ y.card = a[i].card /\ y.val[f] = a[i].id /\ i <= Place(a)[y.id]
      BY <2>1, <2>2, <3>1, <3>2, Zenon DEF Orderly, Written
    <3>4. TopWriter(F, r, y, f) /\ i <= r[y.id]
      BY <1>1, <3>3 DEF TopWriter
    <3>5. a[i].card = c => ~WritesField(op, f)
      BY <1>2, <1>3, <2>1, <2>2, <3>1
    <3>6. CASE y.card # c
      <4>1. y \in T
        BY <1>8, <3>6
      <4>2. \A x \in T : x.card # c => x \in F
        <5>1. \A n : Folded(n) => n.card = c
          BY DEF Folded
        <5> QED BY <1>9, <5>1
      <4>3. TopWriter(T, r, y, f)
        BY <3>4, <3>6, <4>1, <4>2 DEF TopWriter
      <4> QED BY <3>1, <3>3, <3>4, <4>1, <4>3
    <3>7. CASE y.card = c
      <4>1. ~Replaces(F, op, T)
        BY <1>4, <2>1, <2>2, <3>3, <3>7 DEF Replaces
      <4>2. CASE Joins(F, op, T) \/ Refused(F, op, T)
        <5>1. T \subseteq F \cup {op} /\ y \in T
          BY <4>2 DEF Joins, Refused
        <5>2. TopWriter(T, r, y, f)
          BY <3>3, <3>4, <3>5, <3>7, <5>1 DEF TopWriter
        <5> QED BY <3>1, <3>3, <3>4, <5>1, <5>2
      <4>3. ASSUME NEW n, Folded(n)
            PROVE  \E x \in T : /\ TopWriter(T, r, x, f)
                                /\ x.card = b[i].card /\ x.val[f] = b[i].id /\ i <= r[x.id]
        <5>1. PICK l \in OnCard(F, c) : /\ l.kind = "patch" /\ T = (F \ {l}) \cup {n}
                                        /\ \A x \in OnCard(F, c) : x = l \/ r[x.id] < r[l.id]
                                        /\ n.mask = l.mask \cup op.mask
                                        /\ \A g \in l.mask \ op.mask : n.val[g] = l.val[g]
          BY <1>6, <4>3
        <5>2. n.kind = "patch" /\ n.id = op.id /\ n.card = c /\ op.kind = "patch" /\ r[n.id] = m
          BY <1>2, <4>3 DEF Folded
        <5>3. f \notin op.mask /\ l \in F /\ l.card = c
          BY <3>3, <3>5, <3>7, <5>2 DEF WritesField, OnCard
        <5>4. CASE y = l
          <6>1. WritesField(n, f) /\ n.val[f] = a[i].id
            BY <3>3, <3>4, <5>1, <5>2, <5>3, <5>4 DEF TopWriter, WritesField
          <6>2. TopWriter(T, r, n, f)
            BY <1>2, <1>10, <5>1, <5>2, <6>1 DEF TopWriter
          <6>3. i <= r[n.id] /\ n \in T
            BY <1>2, <2>2, <5>1, <5>2
          <6> QED BY <3>1, <3>3, <3>7, <5>2, <6>1, <6>2, <6>3
        <5>5. CASE y # l
          <6>1. r[y.id] < r[l.id]
            BY <1>7, <3>7, <5>1, <5>5
          <6>2. ~WritesField(l, f)
            BY <1>10, <3>4, <3>7, <5>3, <6>1 DEF TopWriter
          <6>3. ~WritesField(n, f)
            BY <5>1, <5>3, <6>2 DEF WritesField
          <6>4. y \in T /\ TopWriter(T, r, y, f)
            BY <3>4, <5>1, <5>5, <6>3 DEF TopWriter
          <6> QED BY <3>1, <3>3, <3>4, <6>4
        <5> QED BY <5>4, <5>5
      <4> QED BY <1>5, <4>1, <4>2, <4>3
    <3> QED BY <3>6, <3>7
  <2>3. CASE i = m
    <3>1. b[i] = op /\ op.kind = "patch" /\ f \in op.mask /\ WritesField(op, f) /\ op.val[f] = op.id
      <4>1. b[i] = op /\ op.kind = "patch" /\ f \in op.mask /\ f \in Fields
        BY <1>3, <2>1, <2>3 DEF OpType
      <4>2. op.val[f] = op.id
        BY <1>3, <4>1 DEF Own
      <4> QED BY <4>1, <4>2 DEF WritesField
    <3>2. ~Replaces(F, op, T) /\ ~Refused(F, op, T)
      BY <1>16, <2>1, <2>3, <3>1 DEF Replaces
    <3>3. CASE Joins(F, op, T)
      <4>1. T = F \cup {op}
        BY <3>3 DEF Joins
      <4>2. TopWriter(T, r, op, f)
        BY <1>2, <1>10, <3>1, <4>1 DEF TopWriter
      <4>3. op \in T /\ i <= r[op.id]
        BY <1>2, <2>3, <4>1
      <4> QED BY <3>1, <4>2, <4>3
    <3>4. ASSUME NEW n, Folded(n)
          PROVE  \E x \in T : /\ TopWriter(T, r, x, f)
                              /\ x.card = b[i].card /\ x.val[f] = b[i].id /\ i <= r[x.id]
      <4>1. PICK l \in OnCard(F, c) : T = (F \ {l}) \cup {n} /\ n.mask = l.mask \cup op.mask
        BY <1>6, <3>4
      <4>2. n.kind = "patch" /\ n.id = op.id /\ n.card = c /\ r[n.id] = m /\ n.val[f] = op.val[f]
        BY <1>2, <1>6, <3>1, <3>4 DEF Folded
      <4>3. n \in T /\ WritesField(n, f)
        BY <3>1, <4>1, <4>2 DEF WritesField
      <4>4. TopWriter(T, r, n, f)
        BY <1>2, <1>10, <4>1, <4>2, <4>3 DEF TopWriter
      <4>5. i <= r[n.id]
        BY <1>2, <2>3, <4>2
      <4> QED BY <3>1, <4>2, <4>3, <4>4, <4>5
    <3> QED BY <1>5, <3>2, <3>3, <3>4
  <2> QED BY <1>2, <2>2, <2>3
<1> QED BY <1>12, <1>13, <1>14, <1>15, <1>17, <1>18 DEF Orderly, r

\* Ranks that agree on the operations at hand are as good.
LEMMA SameRanks ==
    ASSUME NEW S, NEW T, NEW r, NEW r2, \A x \in S \cup T : r[x.id] = r2[x.id], Same(S, T, r)
    PROVE  Same(S, T, r2)
<1>1. ASSUME NEW U \in {S, T}, NEW x, NEW f PROVE TopWriter(U, r, x, f) <=> TopWriter(U, r2, x, f)
  BY DEF TopWriter
<1>2. ASSUME NEW x \in S, NEW f, TopWriter(S, r2, x, f)
      PROVE  \E y \in T : /\ TopWriter(T, r2, y, f)
                          /\ y.card = x.card /\ y.val[f] = x.val[f] /\ r2[x.id] <= r2[y.id]
  <2>1. TopWriter(S, r, x, f)
    BY <1>1, <1>2
  <2>2. PICK y \in T : /\ TopWriter(T, r, y, f)
                       /\ y.card = x.card /\ y.val[f] = x.val[f] /\ r[x.id] <= r[y.id]
    BY <2>1, Zenon DEF Same
  <2> QED BY <1>1, <2>2
<1>3. /\ \A x : x.kind # "patch" => (x \in T <=> x \in S)
      /\ \A y \in T : \E x \in S : x.id = y.id
      /\ \A y \in T : \A f : WritesField(y, f) => \E x \in S : x.card = y.card /\ WritesField(x, f)
  BY Zenon DEF Same
<1> QED BY <1>2, <1>3, Zenon DEF Same

\* Operations that arrive in order, as the merge sees them.
LEMMA OrderlyMerge ==
    ASSUME NEW a \in Seq(OpType), NEW op \in OpType, op.id \notin IdsOf(a), Unique(a), Own(op),
           InOrder(Append(a, op)), NEW p, NEW q, NEW s, s \subseteq IdsOf(a),
           \A i \in DOMAIN a : q[i] = p[i], q[Len(a) + 1] = s,
           NEW queued \in Seq(From(a)), InRank(queued, Place(a)), Orderly(a, p, s, Ops(queued))
    PROVE  LET b == Append(a, op)
               new == Merge(Append(queued, op)) IN
           InRank(new, Place(b)) /\ Orderly(b, q, s, Ops(new))
<1> DEFINE b == Append(a, op)
           m == Len(a) + 1
           r == Place(b)
           S == Ops(queued)
           next == Append(queued, op)
           new == Merge(next)
<1>1. /\ b \in Seq(OpType) /\ DOMAIN b = 1 .. m /\ DOMAIN a = 1 .. Len(a)
      /\ \A i \in DOMAIN a : b[i] = a[i]
      /\ b[m] = op
      /\ Unique(b)
      /\ From(a) \subseteq From(b) /\ op \in From(b)
      /\ \A x \in From(a) : Place(b)[x.id] = Place(a)[x.id]
      /\ Place(b)[op.id] = m
  BY FromAppend
<1>2. InOrder(b)
  OBVIOUS
<1> HIDE DEF b
<1>3. m \in Nat /\ DOMAIN a = 1 .. m - 1
  BY <1>1, LenProperties
<1> HIDE DEF m
<1>4. Arrives(a, p, b, q, s, op, m)
  BY <1>1, <1>3 DEF Arrives, m
<1>5. Timed(From(b)) /\ Foldable(From(b)) /\ Patching(From(b)) /\ Identified(From(b)) /\ Ranked(From(b), r)
  BY <1>1, <1>2, <1>3, FromFolds, FromIds, FromRanked
<1>6. S \subseteq From(a)
  BY OpsIn
<1>7. queued \in Seq(From(b)) /\ next \in Seq(From(b)) /\ Ops(next) = S \cup {op}
  <2>1. queued \in Seq(From(b))
    BY <1>1, <1>6, SeqOfOps
  <2> QED BY <1>1, <2>1, AppendProperties, OpsOfAppend
<1>8. \A x \in From(a) : /\ r[x.id] = Place(a)[x.id] /\ r[x.id] \in DOMAIN a /\ r[x.id] < m
                         /\ x.card = a[r[x.id]].card
  BY <1>4, ArrivesPlaces
<1>9. \A x \in From(a) : x.at <= op.at
  <2>1. SUFFICES ASSUME NEW x \in From(a) PROVE x.at <= op.at
    OBVIOUS
  <2>2. PICK i \in DOMAIN a : x.at = a[i].at
    BY DEF From, Stems
  <2>3. i \in DOMAIN b /\ m \in DOMAIN b /\ i < m
    BY <1>1, <1>3, <2>2
  <2> QED BY <1>1, <1>2, <2>2, <2>3 DEF InOrder
<1>10. InRank(next, r)
  <2>1. \A x, y : Follows(next, x, y) => Follows(queued, x, y) \/ (x \in S /\ y = op)
    BY <1>1, <1>7, FollowsAppend
  <2>2. ASSUME NEW x, NEW y, Follows(queued, x, y), x.card = y.card PROVE r[x.id] < r[y.id]
    <3>1. x \in S /\ y \in S
      BY <2>2, FollowsIn
    <3>2. Place(a)[x.id] < Place(a)[y.id]
      BY <2>2, <3>1 DEF InRank
    <3> QED BY <1>6, <1>8, <3>1, <3>2
  <2>3. \A x \in S : r[x.id] < r[op.id]
    BY <1>1, <1>6, <1>8
  <2> HIDE DEF next, r, S
  <2> QED BY <2>1, <2>2, <2>3 DEF InRank
<1>11. Proper(S, r)
  BY <1>6, <1>8 DEF Orderly, Proper
<1>12. /\ InRank(new, r)
       /\ \E F \in SUBSET From(b), N \in SUBSET From(b) :
             /\ Same(S, F, r)
             /\ \A x \in N : x.card = op.card
             /\ Absorbed(OnCard(F, op.card), op, N, r)
             /\ Ops(new) = OffCard(F, op.card) \cup N
  <2>1. \A x \in Ops(queued) : x.at <= op.at
    BY <1>6, <1>9
  <2> HIDE DEF r
  <2> QED BY <1>1, <1>5, <1>7, <1>10, <1>11, <2>1, MergeAppend
<1> HIDE DEF r, S, new
<1>13. PICK F \in SUBSET From(b), N \in SUBSET From(b) :
         /\ Same(S, F, r)
         /\ Absorbed(OnCard(F, op.card), op, N, r)
         /\ Ops(new) = OffCard(F, op.card) \cup N
  BY <1>12
<1>14. F \in SUBSET From(a)
  <2>1. SUFFICES ASSUME NEW x \in F PROVE x \in From(a)
    OBVIOUS
  <2>2. PICK z \in S : z.id = x.id
    BY <1>13 DEF Same
  <2>3. r[x.id] \in DOMAIN a /\ Stems(b, r[x.id], x)
    BY <1>1, <1>6, <1>8, <2>2, FromIds DEF r
  <2>4. Stems(a, r[x.id], x)
    BY <1>1, <2>3 DEF Stems
  <2>5. x \in OpType
    BY DEF From
  <2> QED BY <2>3, <2>4, <2>5 DEF From
<1>15. Orderly(a, p, s, F)
  <2>1. \A x \in S \cup F : r[x.id] = Place(a)[x.id]
    BY <1>6, <1>8, <1>14
  <2>2. Same(S, F, Place(a))
    BY <1>13, <2>1, SameRanks
  <2>3. DOMAIN a = 1 .. Len(a) /\ Len(a) \in Nat
    BY LenProperties
  <2> QED BY <1>6, <1>14, <2>2, <2>3, OrderlySame DEF S
<1>16. Proper(F, r)
  BY <1>8, <1>14, <1>15 DEF Orderly, Proper
<1>17. \A x \in F : op.at >= x.at
  <2>1. \A x \in From(b) : x.at \in Int
    BY <1>5 DEF Timed
  <2> QED BY <1>1, <1>9, <1>14, <2>1
<1> DEFINE T == OffCard(F, op.card) \cup N
<1>18. \/ Replaces(F, op, T) \/ Joins(F, op, T) \/ Refused(F, op, T)
       \/ \E l \in F : Folds(F, op, T, l, r)
  BY <1>13, <1>16, <1>17, AbsorbedHow
<1> HIDE DEF T
<1>19. Orderly(b, q, s, T)
  BY <1>4, <1>14, <1>15, <1>18, OrderlyArrival DEF r
<1> QED BY <1>12, <1>13, <1>19 DEF b, r, T, new

-----------------------------------------------------------------------------
(* The device's queue while operations arrive in the order of their stamps. *)

DQOrder == InStampOrder => /\ InRank(queue, Place(arrived))
                           /\ Orderly(arrived, past, settled, Ops(queue))

\* The arrivals, in a word.
LEMMA BaseFacts ==
    ASSUME DQBase
    PROVE  /\ arrived \in Seq(OpType) /\ Unique(arrived) /\ settled \subseteq IdsOf(arrived)
           /\ Len(arrived) \in Nat /\ DOMAIN arrived = 1 .. Len(arrived) /\ DOMAIN past = DOMAIN arrived
           /\ queue \in Seq(From(arrived)) /\ snapshot \in Seq(From(arrived))
           /\ \A i \in DOMAIN arrived : arrived[i].at \in Nat
<1>1. /\ arrived \in Seq(OpType) /\ Unique(arrived) /\ settled \subseteq IdsOf(arrived)
      /\ queue \in Seq(From(arrived)) /\ snapshot \in Seq(From(arrived))
      /\ past \in Seq(SUBSET Nat) /\ Len(past) = Len(arrived)
  BY DEF DQBase, DQTypes, Numbered, Settling
<1>2. Len(arrived) \in Nat /\ DOMAIN arrived = 1 .. Len(arrived) /\ DOMAIN past = DOMAIN arrived
  BY <1>1, LenProperties
<1>3. \A i \in DOMAIN arrived : arrived[i].at \in Nat
  <2>1. \A i \in DOMAIN arrived : arrived[i] \in OpType
    BY <1>1, <1>2, ElementOfSeq
  <2> QED BY <2>1 DEF OpType
<1> QED BY <1>1, <1>2, <1>3

\* Then one operation is before another if it arrived before it.
LEMMA BeforeIs ==
    ASSUME DQBase, InStampOrder, NEW i \in DOMAIN arrived, NEW j \in DOMAIN arrived
    PROVE  Before(i, j) <=> i < j
<1>1. i \in Nat /\ j \in Nat /\ arrived[i].at \in Nat /\ arrived[j].at \in Nat
  BY BaseFacts
<1>2. /\ i < j => arrived[i].at <= arrived[j].at
      /\ j < i => arrived[j].at <= arrived[i].at
  BY DEF InStampOrder
<1> QED BY <1>1, <1>2 DEF Before

\* An empty queue owes nothing.
LEMMA OrderInit == DQInit => DQOrder
<1> SUFFICES ASSUME DQInit PROVE DQOrder
  OBVIOUS
<1>1. arrived = <<>> /\ queue = <<>> /\ settled = {}
  BY DEF DQInit
<1>2. InRank(queue, Place(arrived)) /\ Ops(queue) = {}
  BY <1>1, OpsOfEmpty DEF InRank
<1>3. IdsOf(arrived) = {} /\ DOMAIN arrived = 1 .. 0
  BY <1>1 DEF IdsOf
<1>4. Orderly(arrived, past, IdsOf(arrived), {})
  BY <1>3, OrderlyCleared
<1> QED BY <1>1, <1>2, <1>3, <1>4 DEF DQOrder

\* An operation that is persisted is queued and the queue merged.
LEMMA OrderPersist ==
    ASSUME DQBase, DQOrder, NEW t \in Tabs, Persist(t)
    PROVE  DQOrder'
<1> SUFFICES ASSUME InStampOrder'
             PROVE  InRank(queue', Place(arrived')) /\ Orderly(arrived', past', settled', Ops(queue'))
  BY DEF DQOrder
<1> DEFINE op == Head(draft[t])
           b == Append(arrived, op)
           new == Merge(Append(queue, op))
           n == Len(arrived)
<1>1. op \in OpType /\ op.id \notin IdsOf(arrived) /\ Own(op)
  BY HeadIsNew DEF Persist
<1>2. arrived' = b /\ queue' = new /\ past' = Append(past, settled) /\ settled' = settled
  BY DEF Persist
<1> HIDE DEF op
<1>3. /\ arrived \in Seq(OpType) /\ Unique(arrived) /\ settled \subseteq IdsOf(arrived)
      /\ n \in Nat /\ DOMAIN arrived = 1 .. n /\ queue \in Seq(From(arrived))
  BY BaseFacts
<1>4. InOrder(b)
  BY <1>2 DEF InStampOrder, InOrder
<1>5. InStampOrder
  <2>1. /\ DOMAIN b = 1 .. n + 1 /\ \A i \in DOMAIN arrived : b[i] = arrived[i]
    BY <1>1, <1>3, FromAppend
  <2> HIDE DEF b
  <2> QED BY <1>3, <1>4, <2>1 DEF InStampOrder, InOrder
<1>6. /\ \A i \in DOMAIN arrived : past'[i] = past[i]
      /\ past'[n + 1] = settled
  <2>1. past \in Seq(SUBSET Nat) /\ Len(past) = n
    BY DEF DQBase, DQTypes
  <2>2. settled \in SUBSET Nat
    <3>1. \A i \in DOMAIN arrived : arrived[i] \in OpType
      BY <1>3, ElementOfSeq
    <3>2. \A i \in DOMAIN arrived : arrived[i].id \in Nat
      BY <3>1 DEF OpType
    <3> QED BY <1>3, <3>2 DEF IdsOf
  <2> HIDE DEF n
  <2> QED BY <1>2, <1>3, <2>1, <2>2, AppendProperties
<1>7. InRank(queue, Place(arrived)) /\ Orderly(arrived, past, settled, Ops(queue))
  BY <1>5 DEF DQOrder
<1>8. InRank(new, Place(b)) /\ Orderly(b, past', settled, Ops(new))
  BY <1>1, <1>3, <1>4, <1>6, <1>7, OrderlyMerge
<1> HIDE DEF b, new
<1> QED BY <1>2, <1>8

\* Merging what is queued.
LEMMA OrderMerged ==
    ASSUME DQBase, DQOrder, InStampOrder
    PROVE  /\ Merge(queue) \in Seq(From(arrived))
           /\ InRank(Merge(queue), Place(arrived))
           /\ Orderly(arrived, past, settled, Ops(Merge(queue)))
<1> DEFINE E == From(arrived)
           r == Place(arrived)
           S == Ops(queue)
           T == Ops(Merge(queue))
           n == Len(arrived)
<1>1. /\ Unique(arrived) /\ n \in Nat /\ DOMAIN arrived = 1 .. n /\ queue \in Seq(E)
      /\ InOrder(arrived)
  BY BaseFacts DEF InStampOrder, InOrder
<1> HIDE DEF n
<1>2. Timed(E) /\ Foldable(E) /\ Patching(E) /\ Identified(E) /\ Ranked(E, r)
  BY <1>1, FromFolds, FromIds, FromRanked
<1>3. InRank(queue, r) /\ Orderly(arrived, past, settled, S)
  BY DEF DQOrder
<1>4. Proper(S, r)
  BY <1>3 DEF Orderly
<1> HIDE DEF E, r
<1>5. Merge(queue) \in Seq(E) /\ InRank(Merge(queue), r) /\ Same(S, T, r)
  BY <1>1, <1>2, <1>3, <1>4, MergeProper
<1>6. S \in SUBSET E /\ T \in SUBSET E
  BY <1>1, <1>5, OpsIn
<1> HIDE DEF S, T
<1>7. Orderly(arrived, past, settled, T)
  BY <1>1, <1>3, <1>5, <1>6, OrderlySame DEF E, r
<1> QED BY <1>5, <1>7 DEF E, r, T

\* An acknowledgement takes what it settles out of the merged queue.
LEMMA OrderAcknowledge ==
    ASSUME DQBase, DQOrder, Acknowledge
    PROVE  DQOrder'
<1>0. UNCHANGED <<arrived, past>>
  BY DEF Acknowledge
<1> SUFFICES ASSUME InStampOrder
             PROVE  InRank(queue', Place(arrived)) /\ Orderly(arrived, past, settled', Ops(queue'))
  BY <1>0 DEF DQOrder, InStampOrder
<1>1. PICK done \in SUBSET ToSet(snapshot) :
         /\ queue' = Acknowledged(queue, done)
         /\ settled' = settled \cup {o.id : o \in done} \cup AbsorbedBy({o.id : o \in done})
  BY DEF Acknowledge
<1> DEFINE D == {o.id : o \in done}
           m == Merge(queue)
           S == Ops(m)
           A == {x \in S : \A o \in done : o.id # x.id}
           n == Len(arrived)
<1>2. /\ Unique(arrived) /\ n \in Nat /\ DOMAIN arrived = 1 .. n /\ snapshot \in Seq(From(arrived))
  BY BaseFacts
<1>3. queue' = Keep(m, A)
  BY <1>1, Zenon DEF Acknowledged
<1>4. m \in Seq(From(arrived)) /\ InRank(m, Place(arrived)) /\ Orderly(arrived, past, settled, S)
  BY OrderMerged
<1>5. A = {x \in S : x.id \notin D}
  OBVIOUS
<1>6. D \subseteq IdsOf(arrived)
  <2>1. ToSet(snapshot) \subseteq From(arrived)
    BY <1>2, OpsIn DEF Ops, ToSet
  <2> QED BY <2>1 DEF From, Stems, IdsOf
<1> HIDE DEF m, A, D
<1>7. InRank(queue', Place(arrived)) /\ Ops(queue') = A
  <2>1. InRank(Keep(m, A), Place(arrived))
    BY <1>4, RankKeep
  <2>2. Ops(Keep(m, A)) = Ops(m) \cap A
    BY <1>4, KeepFacts
  <2>3. Ops(m) \cap A = A
    BY <1>5
  <2> QED BY <1>3, <2>1, <2>2, <2>3
<1> HIDE DEF S, n
<1>8. settled \subseteq settled' /\ D \subseteq settled'
  BY <1>1 DEF D
<1>9. Settles(arrived, past, settled, D, settled')
  <2>0. SUFFICES ASSUME NEW j \in DOMAIN arrived
                 PROVE  arrived[j].id \in settled' <=>
                           \/ arrived[j].id \in settled \cup D
                           \/ /\ arrived[j].kind = "delete"
                              /\ \E d \in DOMAIN arrived :
                                    /\ arrived[d].id \in D /\ arrived[d].kind = "delete"
                                    /\ arrived[d].card = arrived[j].card /\ d < j
                                    /\ arrived[d].id \notin past[j]
                                    /\ ~CreateBetween(arrived, arrived[j].card, d, j)
    BY <1>6, <1>8, Zenon DEF Settles
  <2>1. arrived[j].id \in settled' <=> arrived[j].id \in settled \cup D \/ arrived[j].id \in AbsorbedBy(D)
    BY <1>1 DEF D
  <2> DEFINE Taken(i) == /\ arrived[i].kind = "delete"
                         /\ \E d \in DOMAIN arrived :
                               /\ arrived[d].id \in D /\ arrived[d].kind = "delete"
                               /\ arrived[d].card = arrived[i].card /\ Before(d, i)
                               /\ arrived[d].id \notin past[i]
                               /\ ~\E k \in DOMAIN arrived : /\ arrived[k].kind = "create"
                                                             /\ arrived[k].card = arrived[i].card
                                                             /\ Before(d, k) /\ Before(k, i)
  <2>2. AbsorbedBy(D) = {arrived[i].id : i \in {k \in DOMAIN arrived : Taken(k)}}
    BY DEF AbsorbedBy
  <2> HIDE DEF Taken
  <2>3. arrived[j].id \in AbsorbedBy(D) <=> Taken(j)
    BY <1>2, <2>2 DEF Unique
  <2>4. \A d, k \in DOMAIN arrived : Before(d, k) <=> d < k
    BY BeforeIs
  <2>5. Taken(j) <=> /\ arrived[j].kind = "delete"
                     /\ \E d \in DOMAIN arrived :
                           /\ arrived[d].id \in D /\ arrived[d].kind = "delete"
                           /\ arrived[d].card = arrived[j].card /\ d < j
                           /\ arrived[d].id \notin past[j]
                           /\ ~CreateBetween(arrived, arrived[j].card, d, j)
    BY <2>4 DEF Taken, CreateBetween
  <2> QED BY <2>1, <2>3, <2>5
<1>10. S \in SUBSET From(arrived)
  BY <1>4, OpsIn DEF S
<1>11. Orderly(arrived, past, settled', {x \in S : x.id \notin D})
  <2>1. Orderly(arrived, past, settled, S)
    BY <1>4 DEF S
  <2> QED BY ONLY <1>2, <1>9, <1>10, <2>1, OrderlyAcknowledged
<1> QED BY <1>5, <1>7, <1>11

\* A load writes the merged queue back, a clear-all empties it; the rest leave it.
LEMMA OrderRest ==
    ASSUME DQBase, DQOrder,
           (\E t \in Tabs : StampOp(t)) \/ Tick \/ LoadPending \/ VerifyEpoch \/ ClearQueue
           \/ UNCHANGED dqVars
    PROVE  DQOrder'
<1>1. UNCHANGED <<arrived, past>>
  BY DEF StampOp, Tick, LoadPending, VerifyEpoch, ClearQueue, dqVars
<1> SUFFICES ASSUME InStampOrder
             PROVE  InRank(queue', Place(arrived)) /\ Orderly(arrived, past, settled', Ops(queue'))
  BY <1>1, Zenon DEF DQOrder, InStampOrder
<1>2. CASE LoadPending
  <2> DEFINE m == Merge(queue)
  <2>1. queue' = m /\ settled' = settled
    BY <1>2 DEF LoadPending
  <2>2. InRank(m, Place(arrived)) /\ Orderly(arrived, past, settled, Ops(m))
    BY OrderMerged
  <2> HIDE DEF m
  <2> QED BY <2>1, <2>2
<1>3. CASE ClearQueue
  <2>1. settled' = IdsOf(arrived)
    BY <1>3, BaseFacts DEF ClearQueue, IdsOf
  <2>2. queue' = <<>> /\ Ops(queue') = {}
    BY <1>3, OpsOfEmpty DEF ClearQueue
  <2>3. InRank(queue', Place(arrived))
    BY <2>2 DEF InRank
  <2>4. Orderly(arrived, past, IdsOf(arrived), {})
    BY BaseFacts, OrderlyCleared
  <2> QED BY <2>1, <2>2, <2>3, <2>4
<1>4. CASE (\E t \in Tabs : StampOp(t)) \/ Tick \/ VerifyEpoch \/ UNCHANGED dqVars
  <2>1. UNCHANGED <<queue, settled>>
    BY <1>4 DEF StampOp, Tick, VerifyEpoch, dqVars
  <2> QED BY <2>1 DEF DQOrder
<1> QED BY <1>2, <1>3, <1>4

\* Every step keeps the order.
LEMMA OrderNext == DQBase /\ DQOrder /\ [DQNext]_dqVars => DQOrder'
<1> SUFFICES ASSUME DQBase, DQOrder, [DQNext]_dqVars PROVE DQOrder'
  OBVIOUS
<1>1. ASSUME NEW t \in Tabs, Persist(t) PROVE DQOrder'
  BY <1>1, OrderPersist
<1>2. CASE Acknowledge
  BY <1>2, OrderAcknowledge
<1>3. CASE (\E t \in Tabs : StampOp(t)) \/ Tick \/ LoadPending \/ VerifyEpoch \/ ClearQueue
           \/ UNCHANGED dqVars
  BY <1>3, OrderRest
<1> QED BY <1>1, <1>2, <1>3 DEF DQNext

-----------------------------------------------------------------------------
(* What the queue owes the operations that are outstanding.                *)

\* A set of places has a last one.
LEMMA LastPlace ==
    ASSUME NEW n \in Nat, NEW S \in SUBSET (1 .. n), S # {}
    PROVE  \E m \in S : \A k \in S : k <= m
<1> DEFINE U == {n - k : k \in S}
           R == {ss \in Nat \X Nat : ss[1] < ss[2]}
<1>1. IsWellFoundedOn(R, Nat)
  BY NatLessThanWellFounded, Zenon DEF OpToRel
<1>2. U \subseteq Nat
  OBVIOUS
<1>3. U # {}
  <2>1. PICK k \in S : TRUE
    OBVIOUS
  <2>2. n - k \in U
    BY <2>1
  <2> QED BY <2>2
<1> HIDE DEF U, R
<1>4. PICK u \in U : \A v \in U : ~(<<v, u>> \in R)
  BY <1>1, <1>2, <1>3, WFMin
<1>5. \A v \in U : ~(v < u)
  BY <1>2, <1>4 DEF R
<1>6. PICK m \in S : u = n - m
  BY <1>4 DEF U
<1>7. \A k \in S : ~(n - k < n - m)
  BY <1>5, <1>6 DEF U
<1> QED BY <1>7

\* The last write to a field is that of the highest patch that sets it.
LEMMA LastWriteIs ==
    ASSUME NEW E, NEW r, Ranked(E, r), NEW q \in Seq(E), InRank(q, r), NEW f,
           NEW x, TopWriter(Ops(q), r, x, f), NEW c, x.card = c
    PROVE  LastWrite(q, c, f) = {x.val[f]}
<1> DEFINE S == Ops(q)
           W == {k \in DOMAIN q : q[k].card = c /\ q[k].kind = "patch" /\ f \in q[k].mask}
           L == {w \in W : \A v \in W : v <= w}
<1>1. S \subseteq E /\ Len(q) \in Nat /\ DOMAIN q = 1 .. Len(q)
  BY OpsIn, LenProperties
<1>2. PICK k \in DOMAIN q : q[k] = x
  BY DEF TopWriter, Ops
<1>3. k \in W
  BY <1>2 DEF TopWriter, WritesField
<1>4. \A v \in W : v <= k
  <2>1. SUFFICES ASSUME NEW v \in W, k < v PROVE FALSE
    BY <1>1
  <2>2. Follows(q, x, q[v]) /\ q[v] \in S /\ x \in S /\ q[v].card = c
    BY <1>2, <2>1 DEF Follows, Ops
  <2>3. r[x.id] < r[q[v].id]
    BY <2>2 DEF InRank
  <2>4. r[q[v].id] <= r[x.id]
    <3>1. WritesField(q[v], f)
      BY DEF WritesField
    <3> HIDE DEF S
    <3> QED BY <2>2, <3>1 DEF TopWriter, S
  <2>5. r[x.id] \in Nat /\ r[q[v].id] \in Nat
    <3> HIDE DEF S
    <3> QED BY <1>1, <2>2 DEF Ranked
  <2> QED BY <2>3, <2>4, <2>5
<1>5. L = {k}
  <2>1. \A w \in L : w = k
    BY <1>1, <1>3, <1>4
  <2> QED BY <1>3, <1>4, <2>1
<1>6. LastWrite(q, c, f) = {q[w].val[f] : w \in L}
  BY DEF LastWrite
<1> HIDE DEF L, W
<1> QED BY <1>2, <1>5, <1>6

\* What is outstanding arrived after all of its card that is settled.
LEMMA OutstandingIs ==
    ASSUME DQBase, InStampOrder, NEW c, NEW i \in DOMAIN arrived
    PROVE  i \in Outstanding(c) <=>
              /\ arrived[i].card = c
              /\ \A j \in DOMAIN arrived : arrived[j].card = c /\ i <= j => arrived[j].id \notin settled
<1>1. DOMAIN arrived = 1 .. Len(arrived) /\ Len(arrived) \in Nat
  BY BaseFacts
<1>2. \A j \in DOMAIN arrived : Before(j, i) <=> j < i
  BY BeforeIs
<1> QED BY <1>1, <1>2 DEF Outstanding

\* What came after something outstanding is outstanding, and if it was a create
\* or a delete then the barrier came no earlier.
LEMMA BarrierAfter ==
    ASSUME DQBase, InStampOrder, NEW c, NEW i \in Outstanding(c),
           NEW j \in DOMAIN arrived, arrived[j].card = c, i <= j
    PROVE  /\ j \in Outstanding(c)
           /\ arrived[j].kind \in {"create", "delete"} => \E b \in Barrier(c) : j <= b
<1> DEFINE n == Len(arrived)
<1>1. DOMAIN arrived = 1 .. n /\ n \in Nat /\ i \in DOMAIN arrived
  BY BaseFacts DEF Outstanding
<1> HIDE DEF n
<1>2. j \in Outstanding(c)
  BY <1>1, OutstandingIs
<1>3. ASSUME arrived[j].kind \in {"create", "delete"}
      PROVE  \E b \in Barrier(c) : j <= b
  <2> DEFINE S == {k \in Outstanding(c) : arrived[k].kind \in {"create", "delete"}}
  <2>1. S \in SUBSET (1 .. n) /\ j \in S
    BY <1>1, <1>2, <1>3 DEF Outstanding
  <2>2. PICK b \in S : \A k \in S : k <= b
    BY <1>1, <2>1, LastPlace
  <2>3. \A k \in S : ~Before(b, k)
    BY <1>1, <2>1, <2>2, BeforeIs
  <2>4. b \in Barrier(c)
    BY <2>2, <2>3 DEF Barrier
  <2> QED BY <2>1, <2>2, <2>4
<1> QED BY <1>2, <1>3

\* The barrier is the last create or delete.
LEMMA BarrierIsLast ==
    ASSUME DQBase, InStampOrder, NEW c, NEW b \in Barrier(c),
           NEW j \in DOMAIN arrived, arrived[j].card = c, arrived[j].kind \in {"create", "delete"}
    PROVE  j <= b
<1>1. /\ DOMAIN arrived = 1 .. Len(arrived) /\ Len(arrived) \in Nat
      /\ b \in Outstanding(c) /\ b \in DOMAIN arrived
  BY BaseFacts DEF Barrier, Outstanding
<1>2. SUFFICES ASSUME b < j PROVE FALSE
  BY <1>1
<1>3. j \in Outstanding(c)
  BY <1>1, <1>2, BarrierAfter
<1> QED BY <1>1, <1>2, <1>3, BeforeIs DEF Barrier

\* The queue still owes what is standing.
LEMMA StandingOwed ==
    ASSUME DQBase, InStampOrder, NEW c, NEW i \in Standing(c)
    PROVE  /\ i \in DOMAIN arrived /\ i \in Outstanding(c) /\ arrived[i].card = c
           /\ ~Passed(arrived, past, settled, i)
<1>1. /\ DOMAIN arrived = 1 .. Len(arrived) /\ Len(arrived) \in Nat
      /\ i \in DOMAIN arrived /\ i \in Outstanding(c) /\ arrived[i].card = c
      /\ ~Doomed(i) /\ \A b \in Barrier(c) : ~Before(i, b)
  BY BaseFacts DEF Standing, Outstanding
<1>2. \A b \in Barrier(c) : b \in DOMAIN arrived
  BY DEF Barrier, Outstanding
<1>3. ~\E j \in DOMAIN arrived : arrived[j].card = arrived[i].card /\ i <= j /\ arrived[j].id \in settled
  BY <1>1, OutstandingIs
<1>4. ASSUME NEW j \in DOMAIN arrived, arrived[j].card = arrived[i].card, i < j,
             arrived[j].kind \in {"create", "delete"}
      PROVE  FALSE
  <2>1. PICK b \in Barrier(c) : j <= b
    BY <1>1, <1>4, BarrierAfter
  <2> QED BY <1>1, <1>2, <1>4, <2>1, BeforeIs
<1>5. ASSUME NEW j \in DOMAIN arrived, Dooms(arrived, past, j, i)
      PROVE  FALSE
  <2>1. \A k \in DOMAIN arrived : arrived[k].card = arrived[i].card /\ arrived[k].kind = "create"
                                    => ~(Before(j, k) /\ (k = i \/ Before(k, i)))
    BY <1>1, <1>5, BeforeIs DEF Dooms, CreateBetween
  <2>2. Doomed(i)
    BY <1>1, <1>5, <2>1, BeforeIs DEF Dooms, Doomed
  <2> QED BY <1>1, <2>2
<1> QED BY <1>1, <1>3, <1>4, <1>5 DEF Passed

\* An edit that came after a standing edit is standing.
LEMMA StandingAfter ==
    ASSUME DQBase, InStampOrder, NEW c, NEW i \in Standing(c),
           NEW l \in DOMAIN arrived, arrived[l].card = c, i < l,
           arrived[i].kind = "patch", arrived[l].kind = "patch"
    PROVE  l \in Standing(c)
<1>1. /\ DOMAIN arrived = 1 .. Len(arrived) /\ Len(arrived) \in Nat /\ DOMAIN past = DOMAIN arrived
      /\ i \in DOMAIN arrived /\ i \in Outstanding(c) /\ arrived[i].card = c
      /\ ~Doomed(i) /\ \A b \in Barrier(c) : ~Before(i, b)
  BY BaseFacts DEF Standing, Outstanding
<1>2. \A b \in Barrier(c) : b \in DOMAIN arrived
  BY DEF Barrier, Outstanding
<1>3. l \in Outstanding(c)
  BY <1>1, BarrierAfter
<1>4. \A b \in Barrier(c) : b <= i
  BY <1>1, <1>2, BeforeIs
<1>5. \A b \in Barrier(c) : ~Before(l, b)
  BY <1>1, <1>2, <1>4, BeforeIs
<1>6. ASSUME Doomed(l) PROVE FALSE
  <2>1. PICK j \in DOMAIN arrived :
           /\ arrived[j].card = c /\ arrived[j].kind = "delete" /\ Before(j, l)
           /\ arrived[j].id \notin past[l]
           /\ ~\E k \in DOMAIN arrived : /\ arrived[k].card = c /\ arrived[k].kind = "create"
                                         /\ Before(j, k) /\ (k = l \/ Before(k, l))
    BY <1>6 DEF Doomed
  <2>2. CASE j < i
    <3>1. arrived[j].id \notin past[i]
      <4>1. past[i] \subseteq past[l]
        BY <1>1 DEF DQBase, Settling
      <4> QED BY <2>1, <4>1
    <3>2. ASSUME NEW k \in DOMAIN arrived, arrived[k].card = c, arrived[k].kind = "create", Before(j, k)
          PROVE  ~(k = i \/ Before(k, i))
      <4>1. ~Before(k, l)
        BY <2>1, <3>2
      <4> QED BY <1>1, <3>2, <4>1, BeforeIs
    <3>3. Before(j, i)
      BY <1>1, <2>2, BeforeIs
    <3>4. Doomed(i)
      BY <1>1, <2>1, <3>1, <3>2, <3>3 DEF Doomed
    <3> QED BY <1>1, <3>4
  <2>3. CASE i <= j
    <3>1. i < j
      BY <1>1, <2>1, <2>3
    <3>2. PICK b \in Barrier(c) : j <= b
      BY <1>1, <2>1, <2>3, BarrierAfter
    <3> QED BY <1>1, <1>2, <1>4, <3>1, <3>2
  <2> QED BY <1>1, <2>2, <2>3
<1> QED BY <1>3, <1>5, <1>6 DEF Standing

-----------------------------------------------------------------------------
(* The properties, from the invariant.                                     *)

\* What the order of arrival says of the queue itself.
LEMMA OrderFacts ==
    ASSUME DQBase, DQOrder, InStampOrder
    PROVE  /\ InRank(queue, Place(arrived)) /\ Orderly(arrived, past, settled, Ops(queue))
           /\ queue \in Seq(From(arrived)) /\ Ops(queue) \in SUBSET From(arrived)
           /\ Len(queue) \in Nat /\ DOMAIN queue = 1 .. Len(queue)
           /\ \A x \in From(arrived) : Place(arrived)[x.id] \in Nat
<1>1. InRank(queue, Place(arrived)) /\ Orderly(arrived, past, settled, Ops(queue))
  BY DEF DQOrder
<1>2. /\ queue \in Seq(From(arrived)) /\ Unique(arrived)
      /\ DOMAIN arrived = 1 .. Len(arrived) /\ Len(arrived) \in Nat
  BY BaseFacts
<1>3. Ops(queue) \in SUBSET From(arrived) /\ Len(queue) \in Nat /\ DOMAIN queue = 1 .. Len(queue)
  BY <1>2, OpsIn, LenProperties
<1>4. \A x \in From(arrived) : Place(arrived)[x.id] \in Nat
  BY <1>2, FromIds
<1> QED BY <1>1, <1>2, <1>3, <1>4

\* A queue of distinct ranks that holds one operation has length one.
LEMMA OneInRank ==
    ASSUME NEW E, NEW q \in Seq(E), NEW x, Ops(q) = {x}, NEW r, r[x.id] \in Nat, InRank(q, r)
    PROVE  Len(q) = 1 /\ Head(q) = x
<1>1. Len(q) \in Nat /\ DOMAIN q = 1 .. Len(q)
  BY LenProperties
<1>2. \A i \in DOMAIN q : q[i] = x
  BY DEF Ops
<1>3. \E i : i \in DOMAIN q
  BY DEF Ops
<1>4. ~(2 <= Len(q))
  <2>1. SUFFICES ASSUME 2 <= Len(q) PROVE FALSE
    OBVIOUS
  <2>2. 1 \in DOMAIN q /\ 2 \in DOMAIN q /\ q[1] = x /\ q[2] = x
    BY <1>1, <1>2, <2>1
  <2>3. Follows(q, x, x)
    BY <2>2 DEF Follows
  <2>4. r[x.id] < r[x.id]
    BY <2>3 DEF InRank
  <2> QED BY <2>4
<1>5. Len(q) = 1 /\ q[1] = x
  <2>1. Len(q) = 1
    BY <1>1, <1>3, <1>4
  <2> QED BY <1>1, <1>2, <2>1
<1>6. q # <<>>
  <2>1. SUFFICES ASSUME q = <<>> PROVE FALSE
    OBVIOUS
  <2>2. Ops(q) = {}
    BY <2>1, OpsOfEmpty
  <2> QED BY <2>2
<1> QED BY <1>5, <1>6, HeadTailProperties

\* A deleted card waits in the queue as its delete alone.
LEMMA DeleteStandsHere == DQBase /\ DQOrder => DeleteStands
<1> SUFFICES ASSUME DQBase, DQOrder, InStampOrder, NEW c \in Cards,
                    NEW i \in Barrier(c), arrived[i].kind = "delete"
             PROVE  Len(CommandsOn(queue, c)) = 1 /\ Head(CommandsOn(queue, c)).kind = "delete"
  BY DEF DeleteStands
<1> DEFINE r == Place(arrived)
           S == Ops(queue)
           C == {x \in S : x.card = c}
<1>1. /\ i \in Outstanding(c) /\ i \in DOMAIN arrived /\ arrived[i].card = c
      /\ DOMAIN arrived = 1 .. Len(arrived) /\ Len(arrived) \in Nat
  BY BaseFacts DEF Barrier, Outstanding
<1>2. arrived[i].id \notin settled
  BY <1>1, OutstandingIs
<1>3. ~CreateAfter(arrived, c, i)
  BY <1>1, BarrierIsLast DEF CreateAfter
<1>4. /\ InRank(queue, r) /\ Orderly(arrived, past, settled, S)
      /\ queue \in Seq(From(arrived)) /\ S \in SUBSET From(arrived)
      /\ \A x \in From(arrived) : r[x.id] \in Nat
  BY OrderFacts
<1>5. PICK x \in S : x.card = c /\ x.kind = "delete"
  <2>1. Waits(arrived, past, settled, S)
    BY <1>4 DEF Orderly
  <2> HIDE DEF S
  <2> QED BY <1>1, <1>2, <1>3, <2>1 DEF Waits
<1>6. C = {x}
  <2>1. \A y \in S : y.card = c => y = x
    <3> HIDE DEF S, r
    <3> QED BY <1>4, <1>5 DEF Orderly, Proper
  <2> QED BY <1>5, <2>1
<1> DEFINE q == Keep(queue, C)
<1>7. CommandsOn(queue, c) = q
  BY DEF CommandsOn
<1> HIDE DEF r
<1>8. q \in Seq(From(arrived)) /\ Ops(q) = S \cap C /\ InRank(q, r)
  BY <1>4, KeepFacts, RankKeep
<1>9. Ops(q) = {x}
  BY <1>5, <1>6, <1>8
<1> HIDE DEF q, S, C
<1>10. r[x.id] \in Nat
  BY <1>4, <1>5
<1>11. Len(q) = 1 /\ Head(q) = x
  BY <1>8, <1>9, <1>10, OneInRank
<1> QED BY <1>5, <1>7, <1>11

\* What is standing and folds with nothing is queued as it arrived.
LEMMA KeptHere == DQBase /\ DQOrder => ReviewsAndCreatesKept
<1> SUFFICES ASSUME DQBase, DQOrder, InStampOrder, NEW c \in Cards,
                    NEW i \in Standing(c), arrived[i].kind \in {"create", "review"}
             PROVE  \E k \in DOMAIN queue : queue[k] = arrived[i]
  BY DEF ReviewsAndCreatesKept
<1> DEFINE S == Ops(queue)
<1>1. i \in DOMAIN arrived /\ ~Passed(arrived, past, settled, i)
  BY StandingOwed
<1>2. Kept(arrived, past, settled, S)
  BY OrderFacts DEF Orderly
<1> HIDE DEF S
<1>3. arrived[i] \in S
  BY <1>1, <1>2 DEF Kept
<1> QED BY <1>3 DEF S, Ops

\* The last write of a field is the one that was staged last.
LEMMA LatestHere == DQBase /\ DQOrder => LatestEditWins
<1> SUFFICES ASSUME DQBase, DQOrder, InStampOrder, NEW c \in Cards, NEW f \in Fields,
                    NEW i \in Standing(c), arrived[i].kind = "patch", f \in arrived[i].mask,
                    \A j \in Standing(c) : (arrived[j].kind = "patch"
                                            /\ f \in arrived[j].mask) => ~Before(i, j)
             PROVE  LastWrite(queue, c, f) = {arrived[i].id}
  BY DEF LatestEditWins
<1> DEFINE r == Place(arrived)
           S == Ops(queue)
<1>1. /\ i \in DOMAIN arrived /\ arrived[i].card = c /\ ~Passed(arrived, past, settled, i)
  BY StandingOwed
<1>2. /\ InRank(queue, r) /\ Written(arrived, past, settled, S)
      /\ S \in SUBSET From(arrived) /\ Len(queue) \in Nat /\ DOMAIN queue = 1 .. Len(queue)
      /\ \A x \in From(arrived) : r[x.id] \in Nat
  BY OrderFacts DEF Orderly
<1>3. ~\E l \in DOMAIN arrived : arrived[l].card = c /\ i < l /\ WritesField(arrived[l], f)
  <2>1. SUFFICES ASSUME NEW l \in DOMAIN arrived, arrived[l].card = c, i < l, WritesField(arrived[l], f)
                 PROVE  FALSE
    OBVIOUS
  <2>2. l \in Standing(c)
    BY <2>1, StandingAfter DEF WritesField
  <2>3. ~Before(i, l)
    BY <2>1, <2>2 DEF WritesField
  <2> QED BY <1>1, <2>1, <2>3, BeforeIs
<1>4. queue \in Seq(From(arrived)) /\ Ranked(From(arrived), r)
  <2>1. InOrder(arrived)
    BY DEF InStampOrder, InOrder
  <2> QED BY <2>1, BaseFacts, FromRanked
<1> HIDE DEF r
<1>5. ASSUME NEW y, TopWriter(Ops(queue), r, y, f), y.card = c
      PROVE  LastWrite(queue, c, f) = {y.val[f]}
  BY ONLY <1>2, <1>4, <1>5, LastWriteIs
<1>6. PICK x \in S : TopWriter(S, r, x, f) /\ x.card = c /\ x.val[f] = arrived[i].id
  <2> HIDE DEF S, r
  <2> QED BY <1>1, <1>2, <1>3, Zenon DEF Written, r
<1> QED BY <1>5, <1>6

-----------------------------------------------------------------------------
(* The order of the stamps, by arrival where they tie, which the queue      *)
(* keeps however operations arrive.                                         *)

\* The i-th arrival comes before the k-th in that order.
Prior(a, i, k) == a[i].at < a[k].at \/ (a[i].at = a[k].at /\ i < k)

\* A rank that agrees with it: stamps count for more than all the places.
Rank(a) == [n \in IdsOf(a) |-> a[Place(a)[n]].at * Len(a) + Place(a)[n]]

\* What is less is less by a whole multiple.
LEMMA WholeMultiple ==
    ASSUME NEW m \in Nat, NEW n \in Nat, NEW k \in Nat, m < n
    PROVE  m * k + k <= n * k /\ m * k \in Nat /\ n * k \in Nat
<1>1. PICK d \in Nat : n = m + 1 + d
  <2>1. n - (m + 1) \in Nat /\ n = m + 1 + (n - (m + 1))
    OBVIOUS
  <2> QED BY <2>1
<1>2. n * k = m * k + k + d * k
  BY <1>1
<1>3. d * k \in Nat /\ m * k \in Nat /\ n * k \in Nat
  OBVIOUS
<1> QED BY <1>2, <1>3

\* The rank of an arrival.
LEMMA RankIs ==
    ASSUME NEW a \in Seq(OpType), Unique(a), NEW i \in DOMAIN a, NEW k \in DOMAIN a
    PROVE  /\ Rank(a)[a[i].id] \in Nat
           /\ Rank(a)[a[i].id] < Rank(a)[a[k].id] <=> Prior(a, i, k)
<1> DEFINE n == Len(a)
           Place2(j) == a[j].at * n + j
<1>1. /\ n \in Nat /\ i \in 1 .. n /\ k \in 1 .. n
      /\ a[i].at \in Nat /\ a[k].at \in Nat
  <2>1. n \in Nat /\ DOMAIN a = 1 .. n
    BY LenProperties
  <2>2. a[i] \in OpType /\ a[k] \in OpType
    BY <2>1, ElementOfSeq
  <2> QED BY <2>1, <2>2 DEF OpType
<1>2. ASSUME NEW j \in DOMAIN a PROVE Rank(a)[a[j].id] = Place2(j)
  <2>1. a[j].id \in IdsOf(a) /\ Place(a)[a[j].id] = j
    BY PlaceIs
  <2> QED BY <2>1, Zenon DEF Rank
<1> HIDE DEF n
<1> DEFINE s == a[i].at
           t == a[k].at
<1>3. s \in Nat /\ t \in Nat /\ s * n \in Nat /\ t * n \in Nat
  BY <1>1
<1>4. /\ s < t => s * n + n <= t * n
      /\ t < s => t * n + n <= s * n
  BY <1>1, <1>3, WholeMultiple
<1>5. s = t => s * n = t * n
  OBVIOUS
<1>6. Place2(i) < Place2(k) <=> (s < t \/ (s = t /\ i < k))
  <2> DEFINE u == s * n
             v == t * n
  <2>1. u \in Nat /\ v \in Nat /\ (s < t => u + n <= v) /\ (t < s => v + n <= u) /\ (s = t => u = v)
    BY <1>3, <1>4, <1>5
  <2>2. Place2(i) = u + i /\ Place2(k) = v + k
    OBVIOUS
  <2>3. n \in Nat /\ i \in 1 .. n /\ k \in 1 .. n /\ s \in Nat /\ t \in Nat
    BY <1>1
  <2> HIDE DEF u, v, s, t, Place2
  <2>4. u + i < v + k <=> (s < t \/ (s = t /\ i < k))
    <3>1. CASE s < t
      BY ONLY <2>1, <2>3, <3>1
    <3>2. CASE t < s
      BY ONLY <2>1, <2>3, <3>2
    <3>3. CASE s = t
      BY ONLY <2>1, <2>3, <3>3
    <3> QED BY ONLY <2>3, <3>1, <3>2, <3>3
  <2> QED BY <2>2, <2>4
<1>7. Place2(i) \in Nat
  BY <1>1, <1>3
<1> HIDE DEF Place2
<1> QED BY <1>2, <1>6, <1>7 DEF Prior

\* The rank of what stems from arrivals.
LEMMA FromRank ==
    ASSUME NEW a \in Seq(OpType), Unique(a)
    PROVE  /\ Ranked(From(a), Rank(a))
           /\ \A x, y \in From(a) :
                 Rank(a)[x.id] < Rank(a)[y.id] <=>
                    (x.at < y.at \/ (x.at = y.at /\ Place(a)[x.id] < Place(a)[y.id]))
<1> DEFINE r == Rank(a)
<1>1. ASSUME NEW x \in From(a), NEW y \in From(a)
      PROVE  /\ r[x.id] \in Nat /\ r[y.id] \in Nat /\ x.at \in Nat /\ y.at \in Nat
             /\ r[x.id] < r[y.id] <=>
                   (x.at < y.at \/ (x.at = y.at /\ Place(a)[x.id] < Place(a)[y.id]))
  <2> DEFINE i == Place(a)[x.id]
             k == Place(a)[y.id]
  <2>1. i \in DOMAIN a /\ k \in DOMAIN a /\ Stems(a, i, x) /\ Stems(a, k, y)
    BY FromIds
  <2>2. x.at \in Nat /\ y.at \in Nat
    BY DEF From, OpType
  <2> HIDE DEF i, k
  <2>3. x.id = a[i].id /\ y.id = a[k].id /\ x.at = a[i].at /\ y.at = a[k].at
    BY <2>1 DEF Stems
  <2>4. r[a[i].id] \in Nat /\ r[a[k].id] \in Nat /\ (r[a[i].id] < r[a[k].id] <=> Prior(a, i, k))
    BY <2>1, RankIs
  <2> QED BY <2>2, <2>3, <2>4 DEF Prior, i, k
<1> HIDE DEF r
<1>2. \A x \in From(a) : r[x.id] \in Nat
  BY <1>1
<1>3. ASSUME NEW x \in From(a), NEW y \in From(a), r[x.id] <= r[y.id] PROVE x.at <= y.at
  <2>1. ~(r[y.id] < r[x.id]) /\ x.at \in Nat /\ y.at \in Nat
    BY <1>1, <1>3
  <2>2. r[y.id] < r[x.id] <=> (y.at < x.at \/ (y.at = x.at /\ Place(a)[y.id] < Place(a)[x.id]))
    BY <1>1
  <2> QED BY <2>1, <2>2
<1>4. Ranked(From(a), r)
  BY <1>2, <1>3 DEF Ranked
<1> QED BY <1>1, <1>4 DEF r
\* One more arrival leaves the order of the earlier ones.
LEMMA RankAppend ==
    ASSUME NEW a \in Seq(OpType), NEW op \in OpType, op.id \notin IdsOf(a), Unique(a),
           NEW q \in Seq(From(a)), InRank(q, Rank(a))
    PROVE  LET b == Append(a, op) IN
           /\ b \in Seq(OpType) /\ Unique(b)
           /\ Append(q, op) \in Seq(From(b)) /\ Stable(Append(q, op), Rank(b))
<1> DEFINE b == Append(a, op)
           m == Len(a) + 1
           next == Append(q, op)
<1>1. /\ b \in Seq(OpType) /\ DOMAIN a = 1 .. Len(a)
      /\ Unique(b)
      /\ From(a) \subseteq From(b) /\ op \in From(b)
      /\ \A x \in From(a) : Place(b)[x.id] = Place(a)[x.id]
      /\ Place(b)[op.id] = m
  BY FromAppend
<1>2. m \in Nat /\ DOMAIN a = 1 .. m - 1
  BY <1>1, LenProperties
<1> HIDE DEF b, m
<1>3. Ops(q) \subseteq From(a)
  BY OpsIn
<1>4. q \in Seq(From(b)) /\ next \in Seq(From(b))
  <2>1. q \in Seq(From(b))
    BY <1>1, <1>3, SeqOfOps
  <2> QED BY <1>1, <2>1, AppendProperties
<1>5. \A x, y \in From(a) : Rank(b)[x.id] < Rank(b)[y.id] <=> Rank(a)[x.id] < Rank(a)[y.id]
  <2>1. SUFFICES ASSUME NEW x \in From(a), NEW y \in From(a)
                 PROVE  Rank(b)[x.id] < Rank(b)[y.id] <=> Rank(a)[x.id] < Rank(a)[y.id]
    OBVIOUS
  <2>2. x \in From(b) /\ y \in From(b)
    BY <1>1
  <2> QED BY <1>1, <2>2, FromRank
<1>6. ASSUME NEW x \in From(a), x.at <= op.at PROVE Rank(b)[x.id] < Rank(b)[op.id]
  <2>1. Place(b)[x.id] < Place(b)[op.id]
    <3>1. Place(a)[x.id] \in DOMAIN a
      BY FromIds
    <3> QED BY <1>1, <1>2, <3>1
  <2>2. x.at \in Nat /\ op.at \in Nat
    BY DEF From, OpType
  <2>3. x \in From(b) /\ op \in From(b)
    BY <1>1
  <2> QED BY <1>1, <1>6, <2>1, <2>2, <2>3, FromRank
<1>7. ASSUME NEW x, NEW y, Follows(next, x, y), x.card = y.card, x.at <= y.at
      PROVE  Rank(b)[x.id] < Rank(b)[y.id]
  <2>1. Follows(q, x, y) \/ (x \in Ops(q) /\ y = op)
    BY <1>1, <1>4, <1>7, FollowsAppend
  <2>2. CASE Follows(q, x, y)
    <3>1. x \in Ops(q) /\ y \in Ops(q)
      BY <2>2, FollowsIn
    <3>2. Rank(a)[x.id] < Rank(a)[y.id]
      BY <1>7, <2>2, <3>1 DEF InRank
    <3> QED BY <1>3, <1>5, <3>1, <3>2
  <2>3. CASE x \in Ops(q) /\ y = op
    BY <1>3, <1>6, <1>7, <2>3
  <2> QED BY <2>1, <2>2, <2>3
<1>8. Stable(next, Rank(b))
  BY <1>7, Zenon DEF Stable
<1> QED BY <1>1, <1>4, <1>8 DEF b

-----------------------------------------------------------------------------
(* What the queue is, however operations arrive.                            *)

DQShape == InRank(queue, Rank(arrived)) /\ Proper(Ops(queue), Rank(arrived))

\* A merge makes it so.
LEMMA ShapeMerged ==
    ASSUME NEW a \in Seq(OpType), Unique(a), NEW q \in Seq(From(a)), Stable(q, Rank(a))
    PROVE  /\ Merge(q) \in Seq(From(a)) /\ InRank(Merge(q), Rank(a))
           /\ Proper(Ops(Merge(q)), Rank(a)) /\ Reduced(Ops(Merge(q)), Rank(a))
<1> DEFINE E == From(a)
           r == Rank(a)
<1>1. Timed(E) /\ Foldable(E) /\ Patching(E) /\ Identified(E) /\ Ranked(E, r)
  BY FromFolds, FromIds, FromRank
<1>2. q \in Seq(E) /\ Stable(q, r)
  OBVIOUS
<1> HIDE DEF E, r
<1> QED BY <1>1, <1>2, MergeShape DEF E, r

\* An acknowledgement keeps it.
LEMMA ShapeAcknowledged ==
    ASSUME NEW a \in Seq(OpType), Unique(a), NEW q \in Seq(From(a)), Stable(q, Rank(a)), NEW done
    PROVE  InRank(Acknowledged(q, done), Rank(a)) /\ Proper(Ops(Acknowledged(q, done)), Rank(a))
<1> DEFINE m == Merge(q)
           S == {x \in Ops(m) : \A o \in done : o.id # x.id}
           r == Rank(a)
<1>1. Acknowledged(q, done) = Keep(m, S)
  BY Zenon DEF Acknowledged
<1>2. m \in Seq(From(a)) /\ InRank(m, r) /\ Proper(Ops(m), r)
  BY ShapeMerged
<1> HIDE DEF m, S, r
<1>3. InRank(Keep(m, S), r)
  BY <1>2, RankKeep
<1>4. Ops(Keep(m, S)) \in SUBSET Ops(m)
  BY <1>2, KeepFacts
<1>5. Proper(Ops(Keep(m, S)), r)
  BY <1>2, <1>4, ProperPart
<1> QED BY <1>1, <1>3, <1>5 DEF r

\* An empty queue is in order.
LEMMA ShapeEmpty == \A r : InRank(<<>>, r) /\ Proper(Ops(<<>>), r)
BY OpsOfEmpty DEF InRank, Proper

\* Every step keeps it.
LEMMA ShapeNext == DQBase /\ DQShape /\ [DQNext]_dqVars => DQShape'
<1> SUFFICES ASSUME DQBase, DQShape, [DQNext]_dqVars
             PROVE  InRank(queue', Rank(arrived')) /\ Proper(Ops(queue'), Rank(arrived'))
  BY DEF DQShape
<1>1. arrived \in Seq(OpType) /\ Unique(arrived) /\ queue \in Seq(From(arrived))
  BY BaseFacts
<1>2. /\ InRank(queue, Rank(arrived)) /\ Proper(Ops(queue), Rank(arrived))
      /\ Stable(queue, Rank(arrived))
  BY RankStable DEF DQShape
<1>3. ASSUME NEW t \in Tabs, Persist(t)
      PROVE  InRank(queue', Rank(arrived')) /\ Proper(Ops(queue'), Rank(arrived'))
  <2> DEFINE op == Head(draft[t])
             b == Append(arrived, op)
             next == Append(queue, op)
  <2>1. op \in OpType /\ op.id \notin IdsOf(arrived)
    BY <1>3, HeadIsNew DEF Persist
  <2>2. arrived' = b /\ queue' = Merge(next)
    BY <1>3 DEF Persist
  <2> HIDE DEF op
  <2>3. b \in Seq(OpType) /\ Unique(b) /\ next \in Seq(From(b)) /\ Stable(next, Rank(b))
    BY <1>1, <1>2, <2>1, RankAppend
  <2> HIDE DEF b, next
  <2>4. InRank(Merge(next), Rank(b)) /\ Proper(Ops(Merge(next)), Rank(b))
    BY <2>3, ShapeMerged
  <2> QED BY <2>2, <2>4
<1>4. CASE LoadPending
  <2>1. queue' = Merge(queue) /\ arrived' = arrived
    BY <1>4 DEF LoadPending
  <2>2. InRank(Merge(queue), Rank(arrived)) /\ Proper(Ops(Merge(queue)), Rank(arrived))
    BY <1>1, <1>2, ShapeMerged
  <2> QED BY <2>1, <2>2
<1>5. CASE Acknowledge
  <2>1. arrived' = arrived
    BY <1>5 DEF Acknowledge
  <2>2. PICK done : queue' = Acknowledged(queue, done)
    BY <1>5 DEF Acknowledge
  <2>3. InRank(Acknowledged(queue, done), Rank(arrived))
        /\ Proper(Ops(Acknowledged(queue, done)), Rank(arrived))
    BY <1>1, <1>2, ShapeAcknowledged
  <2> QED BY <2>1, <2>2, <2>3
<1>6. CASE ClearQueue
  <2>1. queue' = <<>> /\ arrived' = arrived
    BY <1>6 DEF ClearQueue
  <2> QED BY <2>1, ShapeEmpty
<1>7. CASE (\E t \in Tabs : StampOp(t)) \/ Tick \/ VerifyEpoch \/ UNCHANGED dqVars
  <2>1. UNCHANGED <<queue, arrived>>
    BY <1>7 DEF StampOp, Tick, VerifyEpoch, dqVars
  <2> QED BY <1>2, <2>1
<1> QED BY <1>3, <1>4, <1>5, <1>6, <1>7 DEF DQNext

-----------------------------------------------------------------------------
(* What the merge that is written back changes.                             *)

\* A field that no patch sets is not written; of those that set it, one is the
\* highest.
LEMMA WriterOrNone ==
    ASSUME NEW E, NEW r, Ranked(E, r), NEW q \in Seq(E), InRank(q, r), NEW c, NEW f
    PROVE  \/ /\ ~\E x \in Ops(q) : x.card = c /\ WritesField(x, f)
              /\ LastWrite(q, c, f) = {}
           \/ \E x : TopWriter(Ops(q), r, x, f) /\ x.card = c
<1> DEFINE W == {k \in DOMAIN q : q[k].card = c /\ q[k].kind = "patch" /\ f \in q[k].mask}
           L == {w \in W : \A v \in W : v <= w}
           S == Ops(q)
<1>1. S \subseteq E /\ Len(q) \in Nat /\ DOMAIN q = 1 .. Len(q)
  BY OpsIn, LenProperties
<1>2. LastWrite(q, c, f) = {q[w].val[f] : w \in L}
  BY DEF LastWrite
<1>3. CASE W = {}
  <2>1. ~\E x \in S : x.card = c /\ WritesField(x, f)
    BY <1>3 DEF Ops, WritesField
  <2>2. L = {}
    BY <1>3
  <2> HIDE DEF L, W
  <2> QED BY <1>2, <2>1, <2>2
<1>4. CASE W # {}
  <2> HIDE DEF L
  <2>1. W \in SUBSET (1 .. Len(q))
    BY <1>1
  <2> DEFINE n == Len(q)
  <2>2. n \in Nat /\ W \in SUBSET (1 .. n)
    BY <1>1, <2>1
  <2> HIDE DEF W, n
  <2>3. PICK m \in W : \A k \in W : k <= m
    BY <1>4, <2>2, LastPlace
  <2> USE DEF W
  <2>4. q[m] \in S /\ q[m].card = c /\ WritesField(q[m], f) /\ m \in DOMAIN q
    BY <2>3 DEF Ops, WritesField
  <2>5. ASSUME NEW y \in S, y.card = c, WritesField(y, f) PROVE r[y.id] <= r[q[m].id]
    <3>1. PICK k \in DOMAIN q : q[k] = y
      BY DEF Ops
    <3>2. k \in W
      BY <2>5, <3>1 DEF WritesField
    <3>3. k <= m
      BY <2>3, <3>2
    <3>4. r[y.id] \in Nat /\ r[q[m].id] \in Nat
      BY <1>1, <2>4 DEF Ranked
    <3>5. CASE k = m
      BY <3>1, <3>4, <3>5
    <3>6. CASE k < m
      <4>1. Follows(q, y, q[m])
        BY <2>4, <3>1, <3>6 DEF Follows
      <4>2. r[y.id] < r[q[m].id]
        BY <2>4, <2>5, <4>1 DEF InRank
      <4> QED BY <3>4, <4>2
    <3> QED BY <1>1, <2>4, <3>3, <3>5, <3>6
  <2>6. TopWriter(S, r, q[m], f)
    BY <2>4, <2>5 DEF TopWriter
  <2> QED BY <2>4, <2>6
<1> QED BY <1>3, <1>4

\* Queues that will do the same write the same last.
LEMMA SameWrites ==
    ASSUME NEW E, NEW r, Ranked(E, r), NEW s \in Seq(E), NEW t \in Seq(E), InRank(s, r), InRank(t, r),
           Same(Ops(s), Ops(t), r), NEW c, NEW f
    PROVE  LastWrite(t, c, f) = LastWrite(s, c, f)
<1>1. ASSUME NEW x, TopWriter(Ops(s), r, x, f), x.card = c PROVE LastWrite(s, c, f) = {x.val[f]}
  BY ONLY <1>1, Ranked(E, r), s \in Seq(E), InRank(s, r), LastWriteIs
<1>2. ASSUME NEW y, TopWriter(Ops(t), r, y, f), y.card = c PROVE LastWrite(t, c, f) = {y.val[f]}
  BY ONLY <1>2, Ranked(E, r), t \in Seq(E), InRank(t, r), LastWriteIs
<1>3. CASE \E x : TopWriter(Ops(s), r, x, f) /\ x.card = c
  <2>1. PICK x : TopWriter(Ops(s), r, x, f) /\ x.card = c
    BY <1>3
  <2>2. \E y : TopWriter(Ops(t), r, y, f) /\ y.card = x.card /\ y.val[f] = x.val[f]
    <3>1. x \in Ops(s)
      BY <2>1 DEF TopWriter
    <3> QED BY <2>1, <3>1, Zenon DEF Same
  <2>3. PICK y : TopWriter(Ops(t), r, y, f) /\ y.card = x.card /\ y.val[f] = x.val[f]
    BY <2>2
  <2> QED BY <1>1, <1>2, <2>1, <2>3
<1>4. CASE ~\E x : TopWriter(Ops(s), r, x, f) /\ x.card = c
  <2>1. (~\E x \in Ops(s) : x.card = c /\ WritesField(x, f)) /\ LastWrite(s, c, f) = {}
    BY <1>4, WriterOrNone
  <2>2. ~\E y \in Ops(t) : y.card = c /\ WritesField(y, f)
    BY <2>1, Zenon DEF Same
  <2>3. ~\E y : TopWriter(Ops(t), r, y, f) /\ y.card = c
    BY <2>2 DEF TopWriter
  <2>4. LastWrite(t, c, f) = {}
    BY <2>3, WriterOrNone
  <2> QED BY <2>1, <2>4
<1> QED BY <1>3, <1>4

\* Two ranked queues keep the same of a card, if they hold the same of it.
LEMMA SameKept ==
    ASSUME NEW E, NEW r, Ranked(E, r), NEW s \in Seq(E), NEW t \in Seq(E), InRank(s, r), InRank(t, r),
           NEW A \in SUBSET Ops(s), NEW B \in SUBSET Ops(t), A = B, NEW c, OneCard(A, c)
    PROVE  Keep(s, A) = Keep(t, B)
<1> DEFINE u == Keep(s, A)
           v == Keep(t, B)
<1>1. u \in Seq(E) /\ Ops(u) = A /\ InRank(u, r)
  <2>1. u \in Seq(E) /\ Ops(u) = Ops(s) \cap A
    BY KeepFacts
  <2>2. Ops(s) \cap A = A
    OBVIOUS
  <2> QED BY <2>1, <2>2, RankKeep
<1>2. v \in Seq(E) /\ Ops(v) = A /\ InRank(v, r)
  <2>1. v \in Seq(E) /\ Ops(v) = Ops(t) \cap B
    BY KeepFacts
  <2>2. Ops(t) \cap B = A
    OBVIOUS
  <2> QED BY <2>1, <2>2, RankKeep
<1> HIDE DEF u, v
<1>3. u = v
  BY <1>1, <1>2, SameOrder
<1> QED BY <1>3 DEF u, v

\* What the merge that is written back changes of a queue in order.
LEMMA HarmlessHere == DQBase /\ DQShape => WriteBackHarmless
<1> SUFFICES ASSUME DQBase, DQShape PROVE WriteBackHarmless
  OBVIOUS
<1> DEFINE E == From(arrived)
           r == Rank(arrived)
           kept == Merge(queue)
           again == Merge(kept)
<1>1. /\ queue \in Seq(E) /\ InRank(queue, r) /\ Proper(Ops(queue), r) /\ Stable(queue, r)
  BY BaseFacts, RankStable DEF DQShape
<1>2. Timed(E) /\ Foldable(E) /\ Patching(E) /\ Identified(E) /\ Ranked(E, r)
  BY BaseFacts, FromFolds, FromIds, FromRank
<1> HIDE DEF E, r
<1>3. Same(Ops(queue), Ops(kept), r)
  BY <1>1, <1>2, MergeProper
<1>4. kept \in Seq(E) /\ InRank(kept, r) /\ Proper(Ops(kept), r) /\ Reduced(Ops(kept), r)
  BY <1>1, <1>2, MergeShape
<1> HIDE DEF kept
<1>5. again \in Seq(E) /\ InRank(again, r)
  BY <1>2, <1>4, RankStable, MergeShape
<1>6. Ops(again) = Ops(kept)
  BY <1>2, <1>4, MergeStay
<1> HIDE DEF again
<1> DEFINE Plain(q, c) == {x \in Ops(q) : x.card = c /\ x.kind # "patch"}
<1>7. SUFFICES ASSUME NEW c \in Cards
               PROVE  /\ CommandsOn(again, c) = CommandsOn(kept, c)
                      /\ Keep(kept, Plain(kept, c)) = Keep(queue, Plain(queue, c))
                      /\ \A f \in Fields : LastWrite(kept, c, f) = LastWrite(queue, c, f)
  BY Zenon DEF WriteBackHarmless, again, kept
<1>8. CommandsOn(again, c) = CommandsOn(kept, c)
  <2> DEFINE A == {x \in Ops(again) : x.card = c}
             B == {x \in Ops(kept) : x.card = c}
  <2>1. /\ A \in SUBSET Ops(again) /\ B \in SUBSET Ops(kept) /\ A = B
        /\ OneCard(A, c)
    BY <1>6 DEF OneCard
  <2>2. CommandsOn(again, c) = Keep(again, A) /\ CommandsOn(kept, c) = Keep(kept, B)
    BY Zenon DEF CommandsOn
  <2> HIDE DEF A, B
  <2>3. Keep(again, A) = Keep(kept, B)
    BY <1>2, <1>4, <1>5, <2>1, SameKept
  <2> QED BY <2>2, <2>3
<1>9. Keep(kept, Plain(kept, c)) = Keep(queue, Plain(queue, c))
  <2> DEFINE A == Plain(kept, c)
             B == Plain(queue, c)
  <2>1. \A x : x.kind # "patch" => (x \in Ops(kept) <=> x \in Ops(queue))
    BY <1>3, Zenon DEF Same
  <2>2. /\ A \in SUBSET Ops(kept) /\ B \in SUBSET Ops(queue) /\ A = B
        /\ OneCard(A, c)
    BY <2>1 DEF OneCard
  <2> HIDE DEF A, B
  <2>3. Keep(kept, A) = Keep(queue, B)
    BY <1>1, <1>2, <1>4, <2>2, SameKept
  <2> QED BY <2>3 DEF A, B
<1>10. ASSUME NEW f \in Fields PROVE LastWrite(kept, c, f) = LastWrite(queue, c, f)
  BY <1>1, <1>2, <1>3, <1>4, SameWrites
<1> QED BY <1>8, <1>9, <1>10

-----------------------------------------------------------------------------
\* The invariants of every behaviour.
LEMMA BaseAlways == DQSpec => [](DQBase /\ DQOrder)
<1>1. DQInit => DQBase /\ DQOrder
  BY BaseInit, OrderInit
<1>2. DQBase /\ DQOrder /\ [DQNext]_dqVars => (DQBase /\ DQOrder)'
  BY BaseNext, OrderNext
<1> QED BY <1>1, <1>2, PTL DEF DQSpec

\* The order holds of every behaviour.
LEMMA ShapeAlways == DQSpec => [](DQBase /\ DQShape)
<1>1. DQInit => DQBase /\ DQShape
  <2>1. DQInit => DQBase
    BY BaseInit
  <2>2. DQInit => DQShape
    BY ShapeEmpty DEF DQInit, DQShape
  <2> QED BY <2>1, <2>2
<1>2. DQBase /\ DQShape /\ [DQNext]_dqVars => (DQBase /\ DQShape)'
  BY BaseNext, ShapeNext
<1> QED BY <1>1, <1>2, PTL DEF DQSpec

\* However many tabs stage, a card whose latest create or delete is a delete
\* waits in the queue as that one command (mergePendingOperations), whatever a
\* flush acknowledged and a clear-all emptied in the meantime.
THEOREM DeleteStandsAlways == DQSpec => []DeleteStands
BY BaseAlways, DeleteStandsHere, PTL

\* A create, and a review since, is in the queue as it was staged until it is
\* acknowledged itself: mergePendingOperations folds plain patches only.
THEOREM ReviewsAndCreatesKeptAlways == DQSpec => []ReviewsAndCreatesKept
BY BaseAlways, KeptHere, PTL

\* The queue ends by writing the latest value staged for each field of a card,
\* whatever was folded, acknowledged or written back in between.
THEOREM LatestEditWinsAlways == DQSpec => []LatestEditWins
BY BaseAlways, LatestHere, PTL

\* The merge that a load writes back (loadDevicePending) changes nothing that
\* the queue will do to a card, in whatever order the tabs' operations were
\* persisted.
THEOREM WriteBackHarmlessAlways == DQSpec => []WriteBackHarmless
BY ShapeAlways, HarmlessHere, PTL
==============================================================================
