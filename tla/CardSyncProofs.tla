--------------------------- MODULE CardSyncProofs ---------------------------
(***************************************************************************)
(* For every number of devices, tabs, cards, faults, operations and        *)
(* clear-alls: rewards are backed by reviews the cloud committed, no write *)
(* happens twice beyond what AppliedOnce admits, no operation leaves its   *)
(* queue unanswered, and what a clear-all found staged is not written any  *)
(* more.                                                                   *)
(*                                                                         *)
(* The argument: whatever travels, in a queue, a run or a late call, is a  *)
(* copy of an operation in the log ops, so a step can be judged by what    *)
(* the log says of the operation.  CloudInv is about the cloud and the     *)
(* log: a create or delete that was written can be written again only if   *)
(* the card's document or its tombstone no longer shows it, and receipts   *)
(* tell for ever which reviews were.  ClientInv is about the devices: what *)
(* a run sets aside was answered for good, and a queue loses only such     *)
(* operations and those a merge takes up.                                  *)
(*                                                                         *)
(* A further part is about the server by itself (ServerSpec), with its     *)
(* limits and its clock: the documents are well formed, a re-created card  *)
(* outranks its tombstone, the receipts name revisions that exist and      *)
(* differ, and the transactions implement the abstract versioned library.  *)
(*                                                                         *)
(* The last part is about edits in a library whose tabs leave them to the  *)
(* flushes: EditInv says where an edit that was staged can be.  It needs   *)
(* that creates go before edits, that a queue lists a card's edits in the  *)
(* order of staging, folded into one, and that what a flush holds of an    *)
(* operation is what the queue still holds under its id, so that an        *)
(* acknowledgement takes no edit that was not sent.                        *)
(***************************************************************************)
EXTENDS CardSync, LibraryRefinement, PendingQueueProofs

-----------------------------------------------------------------------------
(* The inductive invariant.                                                *)

Content == Values \cup Nat

Operation == [kind : Kinds, card : Cards, id : Nat, at : Nat, base : Nat,
              epoch : Int, mask : SUBSET Fields, val : [Fields -> Content],
              last : Nat]

\* The cloud's documents, none of them ahead of the library's generation.
Document == [epoch : Nat, rev : Nat, val : [Fields -> Content], last : Nat]

ServerOK ==
    /\ epoch \in Nat
    /\ card \in [Cards -> Document]
    /\ \A c \in Cards : card[c].epoch <= epoch
    /\ tomb \in [Cards -> [epoch : Int, rev : Nat, op : OpIds \cup Nat,
                           at : Nat]]
    /\ receipt \subseteq [card : Cards, op : Nat, base : Nat, epoch : Int,
                          rev : Nat, expired : BOOLEAN]

\* What was staged: of a generation the library had reached, and of an
\* earlier one if a clear-all came after.
StagedOK ==
    /\ ops \in Seq(Operation)
    /\ cleared \in 0 .. Now
    /\ \A i \in 1 .. Now :
          /\ ops[i].id = i
          /\ ops[i].at = i
          /\ ops[i].kind = "create" => ops[i].base = 0
          /\ ops[i].epoch <= epoch
          /\ i <= cleared => ops[i].epoch < epoch

\* What an operation writes is its own, or that of an edit folded into it.
OwnOrFolded(o) == \A f \in Fields :
    \/ o.val[f] = o.id
    \/ o.val[f] \in 1 .. Now /\ EditsOfOne(o.val[f], o.id)

\* What a queue or a run holds: staged operations, to which folding may have
\* added fields; only an unverified epoch may have been replaced.
Copies == {o \in Operation :
    /\ o.id \in 1 .. Now
    /\ o.kind = ops[o.id].kind
    /\ o.card = ops[o.id].card
    /\ o.at = ops[o.id].at
    /\ o.base = ops[o.id].base
    /\ o.epoch <= epoch
    /\ ops[o.id].epoch = Unverified \/ o.epoch = ops[o.id].epoch
    /\ OwnOrFolded(o)}

\* Calls carry such copies; creates are never rebased.
Calls == {r \in [op : Copies, base : Nat, try : Nat, alive : BOOLEAN] :
            r.op.kind = "create" => r.base = 0}

Stages == {"idle", "direct", "run", "wait", "got", "ack", "load",
           "clear-queue", "clear-cards"}

Replies == {"", "created", "exists", "applied", "already-applied", "deleted",
            "replayed", "nothing-to-delete", "duplicate", "already-exists",
            "missing", "revision-conflict", "stale-review",
            "future-review-clock-skew", "receipt-fingerprint-conflict",
            "stale-library-epoch", "future-library-epoch", "counter-exhausted"}

Runs == [pc : Stages, direct : BOOLEAN, todo : Seq(Copies),
         call : Calls \cup {NoCall}, reply : Replies, rev : Nat,
         flushed : SUBSET Copies, acking : SUBSET Copies]

\* What a mirror shows is of a generation the library has reached.
Versions == {v \in [shown : BOOLEAN, epoch : Int, rev : Nat] : v.epoch <= epoch}

\* A refresh is for a generation the library has reached, too.
Refreshes == {r \in [pc : {"idle", "begin", "pages", "page", "load", "overlay",
                           "finish"},
                     epoch : Nat, left : SUBSET Cards,
                     page : SUBSET [card : Cards, rev : Nat],
                     todo : Seq(Operation)] : r.epoch <= epoch}

DeviceOK ==
    /\ queue \in [Devices -> Seq(Copies)]
    /\ view \in [Devices -> [Cards -> Versions]]
    /\ refresh \in [Tabs -> Refreshes]
    /\ known \in [Tabs -> Int]
    /\ \A t \in Tabs : known[t] <= epoch
    /\ late \subseteq Calls

WritesOK == writes \in Seq(1 .. Now)

Written(i) == i \in Ops(writes)

\* Every review that was applied left a receipt, and every receipt is that of
\* a review that was applied.
ReceiptsOK ==
    /\ \A r \in receipt : Written(r.op)
    /\ \A i \in 1 .. Now : Written(i) /\ Kind(i) = "review" =>
          \E r \in receipt : r.op = i /\ r.card = ops[i].card

\* A create that was applied is of a past generation, or its card lives, or a
\* tombstone that is not older stands in its way.
CreatesOK ==
    \A i \in 1 .. Now :
        Written(i) /\ Kind(i) = "create" /\ ops[i].epoch # Unverified =>
            \/ ops[i].epoch < epoch
            \/ Live(ops[i].card)
            \/ CurrentTombstone(ops[i].card) /\ tomb[ops[i].card].at >= i

DeleteOf(w, c) == Kind(w) = "delete" /\ ops[w].card = c

\* The last delete that was applied to a card is of a past generation, or the
\* card's tombstone names it.
DeletesOK ==
    \A k \in DOMAIN writes :
        LET w == writes[k]
            c == ops[w].card
        IN  /\ Kind(w) = "delete"
            /\ ops[w].epoch # Unverified
            /\ \A m \in DOMAIN writes : k < m => ~DeleteOf(writes[m], c)
            => \/ ops[w].epoch < epoch
               \/ CurrentTombstone(c) /\ tomb[c].op = w

\* A run waits for the answer of such a call; a review it was told is done
\* was applied; and what it is to acknowledge was answered for good.
Sound(r) ==
    /\ r \in Runs
    /\ r.pc \in {"wait", "got"} => r.call \in Calls
    /\ /\ r.pc = "got"
       /\ r.call.op.kind = "review"
       /\ r.reply \in {"applied", "duplicate"}
       => Written(r.call.op.id)
    /\ \A o \in r.flushed \cup r.acking : o.id \in decided

RunsOK == run \in [Tabs -> Runs] /\ \A t \in Tabs : Sound(run[t])

CloudInv ==
    /\ ServerOK
    /\ StagedOK
    /\ WritesOK
    /\ ReceiptsOK
    /\ CreatesOK
    /\ DeletesOK
    /\ AppliedOnce

ClientInv ==
    /\ DeviceOK
    /\ RunsOK
    /\ RewardBacked
    /\ NothingDropped

SyncInv == CloudInv /\ ClientInv

-----------------------------------------------------------------------------
(* Merging what a device holds.                                            *)

\* Copies have time stamps and ids, and folding one patch into another gives a
\* copy of the later one.
LEMMA CopiesFacts ==
    Timed(Copies) /\ Foldable(Copies) /\ Identified(Copies)
<1>1. Timed(Copies)
  BY DEF Timed, Copies, Operation
<1>2. ASSUME NEW x \in Copies, NEW y \in Copies,
             x.kind = "patch", y.kind = "patch", x.card = y.card
      PROVE  /\ FoldPatch(x, y) \in Copies
             /\ FoldPatch(x, y).id = y.id
             /\ FoldPatch(x, y).card = y.card
  <2> DEFINE m == x.mask \cup y.mask
             v == [f \in DOMAIN y.val |-> IF f \in y.mask THEN y.val[f]
                                                         ELSE x.val[f]]
             z == [y EXCEPT !.mask = m, !.val = v]
  <2>1. x \in Operation /\ y \in Operation
    BY DEF Copies
  <2>2. m \in SUBSET Fields /\ v \in [Fields -> Content]
    BY <2>1 DEF Operation
  <2>3. FoldPatch(x, y) = z
    BY <2>1 DEF FoldPatch, Operation
  <2>6. \A f \in Fields : v[f] = y.val[f] \/ v[f] = x.val[f]
    BY <2>1 DEF Operation
  <2> HIDE DEF m, v
  <2>4. /\ z \in Operation
        /\ z.id = y.id /\ z.card = y.card /\ z.kind = y.kind
        /\ z.at = y.at /\ z.base = y.base /\ z.epoch = y.epoch
        /\ z.val = v
    BY <2>1, <2>2 DEF Operation
  <2> HIDE DEF z
  <2>7. x.id \in 1 .. Now /\ y.id \in 1 .. Now /\ EditsOfOne(x.id, y.id)
    BY <1>2 DEF Copies, EditsOfOne, Kind
  <2>8. OwnOrFolded(z)
    <3> SUFFICES ASSUME NEW f \in Fields
                 PROVE  \/ z.val[f] = z.id
                        \/ z.val[f] \in 1 .. Now /\ EditsOfOne(z.val[f], z.id)
      BY DEF OwnOrFolded
    <3>1. CASE v[f] = y.val[f]
      BY <2>4, <3>1 DEF Copies, OwnOrFolded
    <3>2. CASE v[f] = x.val[f]
      <4>1. x.val[f] \in 1 .. Now /\ EditsOfOne(x.val[f], y.id)
        BY <2>7 DEF Copies, OwnOrFolded, EditsOfOne
      <4> QED BY <2>4, <3>2, <4>1
    <3> QED BY <2>6, <3>1, <3>2
  <2>5. z \in Copies
    BY <2>4, <2>8 DEF Copies
  <2> QED BY <2>3, <2>4, <2>5
<1>3. Foldable(Copies)
  BY <1>2 DEF Foldable
<1>4. Identified(Copies)
  BY DEF Identified, Copies
<1> QED BY <1>1, <1>3, <1>4

\* The ids of a queue are those of its operations.
LEMMA IdsOfOps ==
    ASSUME NEW q, NEW i
    PROVE  i \in IdsIn(q) <=> HasId(q, i)
BY DEF IdsIn, HasId, Ops

\* A merge of copies is made of copies, and loses one only to another.
LEMMA MergeOfCopies ==
    ASSUME NEW q \in Seq(Copies)
    PROVE  /\ Merge(q) \in Seq(Copies)
           /\ \A x \in Ops(q) : x.id \in TakenUp(q)
                 => \E z \in Ops(q) : Takes(z, x)
<1>1. /\ Merge(q) \in Seq(Copies)
      /\ \A x \in Ops(q) : \/ HasId(Merge(q), x.id)
                           \/ \E z \in Ops(q) : Takes(z, x)
  BY CopiesFacts, MergeFacts
<1> QED BY <1>1, IdsOfOps DEF TakenUp

\* What a copy takes up in a merge, its staged operation may take up.
LEMMA TakesIsTakesUp ==
    ASSUME StagedOK, NEW z \in Copies, NEW x \in Copies, Takes(z, x)
    PROVE  TakesUp(z.id, x.id)
<1>1. /\ z.id \in 1 .. Now /\ x.id \in 1 .. Now
      /\ z.kind = Kind(z.id) /\ x.kind = Kind(x.id)
      /\ z.card = ops[z.id].card /\ x.card = ops[x.id].card
      /\ z.at = z.id /\ x.at = x.id
  BY DEF Copies, StagedOK, Kind
<1>2. z.id \in Nat /\ x.id \in Nat
  BY DEF Copies, Operation
<1>3. CASE z.kind = "delete"
  BY <1>1, <1>3 DEF Takes, TakesUp
<1>4. CASE z.kind # "delete"
  <2>1. x.id < z.id
    BY <1>1, <1>2, <1>4 DEF Takes
  <2> QED BY <1>1, <1>4, <2>1 DEF Takes, TakesUp
<1> QED BY <1>3, <1>4

\* The generation an operation is bound to does not change what it copies.
LEMMA BoundFacts ==
    ASSUME NEW q \in Seq(Copies), NEW e \in Int, e <= epoch
    PROVE  /\ BoundTo(q, e) \in Seq(Copies)
           /\ IdsIn(BoundTo(q, e)) = IdsIn(q)
<1> DEFINE b == BoundTo(q, e)
<1>1. Len(q) \in Nat /\ DOMAIN q = 1 .. Len(q) /\ \A k \in 1 .. Len(q) : q[k] \in Copies
  BY LenProperties, ElementOfSeq
<1>2. ASSUME NEW o \in Copies PROVE Rebound(o, e) \in Copies /\ Rebound(o, e).id = o.id
  <2>1. CASE o.epoch # Unverified
    BY <2>1 DEF Rebound
  <2>2. CASE o.epoch = Unverified
    <3> DEFINE r == [o EXCEPT !.epoch = e]
    <3>1. Rebound(o, e) = r
      BY <2>2 DEF Rebound
    <3>0. o \in Operation
      BY DEF Copies
    <3>2. /\ r \in Operation /\ r.epoch = e
          /\ r.id = o.id /\ r.card = o.card /\ r.kind = o.kind
          /\ r.at = o.at /\ r.base = o.base /\ r.val = o.val
      BY <3>0 DEF Operation
    <3>3. ops[o.id].epoch = Unverified
      BY <2>2 DEF Copies
    <3> HIDE DEF r
    <3>5. OwnOrFolded(r)
      BY <3>2 DEF Copies, OwnOrFolded
    <3>4. r \in Copies
      BY <3>2, <3>3, <3>5 DEF Copies
    <3> QED BY <3>1, <3>2, <3>4
  <2> QED BY <2>1, <2>2
<1>3. DOMAIN b = 1 .. Len(q) /\ \A k \in 1 .. Len(q) : b[k] = Rebound(q[k], e)
  BY <1>1 DEF BoundTo
<1>4. b \in [1 .. Len(q) -> Copies]
  BY <1>1, <1>2, <1>3 DEF BoundTo
<1>5. b \in Seq(Copies)
  BY <1>1, <1>4, SeqDef
<1> HIDE DEF b
<1>6. \A k \in 1 .. Len(q) : b[k].id = q[k].id
  BY <1>1, <1>2, <1>3
<1>7. IdsIn(b) = IdsIn(q)
  BY <1>1, <1>3, <1>6 DEF IdsIn
<1> QED BY <1>5, <1>7 DEF b

\* Keeping some of a queue of copies gives a queue of copies.
LEMMA KeepOfCopies ==
    ASSUME NEW q \in Seq(Copies), NEW S
    PROVE  /\ Keep(q, S) \in Seq(Copies)
           /\ Ops(Keep(q, S)) = Ops(q) \cap S
BY KeepFacts

\* What a flush takes from the queue.
LEMMA FlushFacts ==
    ASSUME NEW q \in Seq(Copies), NEW e \in Int, e <= epoch
    PROVE  /\ StaleIn(q, e) \in Seq(Copies)
           /\ Ops(StaleIn(q, e)) \subseteq Copies
           /\ FlushOrder(CurrentIn(q, e)) \in Seq(Copies)
<1>1. BoundTo(q, e) \in Seq(Copies)
  BY BoundFacts
<1>2. StaleIn(q, e) \in Seq(Copies)
  BY <1>1, KeepOfCopies DEF StaleIn
<1> DEFINE s == CurrentIn(q, e)
<1>3. s \in Seq(Copies)
  BY <1>1, KeepOfCopies DEF CurrentIn
<1> HIDE DEF s
<1> DEFINE a == Keep(s, {x \in Ops(s) : x.kind = "create"})
           b == Keep(s, {x \in Ops(s) : x.kind = "delete"})
           c == Keep(s, {x \in Ops(s) : IsPatch(x)})
<1>4. a \in Seq(Copies) /\ b \in Seq(Copies) /\ c \in Seq(Copies)
  BY <1>3, KeepOfCopies
<1>5. FlushOrder(s) = a \o b \o c
  BY Zenon DEF FlushOrder
<1> HIDE DEF a, b, c
<1> DEFINE ab == a \o b
<1>6. ab \in Seq(Copies)
  BY <1>4, ConcatProperties
<1> HIDE DEF ab
<1>7. ab \o c \in Seq(Copies)
  BY <1>4, <1>6, ConcatProperties
<1> QED BY <1>2, <1>5, <1>7, OpsIn DEF s, ab

\* An acknowledgement takes out what it acknowledges and what the merge takes
\* up.
LEMMA AcknowledgedFacts ==
    ASSUME NEW q \in Seq(Copies), NEW done
    PROVE  /\ Acknowledged(q, done) \in Seq(Copies)
           /\ \A i \in IdsIn(q) : \/ i \in IdsIn(Acknowledged(q, done))
                                  \/ i \in TakenUp(q)
                                  \/ \E o \in done : o.id = i
<1> DEFINE m == Merge(q)
           S == {x \in Ops(m) : \A o \in done : o.id # x.id}
<1>1. m \in Seq(Copies)
  BY MergeOfCopies
<1>2. Acknowledged(q, done) = Keep(m, S)
  BY Zenon DEF Acknowledged
<1>3. Ops(m) \cap S = S
  OBVIOUS
<1> HIDE DEF S
<1>4. Keep(m, S) \in Seq(Copies) /\ Ops(Keep(m, S)) = S
  BY <1>1, <1>3, KeepOfCopies
<1>5. ASSUME NEW i \in IdsIn(q), i \notin TakenUp(q), \A o \in done : o.id # i
      PROVE  i \in IdsIn(Keep(m, S))
  <2>1. i \in IdsIn(m)
    BY <1>5 DEF TakenUp
  <2>2. PICK x \in Ops(m) : x.id = i
    BY <2>1, IdsOfOps DEF HasId
  <2>3. x \in S
    BY <1>5, <2>2 DEF S
  <2> QED BY <1>4, <2>2, <2>3, IdsOfOps DEF HasId
<1> QED BY <1>2, <1>4, <1>5

-----------------------------------------------------------------------------
(* The cloud.                                                              *)

\* A request asks what was staged, of the generation it was staged in.
Asked(op) ==
    /\ op \in Operation
    /\ op.id \in 1 .. Now
    /\ op.at = op.id
    /\ op.kind = Kind(op.id)
    /\ op.card = ops[op.id].card
    /\ op.epoch <= epoch
    /\ ops[op.id].epoch = Unverified \/ op.epoch = ops[op.id].epoch
    /\ op.kind = "create" => op.base = 0
    /\ OwnOrFolded(op)

\* The request a call makes, though rebased, asks what was staged.
LEMMA RequestFacts ==
    ASSUME StagedOK, NEW call \in Calls
    PROVE  /\ Asked(Request(call))
           /\ Request(call).id = call.op.id
           /\ Request(call).kind = call.op.kind
           /\ Request(call).card = call.op.card
           /\ Request(call).epoch = call.op.epoch
<1> DEFINE o == call.op
           b == call.base
           r == [o EXCEPT !.base = b]
<1>1. o \in Copies /\ b \in Nat /\ (o.kind = "create" => b = 0)
  BY DEF Calls
<1>2. Request(call) = r
  BY DEF Request
<1> HIDE DEF o, b
<1>3. o \in Operation
  BY <1>1 DEF Copies
<1>4. /\ r \in Operation
      /\ r.id = o.id /\ r.at = o.at /\ r.kind = o.kind /\ r.card = o.card
      /\ r.epoch = o.epoch /\ r.base = b /\ r.val = o.val
  BY <1>1, <1>3 DEF Operation
<1> HIDE DEF r
<1>6. OwnOrFolded(r)
  BY <1>1, <1>4 DEF Copies, OwnOrFolded
<1>5. Asked(r)
  BY <1>1, <1>4, <1>6 DEF Asked, Copies, StagedOK, Kind
<1> QED BY <1>2, <1>4, <1>5 DEF o

\* The five ways a transaction can end: one for each kind of operation it
\* applies, and the answers that write nothing.
LEMMA ExecuteCases ==
    ASSUME ServerOK, NEW op, Asked(op), Execute(op)
    PROVE  \/ op.kind = "create" /\ CreateCard(op) /\ Writes(op)
           \/ op.kind = "patch" /\ PatchCard(op) /\ Writes(op)
           \/ op.kind = "delete" /\ DeleteCard(op, Now) /\ Writes(op)
           \/ op.kind = "review" /\ ReviewCard(op, Now) /\ Writes(op)
           \/ ~Writes(op) /\ UNCHANGED serverVars
<1>1. CASE op.kind = "create" /\ CreateCard(op)
  BY <1>1 DEF CreateCard, Writes, Reply
<1>2. CASE op.kind = "patch" /\ PatchCard(op)
  BY <1>2 DEF PatchCard, Writes, Reply, IsPatch
<1>3. CASE op.kind = "delete" /\ DeleteCard(op, Now)
  BY <1>3 DEF DeleteCard, Writes, Reply
<1>4. CASE op.kind = "review" /\ ReviewCard(op, Now)
  BY <1>4 DEF ReviewCard, Writes, Reply, IsPatch
<1> QED BY <1>1, <1>2, <1>3, <1>4 DEF Execute

\* The log of staged operations holds operations.
LEMMA StagedFacts ==
    ASSUME StagedOK
    PROVE  /\ Now \in Nat
           /\ \A i \in 1 .. Now : ops[i] \in Operation /\ ops[i].card \in Cards
<1>1. Now \in Nat /\ \A i \in 1 .. Now : ops[i] \in Operation
  BY LenProperties, ElementOfSeq DEF StagedOK, Now
<1> QED BY <1>1 DEF Operation

\* A transaction of op that changed a document.
Logged(op) ==
    /\ writes' = Append(writes, op.id)
    /\ UNCHANGED <<epoch, ops, cleared>>

\* A logged write is the last one; those before it keep their places.
LEMMA LoggedFacts ==
    ASSUME WritesOK, StagedOK, NEW op, Asked(op), Logged(op)
    PROVE  /\ WritesOK' /\ StagedOK'
           /\ Len(writes) \in Nat
           /\ DOMAIN writes = 1 .. Len(writes)
           /\ DOMAIN writes' = 1 .. Len(writes) + 1
           /\ \A k \in 1 .. Len(writes) :
                 writes'[k] = writes[k] /\ writes[k] \in 1 .. Now
           /\ writes'[Len(writes) + 1] = op.id
           /\ \A i : Written(i)' <=> Written(i) \/ i = op.id
           /\ Now' = Now /\ \A i : Kind(i)' = Kind(i)
<1>1. Now' = Now /\ \A i : Kind(i)' = Kind(i)
  BY DEF Logged, Now, Kind
<1>2. op.id \in 1 .. Now
  BY DEF Asked
<1>3. writes \in Seq(1 .. Now) /\ writes' = Append(writes, op.id)
  BY DEF WritesOK, Logged
<1>4. WritesOK'
  BY <1>1, <1>2, <1>3, AppendProperties DEF WritesOK
<1>5. StagedOK'
  BY DEF StagedOK, Logged, Now, Operation
<1>6. /\ Len(writes) \in Nat
      /\ DOMAIN writes = 1 .. Len(writes)
      /\ \A k \in 1 .. Len(writes) : writes[k] \in 1 .. Now
  BY <1>3, LenProperties, ElementOfSeq
<1>7. /\ Len(writes') = Len(writes) + 1
      /\ DOMAIN writes' = 1 .. Len(writes) + 1
      /\ \A k \in 1 .. Len(writes) : writes'[k] = writes[k]
      /\ writes'[Len(writes) + 1] = op.id
  BY <1>2, <1>3, <1>6, AppendProperties
<1>8. \A i : Written(i)' <=> Written(i) \/ i = op.id
  BY <1>6, <1>7 DEF Written, Ops
<1> QED BY <1>1, <1>4, <1>5, <1>6, <1>7, <1>8

\* What a transaction of op has to respect for AppliedOnce to go on.
Repeatable(op) ==
    \A i \in 1 .. Len(writes) : writes[i] = op.id =>
        \/ op.kind = "patch"
        \/ op.kind # "review" /\ ops[op.id].epoch = Unverified
        \/ op.kind = "delete" /\ \E k \in 1 .. Len(writes) :
              i < k /\ DeleteOf(writes[k], op.card)

\* A write that repeats no earlier one, unless as a patch, of an unverified epoch
\* or as a delete after another delete, keeps AppliedOnce.
LEMMA LoggedOnce ==
    ASSUME WritesOK, StagedOK, AppliedOnce, NEW op, Asked(op), Logged(op),
           Repeatable(op)
    PROVE  AppliedOnce'
<1> DEFINE n == Len(writes)
<1>1. /\ n \in Nat
      /\ DOMAIN writes = 1 .. n
      /\ DOMAIN writes' = 1 .. n + 1
      /\ \A k \in 1 .. n : writes'[k] = writes[k]
      /\ writes'[n + 1] = op.id
      /\ ops' = ops
  BY LoggedFacts DEF Logged
<1>2. op.kind = ops[op.id].kind /\ op.card = ops[op.id].card
  BY DEF Asked, Kind
<1> HIDE DEF n
<1> SUFFICES ASSUME NEW i \in DOMAIN writes', NEW j \in DOMAIN writes',
                    i < j, writes'[i] = writes'[j]
             PROVE  \/ ops[writes'[i]].kind = "patch"
                    \/ /\ ops[writes'[i]].kind # "review"
                       /\ ops[writes'[i]].epoch = Unverified
                    \/ /\ ops[writes'[i]].kind = "delete"
                       /\ \E k \in DOMAIN writes' :
                             /\ i < k /\ k < j
                             /\ ops[writes'[k]].kind = "delete"
                             /\ ops[writes'[k]].card = ops[writes'[i]].card
  BY <1>1 DEF AppliedOnce, Kind
<1>3. CASE j \in 1 .. n
  <2>1. i \in 1 .. n
    BY <1>1, <1>3
  <2>2. writes[i] = writes[j]
    BY <1>1, <1>3, <2>1
  <2> DEFINE w == writes[i]
  <2>3. \/ ops[w].kind = "patch"
        \/ ops[w].kind # "review" /\ ops[w].epoch = Unverified
        \/ /\ ops[w].kind = "delete"
           /\ \E k \in 1 .. n : /\ i < k /\ k < j
                                /\ ops[writes[k]].kind = "delete"
                                /\ ops[writes[k]].card = ops[w].card
    BY <1>1, <1>3, <2>1, <2>2 DEF AppliedOnce, Kind
  <2> QED BY <1>1, <2>1, <2>3
<1>4. CASE j = n + 1
  <2>1. i \in 1 .. n /\ writes[i] = op.id /\ writes'[i] = op.id
    BY <1>1, <1>4
  <2>2. \/ op.kind = "patch"
        \/ op.kind # "review" /\ ops[op.id].epoch = Unverified
        \/ op.kind = "delete" /\ \E k \in 1 .. n :
              i < k /\ DeleteOf(writes[k], op.card)
    BY <2>1 DEF Repeatable, n
  <2>3. ASSUME NEW k \in 1 .. n, DeleteOf(writes[k], op.card)
        PROVE  /\ k \in DOMAIN writes' /\ k < j
               /\ ops[writes'[k]].kind = "delete"
               /\ ops[writes'[k]].card = op.card
    BY <1>1, <1>4, <2>3 DEF DeleteOf, Kind
  <2> QED BY <1>2, <2>1, <2>2, <2>3
<1> QED BY <1>1, <1>3, <1>4

\* The contents of an empty card are contents.
LEMMA BlankIn == Blank \in [Fields -> Content]
BY ValuesAssumption DEF Blank, Content

\* The absent card has the shape of a document.
LEMMA NoCardIn == NoCard \in Document
BY BlankIn DEF NoCard, Document

\* What a transaction that changes one card, and perhaps its tombstone, has to
\* leave behind.
LEMMA ServerStep ==
    ASSUME ServerOK, NEW c \in Cards, NEW doc \in Document, doc.epoch <= epoch,
           epoch' = epoch, card' = [card EXCEPT ![c] = doc],
           tomb' \in [Cards -> [epoch : Int, rev : Nat, op : OpIds \cup Nat,
                                at : Nat]],
           receipt' \subseteq [card : Cards, op : Nat, base : Nat, epoch : Int,
                               rev : Nat, expired : BOOLEAN]
    PROVE  ServerOK'
<1>1. card' \in [Cards -> Document]
  BY DEF ServerOK
<1>2. \A b \in Cards : card'[b].epoch <= epoch'
  BY DEF ServerOK
<1> QED BY <1>1, <1>2 DEF ServerOK

\* Creates, patches and reviews leave the tombstones as they are, and cards
\* alive.
LEMMA LoggedOther ==
    ASSUME ServerOK, WritesOK, StagedOK, CreatesOK, DeletesOK,
           NEW op, Asked(op), Logged(op), op.kind # "delete", tomb' = tomb,
           \A b \in Cards : Live(b) => Live(b)',
           op.kind = "create" => Live(op.card)'
    PROVE  CreatesOK' /\ DeletesOK'
<1>1. /\ Now' = Now /\ ops' = ops /\ epoch' = epoch
      /\ \A i : Kind(i)' = Kind(i)
      /\ op.kind = Kind(op.id) /\ op.card = ops[op.id].card
  BY DEF Logged, Now, Kind, Asked
<1>2. \A i \in 1 .. Now : ops[i].card \in Cards
  BY StagedFacts
<1>3. \A b : CurrentTombstone(b)' <=> CurrentTombstone(b)
  BY <1>1 DEF CurrentTombstone, Present
<1>4. \A i : Written(i)' <=> Written(i) \/ i = op.id
  BY LoggedFacts
<1>5. CreatesOK'
  <2> SUFFICES ASSUME NEW i \in 1 .. Now, Written(i)', Kind(i) = "create",
                      ops[i].epoch # Unverified
               PROVE  \/ ops[i].epoch < epoch
                      \/ Live(ops[i].card)'
                      \/ /\ CurrentTombstone(ops[i].card)
                         /\ tomb[ops[i].card].at >= i
    BY <1>1, <1>3 DEF CreatesOK
  <2> PICK b \in Cards : b = ops[i].card
    BY <1>2
  <2> SUFFICES \/ ops[i].epoch < epoch
               \/ Live(b)'
               \/ CurrentTombstone(b) /\ tomb[b].at >= i
    BY <1>1
  <2>1. CASE i = op.id
    BY <1>1, <2>1
  <2>2. CASE i # op.id
    <3>1. Written(i)
      BY <1>4, <2>2
    <3>2. \/ ops[i].epoch < epoch
          \/ Live(b)
          \/ CurrentTombstone(b) /\ tomb[b].at >= i
      BY <3>1 DEF CreatesOK
    <3> QED BY <3>2
  <2> QED BY <2>1, <2>2
<1>6. DeletesOK'
  <2> DEFINE n == Len(writes)
  <2>1. /\ n \in Nat
        /\ DOMAIN writes = 1 .. n
        /\ DOMAIN writes' = 1 .. n + 1
        /\ \A k \in 1 .. n : writes'[k] = writes[k]
        /\ writes'[n + 1] = op.id
    BY LoggedFacts
  <2> HIDE DEF n
  <2>2. \A b : CurrentTombstone(b)' /\ tomb'[b] = tomb[b]
                  <=> CurrentTombstone(b)
    BY <1>3
  <2> SUFFICES ASSUME NEW k \in DOMAIN writes', Kind(writes'[k]) = "delete",
                      ops[writes'[k]].epoch # Unverified,
                      \A m \in DOMAIN writes' :
                         k < m => ~DeleteOf(writes'[m], ops[writes'[k]].card)
               PROVE  \/ ops[writes'[k]].epoch < epoch
                      \/ /\ CurrentTombstone(ops[writes'[k]].card)
                         /\ tomb[ops[writes'[k]].card].op = writes'[k]
    BY <1>1, <1>3 DEF DeletesOK, DeleteOf
  <2>3. k \in 1 .. n
    BY <1>1, <2>1
  <2>4. writes'[k] = writes[k]
    BY <2>1, <2>3
  <2>5. \A m \in DOMAIN writes :
           k < m => ~DeleteOf(writes[m], ops[writes[k]].card)
    BY <2>1, <2>4
  <2> QED BY <2>1, <2>3, <2>4, <2>5 DEF DeletesOK
<1> QED BY <1>5, <1>6

\* What is no review keeps the receipts in step with the reviews.
LEMMA LoggedNoReview ==
    ASSUME WritesOK, StagedOK, ReceiptsOK, NEW op, Asked(op), Logged(op),
           op.kind # "review", receipt' = receipt
    PROVE  ReceiptsOK'
<1>1. /\ Now' = Now /\ ops' = ops /\ \A i : Kind(i)' = Kind(i)
      /\ op.kind = Kind(op.id)
  BY DEF Logged, Now, Kind, Asked
<1>2. \A i : Written(i)' <=> Written(i) \/ i = op.id
  BY LoggedFacts
<1>3. \A r \in receipt' : Written(r.op)'
  BY <1>2 DEF ReceiptsOK
<1>4. ASSUME NEW i \in 1 .. Now, Written(i)', Kind(i) = "review"
      PROVE  \E r \in receipt : r.op = i /\ r.card = ops[i].card
  <2>1. Written(i)
    BY <1>1, <1>2, <1>4
  <2> QED BY <1>4, <2>1 DEF ReceiptsOK
<1> QED BY <1>1, <1>3, <1>4 DEF ReceiptsOK

\* A create the cloud applies.
LEMMA CreateStep ==
    ASSUME ServerOK, WritesOK, StagedOK, ReceiptsOK, CreatesOK, DeletesOK,
           AppliedOnce, NEW op, Asked(op), Logged(op),
           op.kind = "create", CreateCard(op)
    PROVE  CloudInv'
<1> DEFINE c == op.card
           doc == Created(op)
<1>1. /\ op \in Operation /\ c \in Cards /\ op.id \in 1 .. Now
      /\ op.at = op.id /\ op.base = 0 /\ op.id \in Nat
  BY DEF Asked, Operation
<1>2. /\ CreateReply(op) = "created"
      /\ card' = [card EXCEPT ![c] = doc]
      /\ epoch' = epoch /\ tomb' = tomb /\ receipt' = receipt
  BY DEF CreateCard
<1>3. op.epoch = epoch /\ ~Live(c) /\ ~BehindDeletion(op)
  BY <1>2 DEF CreateReply, WrongEpoch, EpochRefusal
<1>4. TombRev(c) \in Nat
  BY <1>1 DEF ServerOK, TombRev
<1>5. doc \in Document /\ doc.epoch = epoch /\ doc.rev > 0
  BY <1>1, <1>4 DEF Created, Document, Operation, ServerOK
<1> HIDE DEF doc
<1>6. ServerOK'
  BY <1>1, <1>2, <1>5, ServerStep DEF ServerOK
<1>7. WritesOK' /\ StagedOK'
  BY LoggedFacts
<1>8. ReceiptsOK'
  BY <1>2, LoggedNoReview
<1>9. Live(c)' /\ \A b \in Cards : Live(b) => Live(b)'
  BY <1>1, <1>2, <1>5 DEF Live, Present, ServerOK
<1>10. CreatesOK' /\ DeletesOK'
  BY <1>2, <1>9, LoggedOther
<1>11. Repeatable(op)
  <2> SUFFICES ASSUME NEW k \in 1 .. Len(writes), writes[k] = op.id,
                      ops[op.id].epoch # Unverified
               PROVE  FALSE
    BY DEF Repeatable
  <2>1. Written(op.id)
    BY LoggedFacts DEF Written, Ops
  <2> PICK i \in 1 .. Now : i = op.id
    BY <1>1
  <2>2. /\ Kind(i) = "create" /\ ops[i].card = c
        /\ ops[i].epoch # Unverified /\ ops[i].epoch = epoch
    BY <1>3 DEF Asked
  <2>3. \/ ops[i].epoch < epoch
        \/ Live(c)
        \/ CurrentTombstone(c) /\ tomb[c].at >= i
    BY <2>1, <2>2 DEF CreatesOK
  <2>4. ~(ops[i].epoch < epoch)
    BY <2>2 DEF ServerOK
  <2>5. CurrentTombstone(c) /\ tomb[c].at >= i
    BY <1>3, <2>3, <2>4
  <2>6. tomb[c].rev \in Nat /\ tomb[c].at \in Nat
    BY <1>1 DEF ServerOK
  <2> QED BY <1>1, <1>3, <2>5, <2>6
          DEF BehindDeletion, TombRev, CurrentTombstone, Present
<1>12. AppliedOnce'
  BY <1>11, LoggedOnce
<1> QED BY <1>6, <1>7, <1>8, <1>10, <1>12 DEF CloudInv

\* A document that is stepped by a revision is a document.
LEMMA Revised ==
    ASSUME NEW d \in Document, NEW v \in [Fields -> Content], NEW l \in Nat
    PROVE  LET p == [d EXCEPT !.val = v, !.rev = @ + 1]
               r == [d EXCEPT !.rev = @ + 1, !.last = l]
           IN  /\ p \in Document /\ p.epoch = d.epoch /\ p.rev = d.rev + 1
               /\ r \in Document /\ r.epoch = d.epoch /\ r.rev = d.rev + 1
<1> DEFINE n == d.rev + 1
           p == [d EXCEPT !.val = v, !.rev = n]
           r == [d EXCEPT !.rev = n, !.last = l]
<1>1. n \in Nat
  BY DEF Document
<1> HIDE DEF n
<1>2. p \in Document /\ p.epoch = d.epoch /\ p.rev = n
  BY <1>1 DEF Document
<1>3. r \in Document /\ r.epoch = d.epoch /\ r.rev = n
  BY <1>1 DEF Document
<1> QED BY <1>2, <1>3 DEF n

\* A patch the cloud applies.
LEMMA PatchStep ==
    ASSUME ServerOK, WritesOK, StagedOK, ReceiptsOK, CreatesOK, DeletesOK,
           AppliedOnce, NEW op, Asked(op), Logged(op),
           op.kind = "patch", PatchCard(op)
    PROVE  CloudInv'
<1> DEFINE c == op.card
           doc == Patched(op)
<1>1. op \in Operation /\ c \in Cards
  BY DEF Asked, Operation
<1>2. /\ PatchReply(op) = "applied"
      /\ card' = [card EXCEPT ![c] = doc]
      /\ epoch' = epoch /\ tomb' = tomb /\ receipt' = receipt
  BY DEF PatchCard
<1>3. card[c] \in Document /\ card[c].epoch <= epoch
  BY <1>1 DEF ServerOK
<1>4. Overlay(card[c].val, op) \in [Fields -> Content]
  BY <1>1, <1>3 DEF Overlay, Document, Operation
<1>5. /\ doc \in Document /\ doc.epoch = card[c].epoch
      /\ doc.rev = card[c].rev + 1
  <2> DEFINE d == card[c]
             v == Overlay(d.val, op)
  <2>1. doc = [d EXCEPT !.val = v, !.rev = @ + 1]
    BY DEF Patched
  <2> HIDE DEF d, v, doc
  <2> QED BY <1>3, <1>4, <2>1, Revised DEF d, v
<1> HIDE DEF doc
<1>6. ServerOK'
  BY <1>1, <1>2, <1>3, <1>5, ServerStep DEF ServerOK
<1>7. WritesOK' /\ StagedOK'
  BY LoggedFacts
<1>8. ReceiptsOK'
  BY <1>2, LoggedNoReview
<1>9. \A b \in Cards : Live(b) => Live(b)'
  BY <1>1, <1>2, <1>3, <1>5 DEF Live, Present, ServerOK, Document
<1>10. CreatesOK' /\ DeletesOK'
  BY <1>2, <1>9, LoggedOther
<1>11. Repeatable(op)
  BY DEF Repeatable
<1>12. AppliedOnce'
  BY <1>11, LoggedOnce
<1> QED BY <1>6, <1>7, <1>8, <1>10, <1>12 DEF CloudInv

\* A review the cloud applies: no receipt of it was there.
LEMMA ReviewStep ==
    ASSUME ServerOK, WritesOK, StagedOK, ReceiptsOK, CreatesOK, DeletesOK,
           AppliedOnce, NEW op, Asked(op), Logged(op),
           op.kind = "review", ReviewCard(op, Now)
    PROVE  CloudInv'
<1> DEFINE c == op.card
           doc == Reviewed(op)
           new == [card |-> c, op |-> op.id, base |-> op.base,
                   epoch |-> op.epoch, rev |-> card[c].rev + 1,
                   expired |-> FALSE]
<1>1. op \in Operation /\ c \in Cards /\ op.id \in 1 .. Now /\ op.id \in Nat
  BY DEF Asked, Operation
<1>2. /\ ReviewReply(op, Now) = "applied"
      /\ card' = [card EXCEPT ![c] = doc]
      /\ receipt' = receipt \cup {new}
      /\ epoch' = epoch /\ tomb' = tomb
  BY DEF ReviewCard
<1>3. card[c] \in Document /\ card[c].epoch <= epoch
  BY <1>1 DEF ServerOK
<1>4. /\ doc \in Document /\ doc.epoch = card[c].epoch
      /\ doc.rev = card[c].rev + 1
  <2> DEFINE d == card[c]
             l == op.at
  <2>1. doc = [d EXCEPT !.rev = @ + 1, !.last = l] /\ l \in Nat
    BY <1>1 DEF Reviewed, Operation
  <2> HIDE DEF d, l, doc
  <2>2. PICK v \in [Fields -> Content] : TRUE
    BY BlankIn
  <2> QED BY <1>3, <2>1, <2>2, Revised DEF d
<1>5. /\ new \in [card : Cards, op : Nat, base : Nat, epoch : Int, rev : Nat,
                  expired : BOOLEAN]
      /\ new.op = op.id /\ new.card = c
  BY <1>1, <1>3 DEF Document, Operation
<1> HIDE DEF doc, new
<1>6. ServerOK'
  BY <1>1, <1>2, <1>3, <1>4, <1>5, ServerStep DEF ServerOK
<1>7. WritesOK' /\ StagedOK'
  BY LoggedFacts
<1>8. /\ Now' = Now /\ ops' = ops /\ \A i : Kind(i)' = Kind(i)
      /\ op.kind = Kind(op.id) /\ c = ops[op.id].card
      /\ \A i : Written(i)' <=> Written(i) \/ i = op.id
  BY LoggedFacts DEF Logged, Now, Kind, Asked
<1>9. ReceiptsOK'
  <2>1. \A r \in receipt' : Written(r.op)'
    BY <1>2, <1>5, <1>8 DEF ReceiptsOK
  <2>2. ASSUME NEW i \in 1 .. Now, Written(i)', Kind(i) = "review"
        PROVE  \E r \in receipt' : r.op = i /\ r.card = ops[i].card
    <3>1. CASE i = op.id
      BY <1>2, <1>5, <1>8, <3>1
    <3>2. CASE i # op.id
      BY <1>2, <1>8, <2>2, <3>2 DEF ReceiptsOK
    <3> QED BY <3>1, <3>2
  <2> QED BY <1>8, <2>1, <2>2 DEF ReceiptsOK
<1>10. \A b \in Cards : Live(b) => Live(b)'
  BY <1>1, <1>2, <1>3, <1>4 DEF Live, Present, ServerOK, Document
<1>11. CreatesOK' /\ DeletesOK'
  BY <1>2, <1>10, LoggedOther
<1>12. ReceiptsOf(op) = {}
  BY <1>2 DEF ReviewReply, EpochRefusal
<1>13. Repeatable(op)
  <2> SUFFICES ASSUME NEW k \in 1 .. Len(writes), writes[k] = op.id
               PROVE  FALSE
    BY DEF Repeatable
  <2>1. Written(op.id)
    BY LoggedFacts DEF Written, Ops
  <2>2. \E r \in receipt : r.op = op.id /\ r.card = c
    BY <1>1, <1>8, <2>1 DEF ReceiptsOK
  <2> QED BY <1>12, <2>2 DEF ReceiptsOf
<1>14. AppliedOnce'
  BY <1>13, LoggedOnce
<1> QED BY <1>6, <1>7, <1>9, <1>11, <1>14 DEF CloudInv

\* A delete the cloud applies: the card's tombstone does not name it.
LEMMA DeleteStep ==
    ASSUME ServerOK, WritesOK, StagedOK, ReceiptsOK, CreatesOK, DeletesOK,
           AppliedOnce, NEW op, Asked(op), Logged(op),
           op.kind = "delete", DeleteCard(op, Now)
    PROVE  CloudInv'
<1> DEFINE c == op.card
           left == [epoch |-> op.epoch, rev |-> DeleteBase(op) + 1,
                    op |-> op.id, at |-> Now]
<1>1. op \in Operation /\ c \in Cards /\ op.id \in 1 .. Now /\ op.id \in Nat
  BY DEF Asked, Operation
<1>2. /\ DeleteReply(op) = "deleted"
      /\ card' = [card EXCEPT ![c] = NoCard]
      /\ tomb' = [tomb EXCEPT ![c] = left]
      /\ epoch' = epoch /\ receipt' = receipt
  BY DEF DeleteCard
<1>3. /\ op.epoch = epoch
      /\ ~(CurrentTombstone(c) /\ tomb[c].op = op.id)
  BY <1>2 DEF DeleteReply, WrongEpoch, EpochRefusal
<1>4. card[c] \in Document /\ TombRev(c) \in Nat
  BY <1>1 DEF ServerOK, TombRev
<1>5. DeleteBase(op) \in Nat
  BY <1>1, <1>4 DEF DeleteBase, Later, Document, Operation
<1>6. /\ left \in [epoch : Int, rev : Nat, op : OpIds \cup Nat, at : Nat]
      /\ left.epoch = epoch /\ left.rev > 0 /\ left.op = op.id /\ left.at = Now
  BY <1>1, <1>3, <1>5, StagedFacts DEF ServerOK
<1> HIDE DEF left
<1>7. /\ tomb' \in [Cards -> [epoch : Int, rev : Nat, op : OpIds \cup Nat,
                              at : Nat]]
      /\ tomb'[c] = left
      /\ \A b \in Cards : b # c => tomb'[b] = tomb[b] /\ card'[b] = card[b]
  BY <1>1, <1>2, <1>6 DEF ServerOK
<1>8. ServerOK'
  <2>1. NoCard.epoch <= epoch
    BY DEF NoCard, ServerOK
  <2> QED BY <1>1, <1>2, <1>7, <2>1, NoCardIn, ServerStep DEF ServerOK
<1>9. WritesOK' /\ StagedOK'
  BY LoggedFacts
<1>10. ReceiptsOK'
  BY <1>2, LoggedNoReview
<1>11. /\ Now' = Now /\ ops' = ops /\ \A i : Kind(i)' = Kind(i)
       /\ op.kind = Kind(op.id) /\ c = ops[op.id].card
       /\ \A i : Written(i)' <=> Written(i) \/ i = op.id
  BY LoggedFacts DEF Logged, Now, Kind, Asked
<1>12. /\ CurrentTombstone(c)'
       /\ \A b \in Cards : b # c => /\ Live(b)' <=> Live(b)
                                    /\ CurrentTombstone(b)' <=> CurrentTombstone(b)
  BY <1>2, <1>6, <1>7 DEF CurrentTombstone, Live, Present
<1>13. CreatesOK'
  <2> SUFFICES ASSUME NEW i \in 1 .. Now, Written(i)', Kind(i) = "create",
                      ops[i].epoch # Unverified
               PROVE  \/ ops[i].epoch < epoch
                      \/ Live(ops[i].card)'
                      \/ /\ CurrentTombstone(ops[i].card)'
                         /\ tomb'[ops[i].card].at >= i
    BY <1>2, <1>11 DEF CreatesOK
  <2> PICK b \in Cards : b = ops[i].card
    BY StagedFacts
  <2> SUFFICES \/ ops[i].epoch < epoch
               \/ Live(b)'
               \/ CurrentTombstone(b)' /\ tomb'[b].at >= i
    BY <1>11
  <2>1. CASE b = c
    BY <1>6, <1>7, <1>12, <2>1, StagedFacts
  <2>2. CASE b # c
    <3>1. Written(i)
      BY <1>11
    <3>2. \/ ops[i].epoch < epoch
          \/ Live(b)
          \/ CurrentTombstone(b) /\ tomb[b].at >= i
      BY <3>1 DEF CreatesOK
    <3> QED BY <1>7, <1>12, <2>2, <3>2
  <2> QED BY <2>1, <2>2
<1>14. DeletesOK'
  <2> DEFINE n == Len(writes)
  <2>1. /\ n \in Nat
        /\ DOMAIN writes = 1 .. n
        /\ DOMAIN writes' = 1 .. n + 1
        /\ \A k \in 1 .. n : writes'[k] = writes[k] /\ writes[k] \in 1 .. Now
        /\ writes'[n + 1] = op.id
    BY LoggedFacts
  <2> HIDE DEF n
  <2> SUFFICES ASSUME NEW k \in DOMAIN writes', NEW w, w = writes'[k],
                      Kind(w) = "delete", ops[w].epoch # Unverified,
                      \A m \in DOMAIN writes' :
                         k < m => ~DeleteOf(writes'[m], ops[w].card)
               PROVE  \/ ops[w].epoch < epoch
                      \/ /\ CurrentTombstone(ops[w].card)'
                         /\ tomb'[ops[w].card].op = w
    BY <1>2, <1>11 DEF DeletesOK, DeleteOf
  <2>2. w \in 1 .. Now
    BY <1>1, <2>1
  <2> PICK b \in Cards : b = ops[w].card
    BY <2>2, StagedFacts
  <2> SUFFICES \/ ops[w].epoch < epoch
               \/ CurrentTombstone(b)' /\ tomb'[b].op = w
    BY <1>11
  <2>3. CASE k = n + 1
    BY <1>6, <1>7, <1>11, <1>12, <2>1, <2>3
  <2>4. CASE k \in 1 .. n
    <3>1. w = writes[k]
      BY <2>1, <2>4
    <3>2. ~DeleteOf(op.id, b)
      BY <2>1, <2>4
    <3>3. b # c
      BY <1>11, <3>2 DEF DeleteOf
    <3>4. \A m \in DOMAIN writes : k < m => ~DeleteOf(writes[m], b)
      BY <2>1
    <3>5. \/ ops[w].epoch < epoch
          \/ CurrentTombstone(b) /\ tomb[b].op = w
      BY <2>1, <2>4, <3>1, <3>4 DEF DeletesOK
    <3> QED BY <1>7, <1>12, <3>3, <3>5
  <2> QED BY <2>1, <2>3, <2>4
<1>15. Repeatable(op)
  <2> SUFFICES ASSUME NEW k \in 1 .. Len(writes), writes[k] = op.id,
                      ops[op.id].epoch # Unverified,
                      \A m \in 1 .. Len(writes) :
                         k < m => ~DeleteOf(writes[m], c)
               PROVE  FALSE
    BY DEF Repeatable
  <2>1. DOMAIN writes = 1 .. Len(writes)
    BY LoggedFacts
  <2>2. ops[op.id].epoch = epoch
    BY <1>3 DEF Asked
  <2>3. \/ ops[op.id].epoch < epoch
        \/ CurrentTombstone(c) /\ tomb[c].op = op.id
    BY <1>11, <2>1 DEF DeletesOK
  <2> QED BY <1>3, <2>2, <2>3 DEF ServerOK
<1>16. AppliedOnce'
  BY <1>15, LoggedOnce
<1> QED BY <1>8, <1>9, <1>10, <1>13, <1>14, <1>16 DEF CloudInv

\* A step that leaves the documents and the log alone keeps the cloud's part of
\* the invariant.
LEMMA CloudUnchanged ==
    ASSUME CloudInv, UNCHANGED <<serverVars, ops, writes, cleared>>
    PROVE  CloudInv'
<1> USE DEF CloudInv, serverVars
<1>1. ServerOK' /\ StagedOK' /\ WritesOK'
  BY DEF ServerOK, StagedOK, WritesOK, Now
<1>2. ReceiptsOK'
  BY DEF ReceiptsOK, Written, Ops, Kind, Now
<1>3. CreatesOK' /\ DeletesOK'
  BY DEF CreatesOK, DeletesOK, DeleteOf, Written, Ops, Kind, Now, Live,
         CurrentTombstone, Present
<1>4. AppliedOnce'
  BY DEF AppliedOnce, Kind
<1> QED BY <1>1, <1>2, <1>3, <1>4

\* One transaction, whatever it answers.
LEMMA ExecuteInv ==
    ASSUME CloudInv, NEW op, Asked(op), Execute(op), ops' = ops,
           cleared' = cleared
    PROVE  /\ CloudInv'
           /\ epoch' = epoch
           /\ \A i : Written(i) => Written(i)'
           /\ Writes(op) => Written(op.id)'
<1> USE DEF CloudInv
<1>1. CASE ~Writes(op) /\ UNCHANGED serverVars
  <2>1. writes' = writes
    BY <1>1 DEF Execute
  <2>2. CloudInv'
    BY <1>1, <2>1, CloudUnchanged
  <2> QED BY <1>1, <2>1, <2>2 DEF serverVars, Written, Ops
<1>2. CASE Writes(op)
  <2>1. epoch' = epoch
    BY <1>2, ExecuteCases DEF CreateCard, PatchCard, DeleteCard, ReviewCard
  <2>2. Logged(op)
    BY <1>2, <2>1 DEF Execute, Logged
  <2>3. CloudInv'
    BY <1>2, <2>2, ExecuteCases, CreateStep, PatchStep, DeleteStep, ReviewStep
  <2> QED BY <2>1, <2>2, <2>3, LoggedFacts
<1> QED BY <1>1, <1>2, ExecuteCases

\* The revision that comes with an answer.
LEMMA AnswerFacts ==
    ASSUME CloudInv, CloudInv', NEW op, Asked(op)
    PROVE  AnsweredRev(op) \in Nat
<1> USE DEF CloudInv
<1>1. op.card \in Cards /\ op.base \in Nat /\ op.kind \in Kinds
  BY DEF Asked, Operation
<1>2. card'[op.card].rev \in Nat /\ tomb'[op.card].rev \in Nat
  BY <1>1 DEF ServerOK, Document
<1>3. Reply(op) = "duplicate" =>
         (CHOOSE r \in ValidReceipt(op) : TRUE).rev \in Nat
  <2> HAVE Reply(op) = "duplicate"
  <2>1. op.kind = "review"
    BY <1>1 DEF Reply, Kinds, CreateReply, PatchReply, DeleteReply, EpochRefusal
  <2>2. ValidReceipt(op) # {}
    BY <2>1 DEF Reply, ReviewReply, EpochRefusal
  <2>3. (CHOOSE r \in ValidReceipt(op) : TRUE) \in ValidReceipt(op)
    BY <2>2, Zenon
  <2>4. \A r \in ValidReceipt(op) : r.rev \in Nat
    BY DEF ValidReceipt, ReceiptsOf, ServerOK
  <2> QED BY <2>3, <2>4
<1> DEFINE s == (CHOOSE r \in ValidReceipt(op) : TRUE).rev
<1>4. AnsweredRev(op) =
        CASE Reply(op) = "nothing-to-delete" -> op.base + 1
          [] op.kind = "delete" /\ Reply(op) # "nothing-to-delete" ->
                tomb'[op.card].rev
          [] Reply(op) = "duplicate" -> s
          [] OTHER -> card'[op.card].rev
  BY Zenon DEF AnsweredRev
<1> HIDE DEF s
<1> QED BY <1>1, <1>2, <1>3, <1>4 DEF s

\* A review whose answer counts as done has been applied by then.
LEMMA DoneIsWritten ==
    ASSUME CloudInv, NEW op, Asked(op), Execute(op), ops' = ops,
           cleared' = cleared, op.kind = "review",
           Reply(op) \in {"applied", "duplicate"}
    PROVE  Written(op.id)'
<1>1. CASE Reply(op) = "applied"
  BY <1>1, ExecuteInv DEF Writes, IsPatch
<1>2. CASE Reply(op) = "duplicate"
  <2>1. ReviewReply(op, Now) = "duplicate"
    BY <1>2 DEF Reply
  <2>2. ValidReceipt(op) # {}
    BY <2>1 DEF ReviewReply, EpochRefusal
  <2>3. Written(op.id)
    BY <2>2 DEF ValidReceipt, ReceiptsOf, CloudInv, ReceiptsOK
  <2> QED BY <2>3, ExecuteInv
<1> QED BY <1>1, <1>2

-----------------------------------------------------------------------------
(* The devices.                                                            *)

\* The library's generation and the operations staged only grow.
Grows ==
    /\ epoch' \in Int /\ epoch <= epoch'
    /\ Now' \in Nat /\ Now <= Now'
    /\ \A i \in 1 .. Now : ops'[i] = ops[i]

\* Copies, calls, runs and versions of a smaller log and an earlier generation
\* are ones of the larger log and the later generation.
LEMMA Growth ==
    ASSUME ServerOK, StagedOK, Grows
    PROVE  /\ Copies \subseteq Copies' /\ Seq(Copies) \subseteq Seq(Copies')
           /\ Calls \subseteq Calls'
           /\ Runs \subseteq Runs'
           /\ Versions \subseteq Versions'
           /\ Refreshes \subseteq Refreshes'
           /\ \A i \in 1 .. Now : i \in 1 .. Now' /\ Kind(i)' = Kind(i)
           /\ \A i, j \in 1 .. Now : TakesUp(j, i) => TakesUp(j, i)'
<1>1. epoch \in Int /\ epoch' \in Int /\ epoch <= epoch'
  BY DEF ServerOK, Grows
<1>2. Now \in Nat /\ Now' \in Nat /\ Now <= Now'
  BY StagedFacts DEF Grows
<1>3. ASSUME NEW o \in Copies PROVE o \in Copies'
  <2>1. /\ o \in Operation /\ o.id \in 1 .. Now
        /\ o.kind = ops[o.id].kind /\ o.card = ops[o.id].card
        /\ o.at = ops[o.id].at /\ o.base = ops[o.id].base
        /\ o.epoch <= epoch
        /\ ops[o.id].epoch = Unverified \/ o.epoch = ops[o.id].epoch
        /\ OwnOrFolded(o)
    BY DEF Copies
  <2>2. o.epoch \in Int /\ o.epoch <= epoch'
    BY <1>1, <2>1 DEF Operation
  <2>3. o.id \in 1 .. Now'
    BY <1>2, <2>1
  <2>4. ops'[o.id] = ops[o.id]
    BY <2>1 DEF Grows
  <2>5. \A i \in 1 .. Now : i \in 1 .. Now' /\ ops'[i] = ops[i]
    BY <1>2 DEF Grows
  <2>6. OwnOrFolded(o)'
    BY <2>1, <2>5 DEF OwnOrFolded, EditsOfOne, Kind
  <2> QED BY <2>1, <2>2, <2>3, <2>4, <2>6 DEF Copies
<1>4. Seq(Copies) \subseteq Seq(Copies')
  <2> SUFFICES ASSUME NEW q \in Seq(Copies) PROVE q \in Seq(Copies')
    OBVIOUS
  <2>1. Len(q) \in Nat /\ q \in [1 .. Len(q) -> Copies]
    BY LenProperties
  <2>2. q \in [1 .. Len(q) -> Copies']
    BY <1>3, <2>1
  <2> QED BY <2>1, <2>2, SeqDef
<1>5. Calls \subseteq Calls'
  BY <1>3 DEF Calls
<1>6. Runs \subseteq Runs'
  BY <1>3, <1>4, <1>5 DEF Runs
<1>7. Versions \subseteq Versions'
  BY <1>1 DEF Versions
<1>10. Refreshes \subseteq Refreshes'
  BY <1>1 DEF Refreshes
<1>8. \A i \in 1 .. Now : i \in 1 .. Now' /\ Kind(i)' = Kind(i)
  BY <1>2 DEF Grows, Kind
<1>9. \A i, j \in 1 .. Now : TakesUp(j, i) => TakesUp(j, i)'
  BY <1>8 DEF TakesUp, Grows
<1> QED BY <1>3, <1>4, <1>5, <1>6, <1>7, <1>8, <1>9, <1>10

\* What no queue has to hold any more.
Left(i) == \/ i \in decided
           \/ i \in merged /\ \E j \in 1 .. Now : TakesUp(j, i)

QueueStep ==
    \/ queue' = queue
    \/ \E d \in Devices, q \in Seq(Copies') :
          /\ queue' = [queue EXCEPT ![d] = q]
          /\ \A i \in IdsIn(queue[d]) : i \in IdsIn(q) \/ Left(i)'

KnownStep ==
    \/ known' = known
    \/ \E t \in Tabs, e \in Int : e <= epoch' /\ known' = [known EXCEPT ![t] = e]

MirrorStep ==
    /\ view' = view \/ view' \in [Devices -> [Cards -> Versions']]
    /\ \/ refresh' = refresh
       \/ \E t \in Tabs, r \in Refreshes' : refresh' = [refresh EXCEPT ![t] = r]

RunStep ==
    \/ run' = run
    \/ \E t \in Tabs : \E r : run' = [run EXCEPT ![t] = r] /\ Sound(r)'

HistoryStep ==
    /\ decided \subseteq decided'
    /\ merged \subseteq merged'
    /\ \A i : Written(i) => Written(i)'
    /\ \A i \in rewarded' : i \in rewarded \/ Written(i)'
    /\ \A i \in 1 .. Now' : i \in 1 .. Now \/ Queued(i)' \/ Left(i)'

\* What a step has to respect.
LEMMA ClientStep ==
    ASSUME ServerOK, StagedOK, ClientInv, Grows, HistoryStep,
           QueueStep, KnownStep, MirrorStep, RunStep, late' \subseteq Calls'
    PROVE  ClientInv'
<1> USE DEF ClientInv
<1>1. queue' \in [Devices -> Seq(Copies')]
  <2>1. queue \in [Devices -> Seq(Copies')]
    BY Growth DEF DeviceOK
  <2> QED BY <2>1 DEF QueueStep
<1>2. /\ view' \in [Devices -> [Cards -> Versions']]
      /\ refresh' \in [Tabs -> Refreshes']
  <2>1. /\ view \in [Devices -> [Cards -> Versions']]
        /\ refresh \in [Tabs -> Refreshes']
    BY Growth DEF DeviceOK
  <2> QED BY <2>1 DEF MirrorStep
<1>3. known' \in [Tabs -> Int] /\ \A t \in Tabs : known'[t] <= epoch'
  <2>1. known \in [Tabs -> Int] /\ \A t \in Tabs : known[t] <= epoch'
    BY DEF DeviceOK, ServerOK, Grows
  <2> QED BY <2>1 DEF KnownStep
<1>4. DeviceOK'
  BY <1>1, <1>2, <1>3 DEF DeviceOK
<1>5. RunsOK'
  <2>1. ASSUME NEW r, Sound(r) PROVE Sound(r)'
    BY <2>1, Growth DEF Sound, HistoryStep
  <2>2. run \in [Tabs -> Runs'] /\ \A t \in Tabs : Sound(run[t])
    BY Growth DEF RunsOK
  <2>3. \A r : Sound(r)' => r \in Runs'
    BY DEF Sound
  <2>4. CASE run' = run
    <3>1. ASSUME NEW t \in Tabs PROVE Sound(run[t])'
      <4> DEFINE r == run[t]
      <4>1. PICK x : x = run[t]
        OBVIOUS
      <4>2. Sound(x)'
        BY <2>1, <2>2, <4>1
      <4> QED BY <2>4, <4>1, <4>2
    <3> QED BY <2>2, <2>4, <3>1 DEF RunsOK
  <2>5. ASSUME NEW u \in Tabs, NEW r, run' = [run EXCEPT ![u] = r], Sound(r)'
        PROVE  RunsOK'
    <3>1. ASSUME NEW t \in Tabs PROVE Sound(run[t])'
      <4>1. PICK x : x = IF t = u THEN r ELSE run[t]
        OBVIOUS
      <4>2. Sound(x)'
        BY <2>1, <2>2, <2>5, <4>1
      <4>3. run'[t] = x
        BY <2>2, <2>5, <4>1
      <4> QED BY <4>2, <4>3
    <3>2. run' \in [Tabs -> Runs']
      BY <2>2, <2>3, <2>5
    <3> QED BY <3>1, <3>2 DEF RunsOK
  <2> QED BY <2>4, <2>5 DEF RunStep
<1>6. RewardBacked'
  BY DEF RewardBacked, HistoryStep, Written, Ops, ToSet
<1>7. NothingDropped'
  <2> SUFFICES ASSUME NEW i \in 1 .. Now', ~Queued(i)'
               PROVE  Left(i)'
    BY DEF NothingDropped, Left
  <2> SUFFICES ASSUME ~Left(i)' PROVE FALSE
    OBVIOUS
  <2>1. i \in 1 .. Now
    BY DEF HistoryStep
  <2>2. Left(i) => Left(i)'
    BY <2>1, Growth DEF Left, HistoryStep
  <2>3. CASE Queued(i)
    <3>1. PICK d \in Devices : i \in IdsIn(queue[d])
      BY <2>3 DEF Queued
    <3>2. queue' # queue
      BY <3>1 DEF Queued
    <3>3. PICK e \in Devices, q \in Seq(Copies') :
            /\ queue' = [queue EXCEPT ![e] = q]
            /\ \A j \in IdsIn(queue[e]) : j \in IdsIn(q) \/ Left(j)'
      BY <3>2 DEF QueueStep
    <3>4. queue'[d] = IF d = e THEN q ELSE queue[d]
      BY <3>1, <3>3 DEF DeviceOK
    <3>5. i \notin IdsIn(queue'[d])
      BY <3>1 DEF Queued
    <3> QED BY <3>1, <3>3, <3>4, <3>5
  <2>4. CASE ~Queued(i)
    BY <2>1, <2>2, <2>4 DEF NothingDropped, Left
  <2> QED BY <2>3, <2>4
<1> QED BY <1>4, <1>5, <1>6, <1>7

\* A step that leaves the log and the generation alone changes none of the sets
\* the invariant speaks of.
LEMMA StillGrows ==
    ASSUME ServerOK, StagedOK, UNCHANGED <<epoch, ops>>
    PROVE  /\ Grows
           /\ Copies' = Copies /\ Calls' = Calls /\ Runs' = Runs
           /\ Versions' = Versions /\ Refreshes' = Refreshes
           /\ Now' = Now
           /\ \A i : Kind(i)' = Kind(i)
           /\ \A i, j : TakesUp(j, i) => TakesUp(j, i)'
<1>1. /\ Now' = Now
      /\ \A i : Kind(i)' = Kind(i)
      /\ \A i, j : TakesUp(j, i) => TakesUp(j, i)'
  BY DEF Now, Kind, TakesUp
<1>2. Copies' = Copies
  BY DEF Copies, Now, OwnOrFolded, EditsOfOne, Kind
<1>3. Calls' = Calls
  BY <1>2 DEF Calls
<1>4. Runs' = Runs
  BY <1>2, <1>3 DEF Runs
<1>5. Versions' = Versions /\ Refreshes' = Refreshes
  BY DEF Versions, Refreshes
<1>6. Grows
  BY <1>1, StagedFacts DEF Grows, ServerOK
<1> QED BY <1>1, <1>2, <1>3, <1>4, <1>5, <1>6

\* A tab that runs nothing is sound.
LEMMA IdleSound == Sound(Idle)
<1> DEFINE q == <<>>
           c == NoCall
           p == "idle"
           e == ""
           r == [pc |-> p, direct |-> FALSE, todo |-> q, call |-> c,
                 reply |-> e, rev |-> 0, flushed |-> {}, acking |-> {}]
<1>1. q \in Seq(Copies) /\ c \in Calls \cup {NoCall}
  BY EmptySeq
<1>2. p \in Stages /\ e \in Replies /\ p \notin {"wait", "got"}
  BY DEF Stages, Replies
<1>3. Idle = r
  BY DEF Idle
<1> HIDE DEF q, c, p, e
<1>4. r \in Runs
  BY <1>1, <1>2 DEF Runs
<1>5. r.pc = p /\ r.flushed = {} /\ r.acking = {}
  OBVIOUS
<1> HIDE DEF r
<1>6. Sound(r)
  BY <1>2, <1>4, <1>5 DEF Sound
<1> QED BY <1>3, <1>6

\* The fields of a run that a step may set.
LEMMA SendFields ==
    ASSUME NEW x \in Runs, NEW p \in Stages, NEW c \in Calls \cup {NoCall},
           NEW q \in Seq(Copies)
    PROVE  [x EXCEPT !.pc = p, !.todo = q, !.call = c] \in Runs
BY DEF Runs

\* A run with an answer in it is a run.
LEMMA AnswerFields ==
    ASSUME NEW x \in Runs, NEW p \in Stages, NEW e \in Replies, NEW n \in Nat
    PROVE  [x EXCEPT !.pc = p, !.reply = e, !.rev = n] \in Runs
BY DEF Runs

\* A run that is about to acknowledge is a run.
LEMMA AckFields ==
    ASSUME NEW x \in Runs, NEW p \in Stages,
           NEW F \in SUBSET Copies, NEW A \in SUBSET Copies
    PROVE  /\ [x EXCEPT !.pc = p, !.acking = A, !.flushed = F] \in Runs
           /\ [x EXCEPT !.pc = p, !.acking = A] \in Runs
BY DEF Runs

\* A run that has dealt with an answer is a run.
LEMMA ContinueFields ==
    ASSUME NEW x \in Runs, NEW p \in Stages, NEW c \in Calls \cup {NoCall},
           NEW e \in Replies, NEW n \in Nat,
           NEW F \in SUBSET Copies, NEW A \in SUBSET Copies
    PROVE  [x EXCEPT !.pc = p, !.call = c, !.reply = e, !.rev = n,
                     !.flushed = F, !.acking = A] \in Runs
BY DEF Runs

\* A run that starts from nothing.
RunsOf(S, C) == [pc : Stages, direct : BOOLEAN, todo : Seq(S), call : C,
                 reply : Replies, rev : Nat, flushed : SUBSET S,
                 acking : SUBSET S]

\* A run that starts with what it has to send is a run.
LEMMA DirectFields ==
    ASSUME NEW S, NEW C, NEW x \in RunsOf(S, C), NEW p \in Stages,
           NEW o \in Seq(S), NEW y,
           y = [x EXCEPT !.pc = p, !.direct = TRUE, !.todo = o]
    PROVE  /\ y \in RunsOf(S, C) /\ y.pc = p
           /\ y.flushed = x.flushed /\ y.acking = x.acking
BY DEF RunsOf

\* A step that leaves the cloud, the log and the queues alone.
LEMMA LocalStep ==
    ASSUME SyncInv, UNCHANGED <<serverVars, queue, ops, writes, cleared, merged>>,
           decided \subseteq decided',
           \A i \in rewarded' : i \in rewarded \/ Written(i),
           KnownStep, MirrorStep, RunStep, late' \subseteq Calls
    PROVE  SyncInv'
<1> USE DEF SyncInv, CloudInv
<1>1. CloudInv'
  BY CloudUnchanged
<1>2. Grows /\ Calls' = Calls /\ Now' = Now
  BY StillGrows DEF serverVars
<1>3. HistoryStep
  BY <1>2 DEF HistoryStep, Written, Ops
<1>4. ClientInv'
  BY <1>2, <1>3, ClientStep DEF QueueStep
<1> QED BY <1>1, <1>4

\* StartDirect takes the lease or gives up.
LEMMA StartDirectInv ==
    ASSUME SyncInv, NEW t \in Tabs, StartDirect(t) PROVE SyncInv'
<1> USE DEF SyncInv, ClientInv, CloudInv
<1>1. late' \subseteq Calls /\ KnownStep /\ MirrorStep
  BY DEF StartDirect, DeviceOK, KnownStep, MirrorStep, mirrorVars
<1>2. UNCHANGED <<epoch, ops, writes, decided>>
  BY DEF StartDirect, serverVars, history
<1>3. RunStep
  <2>1. CASE run' = [run EXCEPT ![t] = Idle]
    <3>1. Sound(Idle)'
      BY IdleSound, PTL
    <3> QED BY <2>1, <3>1 DEF RunStep
  <2>2. CASE run' = [run EXCEPT ![t].pc = "run"]
    <3> DEFINE r == [run[t] EXCEPT !.pc = "run"]
    <3>1. run' = [run EXCEPT ![t] = r]
      BY <2>2 DEF RunsOK
    <3>2. /\ r \in Runs /\ r.pc = "run"
          /\ r.flushed = run[t].flushed /\ r.acking = run[t].acking
      <4>1. run[t] \in Runs /\ "run" \in Stages
        BY DEF RunsOK, Stages
      <4> QED BY <4>1 DEF Runs
    <3>3. PICK x : x = r
      OBVIOUS
    <3>4. Sound(x)'
      <4>1. x \in Runs'
        BY <1>2, <3>2, <3>3, StillGrows
      <4>2. \A o \in x.flushed \cup x.acking : o.id \in decided'
        BY <1>2, <3>2, <3>3 DEF RunsOK, Sound
      <4> QED BY <3>2, <3>3, <4>1, <4>2 DEF Sound
    <3> QED BY <3>1, <3>3, <3>4 DEF RunStep
  <2> QED BY <2>1, <2>2 DEF StartDirect
<1> QED BY <1>1, <1>3, LocalStep DEF StartDirect, history

\* A run that ends.
LEMMA AbortRun ==
    ASSUME NEW t \in Tabs, run' = [run EXCEPT ![t] = Idle]
    PROVE  RunStep
<1>1. Sound(Idle)'
  BY IdleSound, PTL
<1> QED BY <1>1 DEF RunStep

\* A run that moves on keeps what it is to acknowledge.
LEMMA MoveRun ==
    ASSUME SyncInv, UNCHANGED <<epoch, ops>>, decided \subseteq decided',
           NEW t \in Tabs, NEW r \in Runs, run' = [run EXCEPT ![t] = r],
           r.pc # "got", r.pc = "wait" => r.call \in Calls,
           \A o \in r.flushed \cup r.acking :
              o \in run[t].flushed \cup run[t].acking \/ o.id \in decided'
    PROVE  RunStep
<1> USE DEF SyncInv, CloudInv, ClientInv
<1>1. r \in Runs' /\ (r.pc = "wait" => r.call \in Calls')
  BY StillGrows
<1>2. \A o \in r.flushed \cup r.acking : o.id \in decided'
  BY DEF RunsOK, Sound
<1>3. Sound(r)'
  BY <1>1, <1>2 DEF Sound
<1> QED BY <1>3 DEF RunStep

\* The operation an answer is about.
LEMMA GotFacts ==
    ASSUME SyncInv, NEW t \in Tabs, run[t].pc \in {"wait", "got"}
    PROVE  /\ run[t] \in Runs
           /\ run[t].call \in Calls
           /\ run[t].call.op \in Copies
           /\ run[t].call.op.card \in Cards
           /\ run[t].call.op.epoch \in Int
           /\ run[t].call.op.epoch <= epoch
           /\ run[t].rev \in Nat
<1>1. run[t] \in Runs /\ run[t].call \in Calls
  BY DEF SyncInv, ClientInv, RunsOK, Sound
<1>2. run[t].call.op \in Copies
  BY <1>1 DEF Calls
<1> QED BY <1>1, <1>2 DEF Copies, Operation, Runs

\* Continue leaves a sound run if what it sets aside was answered for good.
LEMMA ContinueRun ==
    ASSUME SyncInv, UNCHANGED <<epoch, ops>>, decided \subseteq decided',
           NEW t \in Tabs,
           NEW done \in SUBSET Copies, NEW now \in SUBSET Copies,
           \A o \in done \cup now : o.id \in decided',
           Continue(t, done, now)
    PROVE  RunStep
<1> USE DEF SyncInv, ClientInv
<1> DEFINE x == run[t]
           p == IF now = {} THEN "run" ELSE "ack"
           c == NoCall
           e == ""
           n == 0
           F == x.flushed \cup done
           r == [x EXCEPT !.pc = p, !.call = c, !.reply = e, !.rev = n,
                          !.flushed = F, !.acking = now]
<1>1. x \in Runs /\ x.flushed \subseteq Copies
  BY DEF RunsOK, Runs
<1>2. /\ p \in Stages /\ p \in {"run", "ack"} /\ e \in Replies
      /\ c \in Calls \cup {NoCall} /\ n \in Nat
      /\ F \in SUBSET Copies
  BY <1>1 DEF Stages, Replies
<1>3. run' = [run EXCEPT ![t] = r]
  BY DEF Continue, RunsOK
<1> HIDE DEF p, c, e, F, n
<1>4. r \in Runs
  <2> HIDE DEF x
  <2> QED BY <1>1, <1>2, ContinueFields
<1>5. r.pc = p /\ r.flushed = F /\ r.acking = now
  BY <1>1 DEF Runs
<1>6. \A o \in r.flushed \cup r.acking :
         o \in run[t].flushed \cup run[t].acking \/ o.id \in decided'
  BY <1>5 DEF F
<1> HIDE DEF r
<1> QED BY <1>2, <1>3, <1>4, <1>5, <1>6, MoveRun

\* The mirror's conditional writes.
LEMMA VersionFacts ==
    ASSUME epoch \in Nat, NEW v \in Versions, NEW e \in Int, e <= epoch,
           NEW r \in Nat, NEW b
    PROVE  /\ Hidden \in Versions /\ Shown(e, r) \in Versions
           /\ UpsertView(v, e, r) \in Versions
           /\ PatchView(v, e, r) \in Versions
           /\ DropView(v, e, b) \in Versions
           /\ DropOlder(v, e) \in Versions
BY DEF Versions, Hidden, Shown, UpsertView, PatchView, DropView, DropOlder

\* The mirror stays well formed when one card of it is replaced.
LEMMA SeenCard ==
    ASSUME SyncInv, UNCHANGED <<epoch, ops>>, NEW d \in Devices, NEW c \in Cards,
           NEW v \in Versions, NEW s, SeeCard(d, c, v, s)
    PROVE  MirrorStep
<1>1. view \in [Devices -> [Cards -> Versions]] /\ Versions' = Versions
  BY StillGrows DEF SyncInv, CloudInv, ClientInv, DeviceOK
<1> QED BY <1>1 DEF SeeCard, MirrorStep

\* Every tab has a device.
LEMMA DevIn == \A t \in Tabs : Dev(t) \in Devices
BY HomeAssumption DEF Dev

\* HandleSettled decides the operation and moves on.
LEMMA HandleSettledInv ==
    ASSUME SyncInv, NEW t \in Tabs, HandleSettled(t) PROVE SyncInv'
<1> DEFINE op == run[t].call.op
           d  == Dev(t)
           v  == SettledView(view[d][op.card], op, run[t].reply, run[t].rev)
<1>1. /\ UNCHANGED <<serverVars, queue, known, late, ops, writes, cleared,
                     merged, rewarded>>
      /\ \E s : SeeCard(d, op.card, v, s)
      /\ decided' = decided \cup {op.id}
      /\ Continue(t, {op}, {})
      /\ run[t].pc = "got"
  BY DEF HandleSettled, Settled, Got
<1>2. d \in Devices /\ op \in Copies /\ op.card \in Cards
  BY <1>1, DevIn, GotFacts
<1>3. v \in Versions
  <2>1. view[d][op.card] \in Versions /\ epoch \in Nat
    BY <1>2 DEF SyncInv, CloudInv, ClientInv, ServerOK, DeviceOK
  <2> QED BY <1>1, <2>1, GotFacts, VersionFacts DEF SettledView
<1>4. UNCHANGED <<epoch, ops>>
  BY <1>1 DEF serverVars
<1> HIDE DEF v
<1>5. MirrorStep
  BY <1>1, <1>2, <1>3, <1>4, SeenCard
<1>6. RunStep
  BY <1>1, <1>2, <1>4, ContinueRun
<1>7. KnownStep /\ late' \subseteq Calls
  BY <1>1 DEF KnownStep, SyncInv, ClientInv, DeviceOK
<1> QED BY <1>1, <1>5, <1>6, <1>7, LocalStep

\* HandleStale decides an operation of an earlier generation.
LEMMA HandleStaleInv ==
    ASSUME SyncInv, NEW t \in Tabs, HandleStale(t) PROVE SyncInv'
<1> DEFINE op == run[t].call.op
           d  == Dev(t)
           v  == DropOlder(view[d][op.card], epoch)
<1>1. /\ UNCHANGED <<serverVars, queue, late, ops, writes, cleared, merged,
                     rewarded>>
      /\ known' = [known EXCEPT ![t] = epoch]
      /\ \E s : SeeCard(d, op.card, v, s)
      /\ decided' = decided \cup {op.id}
      /\ Continue(t, {op}, {})
      /\ run[t].pc = "got"
  BY DEF HandleStale, Got
<1>2. d \in Devices /\ op \in Copies /\ op.card \in Cards
  BY <1>1, DevIn, GotFacts
<1>3. v \in Versions /\ epoch \in Int
  <2>1. view[d][op.card] \in Versions /\ epoch \in Nat
    BY <1>2 DEF SyncInv, CloudInv, ClientInv, ServerOK, DeviceOK
  <2> QED BY <2>1 DEF DropOlder, Versions, Hidden
<1>4. UNCHANGED <<epoch, ops>>
  BY <1>1 DEF serverVars
<1> HIDE DEF v
<1>5. MirrorStep
  BY <1>1, <1>2, <1>3, <1>4, SeenCard
<1>6. RunStep
  BY <1>1, <1>2, <1>4, ContinueRun
<1>7. KnownStep
  <2>1. epoch <= epoch' /\ known' = [known EXCEPT ![t] = epoch]
    BY <1>1, <1>3, <1>4
  <2> QED BY <1>3, <2>1 DEF KnownStep
<1>8. late' \subseteq Calls
  BY <1>1 DEF SyncInv, ClientInv, DeviceOK
<1> QED BY <1>1, <1>5, <1>6, <1>7, <1>8, LocalStep

\* HandleRejected decides a review the cloud refused for good.
LEMMA HandleRejectedInv ==
    ASSUME SyncInv, NEW t \in Tabs, HandleRejected(t) PROVE SyncInv'
<1> DEFINE op  == run[t].call.op
           d   == Dev(t)
           doc == card[op.card]
           v   == IF Present(doc)
                  THEN UpsertView(view[d][op.card], doc.epoch, doc.rev)
                  ELSE DropView(view[d][op.card], op.epoch, op.base)
<1>1. /\ UNCHANGED <<serverVars, queue, late, ops, writes, cleared, merged,
                     rewarded>>
      /\ \E s : SeeCard(d, op.card, v, s)
      /\ known' = IF run[t].direct
                  THEN [known EXCEPT ![t] = Later(@, doc.epoch)] ELSE known
      /\ decided' = decided \cup {op.id}
      /\ Continue(t, {}, {op})
      /\ run[t].pc = "got"
  BY DEF HandleRejected, Got
<1>2. d \in Devices /\ op \in Copies /\ op.card \in Cards
  BY <1>1, DevIn, GotFacts
<1>3. epoch \in Nat /\ doc \in Document /\ doc.epoch <= epoch
  BY <1>2 DEF SyncInv, CloudInv, ServerOK
<1>4. v \in Versions
  <2>1. view[d][op.card] \in Versions
    BY <1>2 DEF SyncInv, ClientInv, DeviceOK
  <2>2. doc.epoch \in Int /\ doc.rev \in Nat
    BY <1>3 DEF Document
  <2> QED BY <1>1, <1>3, <2>1, <2>2, GotFacts, VersionFacts
<1>5. UNCHANGED <<epoch, ops>>
  BY <1>1 DEF serverVars
<1> HIDE DEF v
<1>6. MirrorStep
  BY <1>1, <1>2, <1>4, <1>5, SeenCard
<1>7. RunStep
  BY <1>1, <1>2, <1>5, ContinueRun
<1>8. KnownStep /\ late' \subseteq Calls
  <2>1. /\ known[t] \in Int /\ known[t] <= epoch
        /\ known \in [Tabs -> Int] /\ late \subseteq Calls
    BY DEF SyncInv, ClientInv, DeviceOK
  <2>2. Later(known[t], doc.epoch) \in Int /\ Later(known[t], doc.epoch) <= epoch
    BY <1>3, <2>1 DEF Later, Document
  <2> QED BY <1>1, <1>5, <2>1, <2>2 DEF KnownStep
<1> QED BY <1>1, <1>6, <1>7, <1>8, LocalStep

\* HandleKept leaves the operation queued and undecided.
LEMMA HandleKeptInv ==
    ASSUME SyncInv, NEW t \in Tabs, HandleKept(t) PROVE SyncInv'
<1>1. /\ UNCHANGED <<serverVars, queue, view, refresh, known, late, history>>
      /\ Continue(t, {}, {})
  BY DEF HandleKept, mirrorVars
<1>2. UNCHANGED <<epoch, ops, decided>>
  BY <1>1 DEF serverVars, history
<1>3. RunStep
  BY <1>1, <1>2, ContinueRun
<1>4. KnownStep /\ MirrorStep /\ late' \subseteq Calls
  BY <1>1 DEF KnownStep, MirrorStep, SyncInv, ClientInv, DeviceOK
<1> QED BY <1>1, <1>3, <1>4, LocalStep DEF history

\* HandleFailed ends the run and decides nothing.
LEMMA HandleFailedInv ==
    ASSUME SyncInv, NEW t \in Tabs, HandleFailed(t) PROVE SyncInv'
<1>1. /\ UNCHANGED <<serverVars, queue, view, refresh, late, history>>
      /\ run' = [run EXCEPT ![t] = Idle]
      /\ known' = known \/ known' = [known EXCEPT ![t] = epoch]
  BY DEF HandleFailed, Abort, mirrorVars
<1>2. epoch \in Int /\ epoch' = epoch
  BY <1>1 DEF serverVars, SyncInv, CloudInv, ServerOK
<1>3. RunStep
  BY <1>1, AbortRun
<1>4. KnownStep /\ MirrorStep /\ late' \subseteq Calls
  BY <1>1, <1>2 DEF KnownStep, MirrorStep, SyncInv, ClientInv, DeviceOK
<1> QED BY <1>1, <1>3, <1>4, LocalStep DEF history

\* HandleReviewed grants experience points for a review that was written.
LEMMA HandleReviewedInv ==
    ASSUME SyncInv, NEW t \in Tabs, HandleReviewed(t) PROVE SyncInv'
<1> DEFINE op == run[t].call.op
           d  == Dev(t)
           v  == PatchView(view[d][op.card], op.epoch, run[t].rev)
<1>1. /\ UNCHANGED <<serverVars, queue, known, late, ops, writes, cleared, merged>>
      /\ \E s : SeeCard(d, op.card, v, s)
      /\ rewarded' = rewarded \cup {op.id}
      /\ decided' = decided \cup {op.id}
      /\ \/ Continue(t, {}, {op})
         \/ run' = [run EXCEPT ![t] = Idle]
      /\ run[t].pc = "got"
  BY DEF HandleReviewed, ReviewDone, Got, Abort
<1>2. d \in Devices /\ op \in Copies /\ op.card \in Cards
  BY <1>1, DevIn, GotFacts
<1>3. v \in Versions
  <2>1. view[d][op.card] \in Versions /\ epoch \in Nat
    BY <1>2 DEF SyncInv, CloudInv, ClientInv, ServerOK, DeviceOK
  <2> QED BY <1>1, <2>1, GotFacts, VersionFacts
<1>4. UNCHANGED <<epoch, ops>>
  BY <1>1 DEF serverVars
<1>5. Written(op.id)
  <2>1. Sound(run[t])
    BY DEF SyncInv, ClientInv, RunsOK
  <2> QED BY <2>1 DEF Sound, HandleReviewed, ReviewDone, Got
<1> HIDE DEF v
<1>6. MirrorStep
  BY <1>1, <1>2, <1>3, <1>4, SeenCard
<1>7. RunStep
  BY <1>1, <1>2, <1>4, ContinueRun, AbortRun
<1>8. KnownStep /\ late' \subseteq Calls
  BY <1>1 DEF KnownStep, SyncInv, ClientInv, DeviceOK
<1>9. \A i \in rewarded' : i \in rewarded \/ Written(i)
  BY <1>1, <1>5
<1> QED BY <1>1, <1>6, <1>7, <1>8, <1>9, LocalStep

\* Send makes a call of a copy the run holds.
LEMMA SendInv ==
    ASSUME SyncInv, NEW t \in Tabs, Send(t) PROVE SyncInv'
<1> USE DEF SyncInv, ClientInv
<1> DEFINE x  == run[t]
           op == Head(x.todo)
           q  == Tail(x.todo)
           c  == [op |-> op, base |-> op.base, try |-> 1, alive |-> TRUE]
           p  == "wait"
           r  == [x EXCEPT !.pc = p, !.todo = q, !.call = c]
<1>1. /\ UNCHANGED <<serverVars, queue, view, refresh, known, late, history>>
      /\ x.todo # <<>>
      /\ run' = [run EXCEPT ![t].pc = p, ![t].todo = Tail(@), ![t].call = c]
  BY DEF Send, mirrorVars
<1>2. x \in Runs /\ x.todo \in Seq(Copies)
  BY DEF RunsOK, Runs
<1>3. op \in Copies /\ q \in Seq(Copies)
  BY <1>1, <1>2, HeadTailProperties
<1>4. op.base \in Nat /\ (op.kind = "create" => op.base = 0)
  BY <1>3, StagedFacts DEF Copies, Operation, CloudInv, StagedOK
<1>5. c \in Calls
  <2> HIDE DEF op
  <2> QED BY <1>3, <1>4 DEF Calls
<1>6. run' = [run EXCEPT ![t] = r]
  BY <1>1 DEF RunsOK
<1>7. p \in Stages /\ c \in Calls \cup {NoCall}
  BY <1>5 DEF Stages
<1> HIDE DEF c, q
<1>8. r.pc = p /\ r.call = c /\ r.flushed = x.flushed /\ r.acking = x.acking
  BY <1>2 DEF Runs
<1>9. r \in Runs
  <2> HIDE DEF x, p
  <2> QED BY <1>2, <1>3, <1>7, SendFields
<1>10. UNCHANGED <<epoch, ops, decided>>
  BY <1>1 DEF serverVars, history
<1> HIDE DEF r
<1>11. RunStep
  BY <1>5, <1>6, <1>8, <1>9, <1>10, MoveRun
<1>12. KnownStep /\ MirrorStep /\ late' \subseteq Calls
  BY <1>1 DEF KnownStep, MirrorStep, DeviceOK
<1> QED BY <1>1, <1>11, <1>12, LocalStep DEF history

\* AssertFinal turns what was flushed into what is acknowledged.
LEMMA AssertFinalInv ==
    ASSUME SyncInv, NEW t \in Tabs, AssertFinal(t) PROVE SyncInv'
<1> USE DEF SyncInv, ClientInv
<1> DEFINE x == run[t]
           A == x.flushed
           F == {}
           p == "ack"
           r == [x EXCEPT !.pc = p, !.acking = A, !.flushed = F]
<1>1. /\ UNCHANGED <<serverVars, queue, view, refresh, known, late, history>>
      /\ run' = [run EXCEPT ![t].pc = p, ![t].acking = A, ![t].flushed = F]
  BY DEF AssertFinal, mirrorVars
<1>2. x \in Runs /\ A \in SUBSET Copies /\ F \in SUBSET Copies
  BY DEF RunsOK, Runs
<1>3. run' = [run EXCEPT ![t] = r]
  BY <1>1 DEF RunsOK
<1>4. p \in Stages
  BY DEF Stages
<1>5. r.pc = p /\ r.flushed = F /\ r.acking = A
  BY <1>2 DEF Runs
<1>6. r \in Runs
  <2> HIDE DEF x, p, A, F
  <2> QED BY <1>2, <1>4, AckFields
<1>7. UNCHANGED <<epoch, ops, decided>>
  BY <1>1 DEF serverVars, history
<1>8. \A o \in r.flushed \cup r.acking :
         o \in run[t].flushed \cup run[t].acking \/ o.id \in decided'
  BY <1>5
<1> HIDE DEF r
<1>9. RunStep
  BY <1>3, <1>5, <1>6, <1>7, <1>8, MoveRun
<1>10. KnownStep /\ MirrorStep /\ late' \subseteq Calls
  BY <1>1 DEF KnownStep, MirrorStep, DeviceOK
<1> QED BY <1>1, <1>9, <1>10, LocalStep DEF history

\* Finish ends the run.
LEMMA FinishInv ==
    ASSUME SyncInv, NEW t \in Tabs, Finish(t) PROVE SyncInv'
<1> USE DEF SyncInv, ClientInv
<1>1. /\ UNCHANGED <<serverVars, queue, view, refresh, known, late, history>>
      /\ run' = [run EXCEPT ![t] = Idle]
  BY DEF Finish, Abort, mirrorVars
<1>2. RunStep
  BY <1>1, AbortRun
<1>3. KnownStep /\ MirrorStep /\ late' \subseteq Calls
  BY <1>1 DEF KnownStep, MirrorStep, DeviceOK
<1> QED BY <1>1, <1>2, <1>3, LocalStep DEF history

\* A call nobody awaits any more.
LEMMA LateCall ==
    ASSUME NEW call \in Calls, NEW a \in BOOLEAN
    PROVE  [call EXCEPT !.alive = a] \in Calls
<1> DEFINE r == [call EXCEPT !.alive = a]
<1>1. /\ r \in [op : Copies, base : Nat, try : Nat, alive : BOOLEAN]
      /\ r.op = call.op /\ r.base = call.base
  BY DEF Calls
<1> HIDE DEF r
<1>2. call.op.kind = "create" => call.base = 0
  BY DEF Calls
<1>3. r \in Calls
  BY <1>1, <1>2 DEF Calls
<1> QED BY <1>3 DEF r

\* Timeout leaves the call among the late ones.
LEMMA TimeoutInv ==
    ASSUME SyncInv, NEW t \in Tabs, Timeout(t) PROVE SyncInv'
<1> DEFINE a == ~run[t].direct
<1>1. /\ UNCHANGED <<serverVars, queue, view, refresh, known, history>>
      /\ run' = [run EXCEPT ![t] = Idle]
      /\ late' = late \cup {[run[t].call EXCEPT !.alive = a]}
      /\ run[t].pc = "wait"
  BY DEF Timeout, Abort, mirrorVars
<1>2. run[t].call \in Calls /\ a \in BOOLEAN
  BY <1>1, GotFacts DEF Runs
<1> HIDE DEF a
<1>3. [run[t].call EXCEPT !.alive = a] \in Calls
  BY <1>2, LateCall
<1> USE DEF SyncInv, ClientInv
<1>4. late' \subseteq Calls
  BY <1>1, <1>3 DEF DeviceOK
<1>5. RunStep
  BY <1>1, AbortRun
<1>6. KnownStep /\ MirrorStep
  BY <1>1 DEF KnownStep, MirrorStep
<1> QED BY <1>1, <1>4, <1>5, <1>6, LocalStep DEF history

\* A tab that refreshes nothing.
LEMMA NoRefreshIn == ASSUME ServerOK PROVE NoRefresh \in Refreshes
<1> DEFINE q == <<>>
<1>1. q \in Seq(Operation)
  OBVIOUS
<1>2. NoRefresh = [pc |-> "idle", epoch |-> 0, left |-> {}, page |-> {}, todo |-> q]
  BY DEF NoRefresh
<1> HIDE DEF q
<1> QED BY <1>1, <1>2 DEF Refreshes, ServerOK

\* Crash forgets the run and the epoch; a call that is out stays among the late
\* ones.
LEMMA CrashInv ==
    ASSUME SyncInv, NEW t \in Tabs, Crash(t) PROVE SyncInv'
<1> DEFINE a == FALSE
<1>1. /\ UNCHANGED <<serverVars, queue, view, history>>
      /\ run' = [run EXCEPT ![t] = Idle]
      /\ \/ late' = late
         \/ run[t].pc = "wait" /\ late' = late \cup {[run[t].call EXCEPT !.alive = a]}
      /\ known' = [known EXCEPT ![t] = Unverified]
      /\ refresh' = [refresh EXCEPT ![t] = NoRefresh]
  BY DEF Crash
<1>2. a \in BOOLEAN
  OBVIOUS
<1> HIDE DEF a
<1>3. run[t].pc = "wait" => [run[t].call EXCEPT !.alive = a] \in Calls
  BY <1>2, GotFacts, LateCall
<1> USE DEF SyncInv, ClientInv
<1>4. late' \subseteq Calls
  BY <1>1, <1>3 DEF DeviceOK
<1>5. RunStep
  BY <1>1, AbortRun
<1>7. NoRefresh \in Refreshes'
  BY <1>1, NoRefreshIn, StillGrows DEF CloudInv, serverVars, history
<1>6. KnownStep /\ MirrorStep
  <2>1. Unverified \in Int /\ Unverified <= epoch'
    BY <1>1 DEF Unverified, CloudInv, ServerOK, serverVars
  <2> QED BY <1>1, <1>7, <2>1 DEF KnownStep, MirrorStep
<1> QED BY <1>1, <1>4, <1>5, <1>6, LocalStep DEF history

\* A late call that is lost changes nothing.
LEMMA LateDropInv ==
    ASSUME SyncInv, NEW call \in late, LateDrop(call) PROVE SyncInv'
<1> USE DEF SyncInv, ClientInv
<1>1. /\ UNCHANGED <<serverVars, queue, view, refresh, known, run, history>>
      /\ late' \subseteq Calls
  BY DEF LateDrop, DeviceOK, mirrorVars
<1>2. KnownStep /\ MirrorStep /\ RunStep
  BY <1>1 DEF KnownStep, MirrorStep, RunStep
<1> QED BY <1>1, <1>2, LocalStep DEF history

\* A lease that runs out changes neither queue nor cloud.
LEMMA ExpireInv ==
    ASSUME SyncInv, NEW d \in Devices, Expire(d) PROVE SyncInv'
<1> USE DEF SyncInv, ClientInv
<1>1. /\ UNCHANGED <<serverVars, queue, view, refresh, known, run, history>>
      /\ late' \subseteq Calls
  BY DEF Expire, DeviceOK, mirrorVars
<1>2. KnownStep /\ MirrorStep /\ RunStep
  BY <1>1 DEF KnownStep, MirrorStep, RunStep
<1> QED BY <1>1, <1>2, LocalStep DEF history

\* VerifyEpoch learns a generation the library has reached.
LEMMA VerifyEpochInv ==
    ASSUME SyncInv, NEW t \in Tabs, VerifyEpoch(t) PROVE SyncInv'
<1> USE DEF SyncInv, ClientInv
<1>1. /\ UNCHANGED <<serverVars, queue, view, refresh, run, history>>
      /\ late' \subseteq Calls
      /\ known' = [known EXCEPT ![t] = epoch]
  BY DEF VerifyEpoch, DeviceOK, mirrorVars
<1>2. epoch \in Int /\ epoch <= epoch'
  BY <1>1 DEF CloudInv, ServerOK, serverVars
<1>3. KnownStep /\ MirrorStep /\ RunStep
  BY <1>1, <1>2 DEF KnownStep, MirrorStep, RunStep
<1> QED BY <1>1, <1>3, LocalStep DEF history

\* A step of a refresh: it moves on, and what it writes into the mirror is of a
\* generation the library has reached.
LEMMA RefreshStep ==
    ASSUME SyncInv, UNCHANGED <<serverVars, known, run, late, ops, writes, saved,
                                decided, cleared, rewarded, queue, merged>>,
           NEW t \in Tabs, NEW r \in Refreshes, Moves(t, r),
           view' = view \/ view' \in [Devices -> [Cards -> Versions]]
    PROVE  SyncInv'
<1> USE DEF SyncInv, CloudInv, ClientInv
<1>1. Versions' = Versions /\ Refreshes' = Refreshes
  BY StillGrows DEF serverVars
<1>2. MirrorStep
  BY <1>1 DEF MirrorStep, Moves
<1>3. KnownStep /\ RunStep /\ late' \subseteq Calls
  BY DEF KnownStep, RunStep, DeviceOK
<1> QED BY <1>2, <1>3, LocalStep

\* What a refresh is, by its fields.
LEMMA RefreshFacts ==
    ASSUME SyncInv, NEW t \in Tabs
    PROVE  /\ refresh[t] \in Refreshes
           /\ refresh[t].epoch \in Nat /\ refresh[t].epoch <= epoch
           /\ refresh[t].left \in SUBSET Cards
           /\ refresh[t].page \in SUBSET [card : Cards, rev : Nat]
           /\ refresh[t].todo \in Seq(Operation)
<1>1. refresh[t] \in Refreshes
  BY DEF SyncInv, ClientInv, DeviceOK
<1> QED BY <1>1 DEF Refreshes

\* The fields of a refresh that a step may set.
LEMMA RefreshFields ==
    ASSUME NEW r \in Refreshes,
           NEW p \in {"idle", "begin", "pages", "page", "load", "overlay", "finish"},
           NEW L \in SUBSET Cards, NEW P \in SUBSET [card : Cards, rev : Nat],
           NEW q \in Seq(Operation)
    PROVE  /\ [r EXCEPT !.pc = p] \in Refreshes
           /\ [r EXCEPT !.pc = p, !.left = L] \in Refreshes
           /\ [r EXCEPT !.pc = p, !.left = L, !.page = P] \in Refreshes
           /\ [r EXCEPT !.pc = p, !.page = P] \in Refreshes
           /\ [r EXCEPT !.pc = p, !.todo = q] \in Refreshes
           /\ [r EXCEPT !.todo = q] \in Refreshes
BY DEF Refreshes

\* A refresh begins with an epoch the library has.
LEMMA RefreshEpoch ==
    ASSUME NEW r \in Refreshes, NEW e \in Nat, e <= epoch
    PROVE  [r EXCEPT !.pc = "begin", !.epoch = e] \in Refreshes
BY DEF Refreshes

\* The cards a refresh puts into the mirror, or leaves alone.
LEMMA PutFacts ==
    ASSUME SyncInv, NEW t \in Tabs, NEW page \in SUBSET [card : Cards, rev : Nat],
           PutCards(t, page)
    PROVE  /\ view' = view \/ view' \in [Devices -> [Cards -> Versions]]
           /\ \A d \in Devices, c \in Cards : view'[d][c].shown =>
                 \/ view[d][c].shown
                 \/ d = Dev(t) /\ \E p \in page : p.card = c
<1> PICK d : d = Dev(t)
  OBVIOUS
<1> PICK e : e = refresh[t].epoch
  OBVIOUS
<1> DEFINE put(c) == {p \in page : p.card = c}
           next(c) == IF put(c) = {} THEN view[d][c]
                      ELSE UpsertView(view[d][c], e, (CHOOSE p \in put(c) : TRUE).rev)
<1>1. d \in Devices /\ e \in Nat /\ e <= epoch /\ epoch \in Nat
  BY DevIn, RefreshFacts DEF SyncInv, CloudInv, ServerOK
<1>2. view \in [Devices -> [Cards -> Versions]]
  BY DEF SyncInv, ClientInv, DeviceOK
<1>3. \/ view' = view
      \/ view' = [view EXCEPT ![d] = [c \in Cards |-> next(c)]]
  <2>1. CASE sync[d].by # t
    BY <2>1 DEF PutCards
  <2>2. CASE sync[d].by = t
    BY <2>2 DEF PutCards
  <2> QED BY <2>1, <2>2
<1>4. ASSUME NEW c \in Cards PROVE next(c) \in Versions
  <2>1. CASE put(c) = {}
    BY <1>1, <1>2, <2>1
  <2>2. CASE put(c) # {}
    <3>1. (CHOOSE p \in put(c) : TRUE) \in put(c)
      BY <2>2, Zenon
    <3> DEFINE n == (CHOOSE p \in put(c) : TRUE).rev
    <3>2. n \in Nat
      BY <3>1
    <3>3. next(c) = UpsertView(view[d][c], e, n)
      BY <2>2
    <3>4. PICK v \in Versions : v = view[d][c]
      BY <1>1, <1>2
    <3>5. PICK m \in Nat : m = n
      BY <3>2
    <3>6. UpsertView(v, e, m) \in Versions
      BY <1>1 DEF Versions, UpsertView, Shown
    <3>7. next(c) = UpsertView(v, e, m)
      BY <3>3, <3>4, <3>5
    <3> QED BY <3>6, <3>7
  <2> QED BY <2>1, <2>2
<1>5. \A c \in Cards : put(c) = {} => next(c) = view[d][c]
  OBVIOUS
<1>6. \A c \in Cards : put(c) # {} => \E p \in page : p.card = c
  OBVIOUS
<1> HIDE DEF next, put
<1>7. view' = view \/ view' \in [Devices -> [Cards -> Versions]]
  BY <1>1, <1>2, <1>3, <1>4
<1>8. ASSUME NEW x \in Devices, NEW c \in Cards, view'[x][c].shown, ~view[x][c].shown
      PROVE  x = d /\ \E p \in page : p.card = c
  <2>1. view' = [view EXCEPT ![d] = [b \in Cards |-> next(b)]] /\ x = d
    BY <1>2, <1>3, <1>8
  <2>2. view'[x][c] = next(c)
    BY <1>1, <1>2, <2>1
  <2> QED BY <1>5, <1>6, <1>8, <2>1, <2>2
<1> QED BY <1>7, <1>8

\* The refresh of a tab shows versions of a generation the library has reached,
\* whatever the cloud and the other tabs do between its steps.
LEMMA RefreshInv ==
    ASSUME SyncInv, NEW t \in Tabs, RefreshMirror(t), ~LoadOverlay(t) PROVE SyncInv'
<1> PICK r : r = refresh[t]
  OBVIOUS
<1>0. /\ r \in Refreshes /\ r.left \in SUBSET Cards
      /\ r.page \in SUBSET [card : Cards, rev : Nat]
      /\ r.todo \in Seq(Operation) /\ NoRefresh \in Refreshes
      /\ {} \in SUBSET [card : Cards, rev : Nat] /\ {} \in SUBSET Cards
      /\ epoch \in Nat /\ card \in [Cards -> Document] /\ Hidden \in Versions
      /\ view \in [Devices -> [Cards -> Versions]] /\ Dev(t) \in Devices
  <2>1. /\ r \in Refreshes /\ r.left \in SUBSET Cards
        /\ r.page \in SUBSET [card : Cards, rev : Nat]
        /\ r.todo \in Seq(Operation)
    BY RefreshFacts
  <2>2. ServerOK /\ DeviceOK
    BY DEF SyncInv, CloudInv, ClientInv
  <2>3. NoRefresh \in Refreshes
    BY <2>2, NoRefreshIn
  <2>4. epoch \in Nat /\ card \in [Cards -> Document]
    BY <2>2 DEF ServerOK
  <2>5. Hidden \in Versions
    BY <2>4 DEF Hidden, Versions
  <2>6. view \in [Devices -> [Cards -> Versions]] /\ Dev(t) \in Devices
    BY <2>2, DevIn DEF DeviceOK
  <2> QED BY <2>1, <2>3, <2>4, <2>5, <2>6
<1> USE DEF clientVars, history
<1>1. CASE CaptureEpoch(t)
  <2> PICK x : x = [NoRefresh EXCEPT !.pc = "begin", !.epoch = epoch]
    OBVIOUS
  <2>1. x \in Refreshes
    <3>1. PICK y \in Refreshes : y = NoRefresh
      BY <1>0
    <3>2. PICK e \in Nat : e = epoch /\ e <= epoch
      BY <1>0
    <3>3. [y EXCEPT !.pc = "begin", !.epoch = e] \in Refreshes
      BY <3>2, RefreshEpoch
    <3> QED BY <3>1, <3>2, <3>3
  <2> QED BY <1>1, <2>1, RefreshStep DEF CaptureEpoch
<1>2. CASE BeginSync(t)
  <2>1. [r EXCEPT !.pc = "pages", !.left = Cards] \in Refreshes
    BY <1>0, RefreshFields
  <2> QED BY <1>2, <2>1, RefreshStep DEF BeginSync
<1>3. CASE ReadPage(t)
  <2>1. PICK part \in SUBSET r.left \ {{}} :
          Moves(t, [r EXCEPT !.pc = "page", !.left = @ \ part,
                             !.page = {[card |-> c, rev |-> card[c].rev] : c \in
                                         {x \in part : Present(card[x])
                                                        /\ card[x].epoch = r.epoch}}])
    BY <1>3 DEF ReadPage
  <2> DEFINE L == r.left \ part
             P == {[card |-> c, rev |-> card[c].rev] : c \in
                      {x \in part : Present(card[x]) /\ card[x].epoch = r.epoch}}
  <2>2. L \in SUBSET Cards /\ P \in SUBSET [card : Cards, rev : Nat]
    BY <1>0 DEF Document
  <2>3. Moves(t, [r EXCEPT !.pc = "page", !.left = L, !.page = P])
    BY <2>1
  <2> HIDE DEF L, P
  <2>4. [r EXCEPT !.pc = "page", !.left = L, !.page = P] \in Refreshes
    BY <1>0, <2>2, RefreshFields
  <2> QED BY <1>3, <2>3, <2>4, RefreshStep DEF ReadPage
<1>4. CASE PutPage(t)
  <2>1. [r EXCEPT !.pc = "pages", !.page = {}] \in Refreshes
    BY <1>0, RefreshFields
  <2>2. view' = view \/ view' \in [Devices -> [Cards -> Versions]]
    BY <1>0, <1>4, PutFacts DEF PutPage
  <2> QED BY <1>4, <2>1, <2>2, RefreshStep DEF PutPage
<1>5. CASE ConfirmEpoch(t)
  <2> PICK p : p = IF Passed(t) THEN "load" ELSE "finish"
    OBVIOUS
  <2>1. [r EXCEPT !.pc = p] \in Refreshes
    BY <1>0, RefreshFields
  <2> QED BY <1>5, <2>1, RefreshStep DEF ConfirmEpoch
<1>6. CASE OverlayNext(t)
  <2> PICK op : op = Head(r.todo)
    OBVIOUS
  <2> PICK q : q = Tail(r.todo)
    OBVIOUS
  <2>1. op \in Operation /\ q \in Seq(Operation)
    BY <1>0, <1>6, HeadTailProperties DEF OverlayNext
  <2>2. [r EXCEPT !.todo = q] \in Refreshes
    BY <1>0, <2>1, RefreshFields
  <2>3. view' = view \/ view' \in [Devices -> [Cards -> Versions]]
    <3>1. CASE PutCards(t, {[card |-> op.card, rev |-> 0]})
      <4>0. op.card \in Cards
        BY <2>1 DEF Operation
      <4>1. {[card |-> op.card, rev |-> 0]} \in SUBSET [card : Cards, rev : Nat]
        BY <4>0
      <4> QED BY <3>1, <4>1, PutFacts
    <3>2. CASE view' = [view EXCEPT ![Dev(t)][op.card] =
                          IF sync[Dev(t)].by = t THEN Hidden ELSE @]
      BY <1>0, <3>2
    <3> QED BY <1>6, <3>1, <3>2 DEF OverlayNext
  <2> QED BY <1>6, <2>2, <2>3, RefreshStep DEF OverlayNext
<1>7. CASE FinishSync(t)
  <2>1. view' \in [Devices -> [Cards -> Versions]]
    BY <1>0, <1>7 DEF FinishSync
  <2> QED BY <1>0, <1>7, <2>1, RefreshStep DEF FinishSync
<1>8. CASE AbandonRefresh(t)
  BY <1>0, <1>8, RefreshStep DEF AbandonRefresh
<1> QED BY <1>1, <1>2, <1>3, <1>4, <1>5, <1>6, <1>7, <1>8 DEF RefreshMirror

\* ClearView empties the mirror and ends the run.
LEMMA ClearViewInv ==
    ASSUME SyncInv, NEW t \in Tabs, ClearView(t) PROVE SyncInv'
<1> USE DEF SyncInv, ClientInv
<1>1. /\ UNCHANGED <<serverVars, queue, refresh, known, late, history>>
      /\ \/ view' = [view EXCEPT ![Dev(t)] = [c \in Cards |-> Hidden]]
         \/ view' = view
      /\ run' = [run EXCEPT ![t] = Idle]
  BY DEF ClearView, Abort
<1>2. Hidden \in Versions /\ Versions' = Versions
  BY <1>1, StillGrows DEF CloudInv, ServerOK, serverVars, history, Hidden, Versions
<1>3. MirrorStep
  BY <1>1, <1>2, DevIn DEF MirrorStep, DeviceOK
<1>4. KnownStep /\ RunStep /\ late' \subseteq Calls
  BY <1>1, AbortRun DEF KnownStep, DeviceOK
<1> QED BY <1>1, <1>3, <1>4, LocalStep DEF history

\* Every answer of the cloud is one of the answers a run can hold.
LEMMA ReplyFacts ==
    ASSUME NEW op, op.kind \in Kinds
    PROVE  /\ Reply(op) \in Replies
           /\ op.kind = "create" => Reply(op) # "revision-conflict"
<1>1. CASE op.kind = "create"
  BY <1>1 DEF Reply, Replies, CreateReply, EpochRefusal
<1>2. CASE op.kind = "patch"
  BY <1>2 DEF Reply, Replies, PatchReply, EpochRefusal
<1>3. CASE op.kind = "delete"
  BY <1>3 DEF Reply, Replies, DeleteReply, EpochRefusal
<1>4. CASE op.kind = "review"
  BY <1>4 DEF Reply, Replies, ReviewReply, EpochRefusal
<1> QED BY <1>1, <1>2, <1>3, <1>4 DEF Kinds

\* A call that is tried again on the card's revision is a call; creates never
\* are.
LEMMA RebasedCall ==
    ASSUME SyncInv, NEW call \in Calls, Retried(call)
    PROVE  Rebased(call) \in Calls
<1> DEFINE b == card[call.op.card].rev
           n == call.try + 1
           r == [call EXCEPT !.base = b, !.try = n]
<1>1. Asked(Request(call)) /\ Request(call).kind = call.op.kind
  BY RequestFacts DEF SyncInv, CloudInv
<1>2. call.op.kind # "create"
  <2>1. Request(call).kind \in Kinds
    BY <1>1 DEF Asked, Operation
  <2> QED BY <1>1, <2>1, ReplyFacts DEF Retried
<1>3. call.op \in Copies /\ call.op.card \in Cards
  BY DEF Calls, Copies, Operation
<1>4. b \in Nat /\ n \in Nat
  BY <1>3 DEF SyncInv, CloudInv, ServerOK, Document, Calls
<1>5. Rebased(call) = r
  BY DEF Rebased
<1> HIDE DEF b, n
<1>6. /\ r \in [op : Copies, base : Nat, try : Nat, alive : BOOLEAN]
      /\ r.op = call.op
  BY <1>4 DEF Calls
<1> HIDE DEF r
<1>7. r \in Calls
  BY <1>2, <1>6 DEF Calls
<1> QED BY <1>5, <1>7

\* A run with another call in it is a run.
LEMMA CallField ==
    ASSUME NEW x \in Runs, NEW c \in Calls
    PROVE  LET r == [x EXCEPT !.call = c]
           IN  /\ r \in Runs /\ r.call = c /\ r.pc = x.pc
               /\ r.flushed = x.flushed /\ r.acking = x.acking
BY DEF Runs

\* Serve executes the run's call, or rebases it; a review that is answered as
\* done is written.
LEMMA ServeInv ==
    ASSUME SyncInv, NEW t \in Tabs, Serve(t) PROVE SyncInv'
<1> DEFINE x == run[t]
           call == x.call
<1> PICK op : op = Request(call)
  OBVIOUS
<1>1. /\ UNCHANGED <<queue, view, refresh, known, late, ops, decided, merged, cleared,
                     rewarded>>
      /\ x.pc = "wait"
  BY DEF Serve, mirrorVars
<1>2. x \in Runs /\ call \in Calls /\ Sound(x)
  BY <1>1, GotFacts DEF SyncInv, ClientInv, RunsOK
<1>3. CASE Retried(call)
  <2> DEFINE c == Rebased(call)
             r == [x EXCEPT !.call = c]
  <2>1. UNCHANGED <<serverVars, writes>> /\ run' = [run EXCEPT ![t].call = c]
    BY <1>3 DEF Serve
  <2>2. c \in Calls
    BY <1>2, <1>3, RebasedCall
  <2>3. run' = [run EXCEPT ![t] = r]
    BY <2>1 DEF SyncInv, ClientInv, RunsOK
  <2> HIDE DEF c, x
  <2>4. /\ r \in Runs /\ r.call = c /\ r.pc = x.pc
        /\ r.flushed = x.flushed /\ r.acking = x.acking
    BY <1>2, <2>2, CallField
  <2> HIDE DEF r
  <2>5. UNCHANGED <<epoch, ops, decided>>
    BY <1>1, <2>1 DEF serverVars
  <2>6. \A o \in r.flushed \cup r.acking :
           o \in run[t].flushed \cup run[t].acking \/ o.id \in decided'
    BY <2>4 DEF x
  <2>7. RunStep
    BY <1>1, <2>2, <2>3, <2>4, <2>5, <2>6, MoveRun
  <2>8. KnownStep /\ MirrorStep /\ late' \subseteq Calls
    BY <1>1 DEF KnownStep, MirrorStep, SyncInv, ClientInv, DeviceOK
  <2> QED BY <1>1, <2>1, <2>7, <2>8, LocalStep
<1>4. CASE ~Retried(call)
  <2> DEFINE p == "got"
             e == Answer(call)
             n == AnsweredRev(op)
             r == [x EXCEPT !.pc = p, !.reply = e, !.rev = n]
  <2>1. /\ Execute(op)
        /\ run' = [run EXCEPT ![t].pc = p, ![t].reply = e, ![t].rev = n]
    BY <1>4 DEF Serve
  <2>2. run' = [run EXCEPT ![t] = r]
    BY <2>1 DEF SyncInv, ClientInv, RunsOK
  <2>3. /\ Asked(op) /\ op.id = call.op.id /\ op.kind = call.op.kind
    BY <1>2, RequestFacts DEF SyncInv, CloudInv
  <2>4. /\ CloudInv' /\ epoch' = epoch
        /\ \A i : Written(i) => Written(i)'
    BY <1>1, <2>1, <2>3, ExecuteInv DEF SyncInv
  <2>5. n \in Nat
    BY <2>3, <2>4, AnswerFacts DEF SyncInv
  <2>6. e \in Replies
    <3>1. op.kind \in Kinds
      BY <2>3 DEF Asked, Operation
    <3>2. Reply(op) \in Replies /\ "stale-review" \in Replies
      BY <3>1, ReplyFacts DEF Replies
    <3> QED BY <3>2 DEF Answer
  <2>7. op.kind = "review" /\ e \in {"applied", "duplicate"} => Written(op.id)'
    <3> HAVE op.kind = "review" /\ e \in {"applied", "duplicate"}
    <3>1. Reply(op) \in {"applied", "duplicate"}
      BY DEF Answer
    <3> QED BY <1>1, <2>1, <2>3, <3>1, DoneIsWritten DEF SyncInv
  <2>8. p \in Stages
    BY DEF Stages
  <2> HIDE DEF e, n, x, p
  <2>9. r \in Runs
    BY <1>2, <2>5, <2>6, <2>8, AnswerFields
  <2>10. /\ r.pc = p /\ r.reply = e /\ r.call = x.call
         /\ r.flushed = x.flushed /\ r.acking = x.acking
    BY <1>2 DEF Runs
  <2> HIDE DEF r
  <2>11. /\ Grows /\ Runs' = Runs /\ Calls' = Calls /\ Now' = Now
    BY <1>1, <2>4, StillGrows DEF SyncInv, CloudInv
  <2>12. PICK y : y = r
    OBVIOUS
  <2>13. Sound(y)'
    <3>1. y \in Runs' /\ y.call \in Calls'
      BY <1>2, <2>9, <2>10, <2>11, <2>12
    <3>2. y.call.op.kind = "review" /\ y.reply \in {"applied", "duplicate"}
             => Written(y.call.op.id)'
      BY <2>3, <2>7, <2>10, <2>12
    <3>3. \A o \in y.flushed \cup y.acking : o.id \in decided'
      BY <1>1, <1>2, <2>10, <2>12 DEF Sound
    <3> QED BY <3>1, <3>2, <3>3 DEF Sound
  <2>14. RunStep
    BY <2>2, <2>12, <2>13 DEF RunStep
  <2>15. HistoryStep
    BY <1>1, <2>4, <2>11 DEF HistoryStep
  <2>16. QueueStep /\ KnownStep /\ MirrorStep /\ late' \subseteq Calls'
    BY <1>1, <2>11
       DEF QueueStep, KnownStep, MirrorStep, SyncInv, ClientInv, DeviceOK
  <2>17. ClientInv'
    BY <2>11, <2>14, <2>15, <2>16, ClientStep DEF SyncInv, CloudInv
  <2> QED BY <2>4, <2>17 DEF SyncInv
<1> QED BY <1>3, <1>4

\* A late call is executed like any other, whoever sent it.
LEMMA LateServeInv ==
    ASSUME SyncInv, NEW call \in late, LateServe(call) PROVE SyncInv'
<1> DEFINE op == Request(call)
<1>1. UNCHANGED <<queue, view, refresh, known, run, ops, decided, merged, cleared, rewarded>>
  BY DEF LateServe, mirrorVars
<1>2. call \in Calls /\ late \subseteq Calls
  BY DEF SyncInv, ClientInv, DeviceOK
<1>3. CASE Retried(call) /\ call.alive
  <2>1. /\ UNCHANGED <<serverVars, writes>>
        /\ late' = (late \ {call}) \cup {Rebased(call)}
    BY <1>3 DEF LateServe
  <2>2. late' \subseteq Calls
    BY <1>2, <1>3, <2>1, RebasedCall
  <2>3. KnownStep /\ MirrorStep /\ RunStep
    BY <1>1 DEF KnownStep, MirrorStep, RunStep
  <2> QED BY <1>1, <2>1, <2>2, <2>3, LocalStep
<1>4. CASE ~(Retried(call) /\ call.alive)
  <2>1. Execute(op) /\ late' \subseteq late
    BY <1>4 DEF LateServe
  <2>2. Asked(op)
    BY <1>2, RequestFacts DEF SyncInv, CloudInv
  <2>3. CloudInv' /\ epoch' = epoch /\ \A i : Written(i) => Written(i)'
    BY <1>1, <2>1, <2>2, ExecuteInv DEF SyncInv
  <2>4. Grows /\ Calls' = Calls /\ Now' = Now
    BY <1>1, <2>3, StillGrows DEF SyncInv, CloudInv
  <2>5. HistoryStep
    BY <1>1, <2>3, <2>4 DEF HistoryStep
  <2>6. /\ QueueStep /\ KnownStep /\ MirrorStep /\ RunStep
        /\ late' \subseteq Calls'
    BY <1>1, <1>2, <2>1, <2>4 DEF QueueStep, KnownStep, MirrorStep, RunStep
  <2>7. ClientInv'
    BY <2>4, <2>5, <2>6, ClientStep DEF SyncInv, CloudInv
  <2> QED BY <2>3, <2>7 DEF SyncInv
<1> QED BY <1>3, <1>4

-----------------------------------------------------------------------------
(* Staging, flushing and acknowledging.                                    *)

\* AppliedOnce, of writes w and a log o.
OnceIn(w, o) ==
    \A i, j \in DOMAIN w : i < j /\ w[i] = w[j] =>
        \/ o[w[i]].kind = "patch"
        \/ o[w[i]].kind # "review" /\ o[w[i]].epoch = Unverified
        \/ o[w[i]].kind = "delete" /\ \E k \in DOMAIN w :
              /\ i < k /\ k < j
              /\ o[w[k]].kind = "delete"
              /\ o[w[k]].card = o[w[i]].card

\* It is AppliedOnce of the two histories, before and after a step.
LEMMA OnceInWrites ==
    /\ AppliedOnce <=> OnceIn(writes, ops)
    /\ AppliedOnce' <=> OnceIn(writes', ops')
<1>1. AppliedOnce <=> OnceIn(writes, ops)
  BY Zenon DEF AppliedOnce, OnceIn, Kind
<1>2. AppliedOnce' <=> OnceIn(writes', ops')
  BY Zenon DEF AppliedOnce, OnceIn, Kind
<1> QED BY <1>1, <1>2

\* A log that says the same of what was written excuses the same.
LEMMA OnceInLonger ==
    ASSUME NEW w, NEW o, NEW p, OnceIn(w, o),
           \A k \in DOMAIN w : p[w[k]] = o[w[k]]
    PROVE  OnceIn(w, p)
<1> SUFFICES ASSUME NEW i \in DOMAIN w, NEW j \in DOMAIN w, i < j, w[i] = w[j]
             PROVE  \/ p[w[i]].kind = "patch"
                    \/ p[w[i]].kind # "review" /\ p[w[i]].epoch = Unverified
                    \/ p[w[i]].kind = "delete" /\ \E k \in DOMAIN w :
                          /\ i < k /\ k < j
                          /\ p[w[k]].kind = "delete"
                          /\ p[w[k]].card = p[w[i]].card
  BY DEF OnceIn
<1>1. \/ o[w[i]].kind = "patch"
      \/ o[w[i]].kind # "review" /\ o[w[i]].epoch = Unverified
      \/ o[w[i]].kind = "delete" /\ \E k \in DOMAIN w :
            /\ i < k /\ k < j
            /\ o[w[k]].kind = "delete"
            /\ o[w[k]].card = o[w[i]].card
  BY DEF OnceIn
<1> QED BY <1>1

\* One more operation in the log changes nothing the cloud did.
LEMMA CloudGrows ==
    ASSUME ServerOK, StagedOK, WritesOK, ReceiptsOK, CreatesOK, DeletesOK,
           AppliedOnce, UNCHANGED <<serverVars, writes>>,
           NEW op \in Operation, ops' = Append(ops, op), StagedOK'
    PROVE  CloudInv'
<1>1. UNCHANGED <<epoch, card, tomb, receipt, writes>>
  BY DEF serverVars
<1>2. /\ Now \in Nat /\ Now' = Now + 1
      /\ \A i \in 1 .. Now : ops'[i] = ops[i]
  <2>1. ops \in Seq(Operation) /\ Now \in Nat
    BY StagedFacts DEF StagedOK
  <2> QED BY <2>1, AppendProperties DEF Now
<1>3. \A k \in DOMAIN writes : writes[k] \in 1 .. Now
  <2>1. writes \in Seq(1 .. Now)
    BY DEF WritesOK
  <2> QED BY <2>1, LenProperties, ElementOfSeq
<1>4. \A i : /\ Written(i)' <=> Written(i)
             /\ Written(i) => i \in 1 .. Now
  BY <1>1, <1>3 DEF Written, Ops
<1>5. ServerOK'
  BY <1>1 DEF ServerOK
<1>6. WritesOK'
  <2>1. \A i \in 1 .. Now : i \in 1 .. Now'
    BY <1>2
  <2>2. Len(writes) \in Nat /\ writes \in [1 .. Len(writes) -> 1 .. Now]
    BY LenProperties DEF WritesOK
  <2>3. writes \in [1 .. Len(writes) -> 1 .. Now']
    BY <2>1, <2>2
  <2>4. writes \in Seq(1 .. Now')
    BY <2>2, <2>3, SeqDef
  <2> QED BY <1>1, <2>4 DEF WritesOK
<1>7. ReceiptsOK'
  <2>1. \A r \in receipt' : Written(r.op)'
    BY <1>1, <1>4 DEF ReceiptsOK
  <2>2. ASSUME NEW i \in 1 .. Now', Written(i)', ops'[i].kind = "review"
        PROVE  \E r \in receipt' : r.op = i /\ r.card = ops'[i].card
    <3>1. i \in 1 .. Now /\ Written(i) /\ ops'[i] = ops[i]
      BY <1>2, <1>4, <2>2
    <3> QED BY <1>1, <2>2, <3>1 DEF ReceiptsOK, Kind
  <2> QED BY <2>1, <2>2 DEF ReceiptsOK, Kind
<1>8. \A b : (Live(b)' <=> Live(b)) /\ (CurrentTombstone(b)' <=> CurrentTombstone(b))
  BY <1>1 DEF Live, CurrentTombstone, Present
<1>9. CreatesOK'
  <2> SUFFICES ASSUME NEW i \in 1 .. Now', NEW b, b = ops'[i].card,
                      Written(i)', ops'[i].kind = "create",
                      ops'[i].epoch # Unverified
               PROVE  \/ ops'[i].epoch < epoch'
                      \/ Live(b)'
                      \/ CurrentTombstone(b)' /\ tomb'[b].at >= i
    BY DEF CreatesOK, Kind
  <2>1. Written(i) /\ i \in 1 .. Now /\ ops'[i] = ops[i]
    BY <1>2, <1>4
  <2>2. \/ ops[i].epoch < epoch
        \/ Live(b)
        \/ CurrentTombstone(b) /\ tomb[b].at >= i
    BY <2>1 DEF CreatesOK, Kind
  <2> QED BY <1>1, <1>8, <2>1, <2>2
<1>10. /\ DOMAIN writes' = DOMAIN writes
       /\ \A k \in DOMAIN writes : /\ writes'[k] = writes[k]
                                    /\ ops'[writes'[k]] = ops[writes[k]]
  BY <1>1, <1>2, <1>3
<1>11. DeletesOK'
  <2> SUFFICES ASSUME NEW k \in DOMAIN writes,
                      ops'[writes'[k]].kind = "delete",
                      ops'[writes'[k]].epoch # Unverified,
                      \A m \in DOMAIN writes : k < m =>
                         ~(/\ ops'[writes'[m]].kind = "delete"
                           /\ ops'[writes'[m]].card = ops'[writes'[k]].card)
               PROVE  \/ ops'[writes'[k]].epoch < epoch'
                      \/ /\ CurrentTombstone(ops[writes[k]].card)'
                         /\ tomb'[ops'[writes'[k]].card].op = writes'[k]
    BY <1>10 DEF DeletesOK, DeleteOf, Kind
  <2> PICK b : b = ops[writes[k]].card
    OBVIOUS
  <2> SUFFICES \/ ops[writes[k]].epoch < epoch
               \/ CurrentTombstone(b)' /\ tomb'[b].op = writes[k]
    BY <1>1, <1>10
  <2>1. \A m \in DOMAIN writes : k < m => ~DeleteOf(writes[m], b)
    BY <1>10 DEF DeleteOf, Kind
  <2>2. ops[writes[k]].kind = "delete" /\ ops[writes[k]].epoch # Unverified
    BY <1>10
  <2>3. \/ ops[writes[k]].epoch < epoch
        \/ CurrentTombstone(b) /\ tomb[b].op = writes[k]
    BY <2>1, <2>2 DEF DeletesOK, Kind
  <2> QED BY <1>1, <1>8, <2>3
<1>12. AppliedOnce'
  <2> PICK w, o, p : w = writes /\ o = ops /\ p = ops'
    OBVIOUS
  <2>1. OnceIn(w, o)
    BY OnceInWrites
  <2>2. \A k \in DOMAIN w : p[w[k]] = o[w[k]]
    BY <1>1, <1>10
  <2>3. OnceIn(w, p)
    BY ONLY <2>1, <2>2, OnceInLonger
  <2> QED BY <1>1, <2>3, OnceInWrites
<1> QED BY <1>5, <1>6, <1>7, <1>9, <1>11, <1>12 DEF CloudInv

\* What has been staged, as the record it is.
LEMMA NewOpFacts ==
    ASSUME SyncInv, NEW t \in Tabs, NEW s \in Staged[t], NEW c \in Cards
    PROVE  LET op == NewOp(t, s, c)
           IN  /\ op \in Operation
               /\ op.id = Now + 1 /\ op.at = Now + 1 /\ op.epoch <= epoch
               /\ op.kind = "create" => op.base = 0
               /\ \A f \in Fields : op.val[f] = op.id
<1>1. s.kind \in Kinds /\ s.mask \in SUBSET Fields
  BY StagedAssumption
<1>2. /\ Now \in Nat /\ epoch \in Nat
      /\ known[t] \in Int /\ known[t] <= epoch
      /\ view[Dev(t)][c] \in Versions
  BY StagedFacts, DevIn DEF SyncInv, CloudInv, ClientInv, ServerOK, DeviceOK
<1> DEFINE b == StagedBase(t, s.kind, c)
           e == StagedEpoch(t, s.kind, c)
           n == Now + 1
           v == [f \in Fields |-> n]
           r == [kind |-> s.kind, card |-> c, id |-> n, at |-> n, base |-> b,
                 epoch |-> e, mask |-> s.mask, val |-> v, last |-> 0]
<1>3. b \in Nat /\ (s.kind = "create" => b = 0)
  BY <1>2 DEF StagedBase, Versions
<1>4. e \in Int /\ e <= epoch
  BY <1>2 DEF StagedEpoch, Unverified, Versions
<1>5. n \in Nat /\ v \in [Fields -> Content]
  BY <1>2 DEF Content
<1>6. NewOp(t, s, c) = r
  BY DEF NewOp
<1> HIDE DEF b, e, n
<1>7. r \in Operation
  BY <1>1, <1>3, <1>4, <1>5 DEF Operation
<1>8. r.id = n /\ r.at = n /\ r.epoch = e /\ r.base = b /\ r.kind = s.kind
      /\ \A f \in Fields : r.val[f] = n
  BY DEF v
<1> HIDE DEF r
<1> QED BY <1>3, <1>4, <1>6, <1>7, <1>8 DEF n

\* What a merge of copies takes up, some copy in it takes up.
MergesWell ==
    \A q \in Seq(Copies) :
        /\ Merge(q) \in Seq(Copies)
        /\ IdsIn(q) \subseteq 1 .. Now
        /\ \A i \in TakenUp(q) : \E j \in 1 .. Now : TakesUp(j, i)

\* A merge of copies takes up only what another operation in it may take up.
LEMMA TakenUpFacts == StagedOK => MergesWell
<1> SUFFICES ASSUME StagedOK, NEW q \in Seq(Copies)
             PROVE  /\ Merge(q) \in Seq(Copies)
                    /\ IdsIn(q) \subseteq 1 .. Now
                    /\ \A i \in TakenUp(q) : \E j \in 1 .. Now : TakesUp(j, i)
  BY DEF MergesWell
<1>1. \A x \in Ops(q) : x \in Copies /\ x.id \in 1 .. Now
  BY OpsIn DEF Copies
<1>2. ASSUME NEW i \in IdsIn(q) PROVE \E x \in Ops(q) : x.id = i
  BY IdsOfOps DEF HasId
<1>3. ASSUME NEW i \in TakenUp(q) PROVE \E j \in 1 .. Now : TakesUp(j, i)
  <2>1. PICK x \in Ops(q) : x.id = i
    BY <1>2 DEF TakenUp
  <2>2. PICK z \in Ops(q) : Takes(z, x)
    BY <2>1, MergeOfCopies
  <2>3. TakesUp(z.id, x.id)
    BY <1>1, <2>2, TakesIsTakesUp
  <2> QED BY <1>1, <2>1, <2>3
<1> QED BY <1>1, <1>2, <1>3, MergeOfCopies

\* Appending to a queue adds the id of the new operation to its ids.
LEMMA IdsOfAppend ==
    ASSUME NEW S, NEW q \in Seq(S), NEW op \in S
    PROVE  IdsIn(Append(q, op)) = IdsIn(q) \cup {op.id}
<1>1. /\ Len(q) \in Nat /\ DOMAIN q = 1 .. Len(q)
      /\ DOMAIN Append(q, op) = 1 .. Len(q) + 1
      /\ \A k \in 1 .. Len(q) : Append(q, op)[k] = q[k]
      /\ Append(q, op)[Len(q) + 1] = op
  BY LenProperties, AppendProperties
<1> QED BY <1>1 DEF IdsIn

\* Stage logs one more operation and leaves it in its device's queue, or another
\* that takes it up.
LEMMA StageInv ==
    ASSUME SyncInv, NEW t \in Tabs, NEW s \in Staged[t], NEW c \in Cards,
           Stage(t, s, c)
    PROVE  SyncInv'
<1> USE DEF SyncInv
<1> PICK d : d = Dev(t)
  OBVIOUS
<1> PICK op : op = NewOp(t, s, c)
  OBVIOUS
<1>1. /\ d \in Devices
      /\ op \in Operation /\ op.id = Now + 1 /\ op.at = Now + 1
      /\ op.epoch <= epoch /\ (op.kind = "create" => op.base = 0)
      /\ \A f \in Fields : op.val[f] = op.id
  BY NewOpFacts, DevIn
<1>2. /\ UNCHANGED <<serverVars, known, late, writes, decided, cleared, rewarded>>
      /\ ops' = Append(ops, op)
      /\ queue' = [queue EXCEPT ![d] = Merge(Append(@, op))]
      /\ merged' = merged \cup TakenUp(Append(queue[d], op))
      /\ \E w : SeeCard(d, c, Intended(t, s.kind, view[d][c]), w)
      /\ \/ run' = run
         \/ run' = [run EXCEPT ![t] = [Idle EXCEPT !.pc = "direct",
                                                   !.direct = TRUE,
                                                   !.todo = <<op>>]]
  BY DEF Stage
<1>3. UNCHANGED <<epoch, card, tomb, receipt>>
  BY <1>2 DEF serverVars
<1>4. /\ Now \in Nat /\ Now' = Now + 1 /\ ops' \in Seq(Operation)
      /\ \A i \in 1 .. Now : ops'[i] = ops[i]
      /\ ops'[Now + 1] = op
  <2>1. ops \in Seq(Operation) /\ Now \in Nat
    BY StagedFacts DEF StagedOK, CloudInv
  <2> QED BY <1>1, <1>2, <2>1, AppendProperties DEF Now
<1>5. StagedOK'
  <2>1. ASSUME NEW i \in 1 .. Now'
        PROVE  /\ ops'[i].id = i
               /\ ops'[i].at = i
               /\ ops'[i].kind = "create" => ops'[i].base = 0
               /\ ops'[i].epoch <= epoch
               /\ i <= cleared => ops'[i].epoch < epoch
    <3>1. CASE i \in 1 .. Now
      BY <1>4, <3>1 DEF StagedOK, CloudInv
    <3>2. CASE i = Now + 1
      BY <1>1, <1>4, <3>2 DEF StagedOK, CloudInv
    <3> QED BY <1>4, <3>1, <3>2
  <2>2. cleared \in 0 .. Now'
    BY <1>4 DEF StagedOK, CloudInv
  <2> QED BY <1>2, <1>3, <1>4, <2>1, <2>2 DEF StagedOK
<1>6. CloudInv'
  BY <1>1, <1>2, <1>5, CloudGrows DEF CloudInv
<1>7. Grows
  BY <1>3, <1>4 DEF Grows, CloudInv, ServerOK
<1>8. op \in Copies'
  BY <1>1, <1>3, <1>4 DEF Copies, OwnOrFolded, StagedOK, CloudInv
<1> PICK q : q = Append(queue[d], op)
  OBVIOUS
<1>9. /\ q \in Seq(Copies') /\ queue[d] \in Seq(Copies')
      /\ IdsIn(q) = IdsIn(queue[d]) \cup {op.id}
  <2>1. queue[d] \in Seq(Copies')
    BY <1>1, <1>7, Growth DEF CloudInv, ClientInv, DeviceOK
  <2> QED BY <1>8, <2>1, AppendProperties, IdsOfAppend
<1>10. /\ Merge(q) \in Seq(Copies')
       /\ \A i \in TakenUp(q) : \E j \in 1 .. Now' : TakesUp(j, i)'
  <2>1. (StagedOK => MergesWell)'
    BY TakenUpFacts, PTL
  <2>2. MergesWell'
    BY <1>5, <2>1
  <2> QED BY <1>9, <2>2 DEF MergesWell
<1>11. \A i \in IdsIn(q) : i \in IdsIn(Merge(q)) \/ Left(i)'
  BY <1>2, <1>10 DEF TakenUp, Left
<1>12. QueueStep
  BY <1>1, <1>2, <1>9, <1>10, <1>11 DEF QueueStep
<1>13. HistoryStep
  <2>1. \A i : Written(i) => Written(i)'
    BY <1>2 DEF Written, Ops
  <2>2. \A i \in 1 .. Now' : i \in 1 .. Now \/ Queued(i)' \/ Left(i)'
    <3> PICK i : i = Now + 1
      OBVIOUS
    <3> SUFFICES Queued(i)' \/ Left(i)'
      BY <1>4
    <3>1. queue'[d] = Merge(q)
      BY <1>1, <1>2 DEF ClientInv, DeviceOK
    <3>2. i \in IdsIn(Merge(q)) \/ Left(i)'
      BY <1>1, <1>9, <1>11
    <3> QED BY <1>1, <3>1, <3>2 DEF Queued
  <2> QED BY <1>2, <2>1, <2>2 DEF HistoryStep
<1>14. MirrorStep
  <2> DEFINE v == Intended(t, s.kind, view[d][c])
  <2>1. /\ view \in [Devices -> [Cards -> Versions]]
        /\ known[t] \in Int /\ known[t] <= epoch /\ epoch \in Nat
    BY DEF ClientInv, CloudInv, DeviceOK, ServerOK
  <2>2. v \in Versions
    <3>1. view[d][c] \in Versions
      BY <1>1, <2>1
    <3> QED BY <2>1, <3>1 DEF Intended, Shown, Hidden, Versions
  <2>3. Versions' = Versions
    BY <1>3 DEF Versions
  <2> HIDE DEF v
  <2> QED BY <1>1, <1>2, <2>1, <2>2, <2>3 DEF SeeCard, MirrorStep, v
<1>15. RunStep
  <2>1. CASE run' = run
    BY <2>1 DEF RunStep
  <2>2. CASE run' = [run EXCEPT ![t] = [Idle EXCEPT !.pc = "direct",
                                                   !.direct = TRUE,
                                                   !.todo = <<op>>]]
    <3> DEFINE p == "direct"
               o == <<op>>
    <3> PICK x : x = Idle
      OBVIOUS
    <3> PICK y : y = [x EXCEPT !.pc = p, !.direct = TRUE, !.todo = o]
      OBVIOUS
    <3>1. run' = [run EXCEPT ![t] = y]
      BY <2>2
    <3>2. p \in Stages /\ p \notin {"wait", "got"} /\ o \in Seq(Copies')
      BY <1>8 DEF Stages
    <3>3. x \in Runs' /\ x.flushed = {} /\ x.acking = {}
      <4>1. Sound(Idle)
        BY IdleSound
      <4>2. x \in Runs
        BY <4>1 DEF Sound
      <4> QED BY <1>7, <4>2, Growth DEF Idle, CloudInv
    <3> HIDE DEF p, o
    <3>4. y \in Runs' /\ y.pc = p /\ y.flushed = {} /\ y.acking = {}
      <4>1. x \in RunsOf(Copies', Calls' \cup {NoCall'})
        BY <3>3 DEF Runs, RunsOf
      <4>2. y \in RunsOf(Copies', Calls' \cup {NoCall'})
        BY <3>2, <4>1, DirectFields
      <4> QED BY <3>2, <3>3, <4>1, <4>2, DirectFields DEF Runs, RunsOf
    <3>5. Sound(y)'
      BY <3>2, <3>4 DEF Sound
    <3> QED BY <3>1, <3>5 DEF RunStep
  <2> QED BY <1>2, <2>1, <2>2
<1>16. KnownStep /\ late' \subseteq Calls'
  BY <1>2, <1>7, Growth DEF KnownStep, CloudInv, ClientInv, DeviceOK
<1>17. ClientInv'
  BY <1>7, <1>12, <1>13, <1>14, <1>15, <1>16, ClientStep DEF CloudInv
<1> QED BY <1>6, <1>17

\* The flush starts from copies, whatever generation it binds them to.
LEMMA StartFlushInv ==
    ASSUME SyncInv, NEW t \in Tabs, StartFlush(t) PROVE SyncInv'
<1> USE DEF SyncInv
<1> PICK d : d = Dev(t)
  OBVIOUS
<1> PICK q : q = Merge(queue[d])
  OBVIOUS
<1> PICK e : e = IF FutureIn(q, known[t]) = <<>> THEN known[t] ELSE epoch
  OBVIOUS
<1> PICK stale : stale = StaleIn(q, e)
  OBVIOUS
<1> PICK o : o = FlushOrder(CurrentIn(q, e))
  OBVIOUS
<1>1. d \in Devices
  BY DevIn
<1>2. /\ UNCHANGED <<serverVars, refresh, ops, writes, cleared, rewarded, late>>
      /\ known' = [known EXCEPT ![t] = e]
      /\ queue' = [queue EXCEPT ![d] = q]
      /\ view' = [view EXCEPT ![d] = [c \in Cards |->
                      IF CommandsOn(stale, c) # <<>>
                      THEN DropOlder(view[d][c], e) ELSE view[d][c]]]
      /\ run' = [run EXCEPT ![t] =
                     [Idle EXCEPT !.pc = IF stale = <<>> THEN "run" ELSE "ack",
                                  !.acking = ToSet(stale),
                                  !.todo = o]]
      /\ decided' = decided \cup IdsIn(stale)
      /\ merged' = merged \cup TakenUp(queue[d])
  BY Zenon DEF StartFlush, mirrorVars
<1>3. UNCHANGED epoch
  BY <1>2 DEF serverVars
<1>4. CloudInv'
  BY <1>2, CloudUnchanged
<1>5. /\ Grows /\ Copies' = Copies /\ Calls' = Calls /\ Runs' = Runs
      /\ Versions' = Versions /\ Now' = Now
      /\ \A i, j : TakesUp(j, i) => TakesUp(j, i)'
  BY <1>2, <1>3, StillGrows DEF CloudInv
<1>6. e \in Int /\ e <= epoch
  BY DEF CloudInv, ClientInv, ServerOK, DeviceOK
<1>7. queue[d] \in Seq(Copies)
  BY <1>1 DEF ClientInv, DeviceOK
<1>8. /\ q \in Seq(Copies)
      /\ \A i \in TakenUp(queue[d]) : \E j \in 1 .. Now : TakesUp(j, i)
  BY <1>7, TakenUpFacts DEF MergesWell, CloudInv
<1>9. /\ stale \in Seq(Copies) /\ Ops(stale) \subseteq Copies
      /\ o \in Seq(Copies)
  BY <1>6, <1>8, FlushFacts
<1>10. \A i \in IdsIn(queue[d]) : i \in IdsIn(q) \/ Left(i)'
  BY <1>2, <1>5, <1>8 DEF TakenUp, Left
<1>11. QueueStep
  BY <1>1, <1>2, <1>5, <1>8, <1>10 DEF QueueStep
<1>12. HistoryStep
  BY <1>2, <1>5 DEF HistoryStep, Written, Ops
<1>13. MirrorStep
  <2>1. /\ view \in [Devices -> [Cards -> Versions]] /\ Hidden \in Versions
    <3>1. 0 <= epoch
      BY DEF CloudInv, ServerOK
    <3> QED BY <3>1 DEF ClientInv, DeviceOK, Hidden, Versions
  <2>2. \A v \in Versions : DropOlder(v, e) \in Versions
    BY <2>1 DEF DropOlder
  <2> QED BY <1>1, <1>2, <1>5, <2>1, <2>2 DEF MirrorStep
<1>14. RunStep
  <2> PICK p : p = IF stale = <<>> THEN "run" ELSE "ack"
    OBVIOUS
  <2> PICK A : A = ToSet(stale)
    OBVIOUS
  <2> PICK x : x = Idle
    OBVIOUS
  <2> PICK y : y = [x EXCEPT !.pc = p, !.acking = A, !.todo = o]
    OBVIOUS
  <2>0. y = [x EXCEPT !.pc = p, !.acking = A, !.todo = o]
    OBVIOUS
  <2>1. run' = [run EXCEPT ![t] = y]
    BY <1>2
  <2>2. p \in Stages /\ p \notin {"wait", "got"}
    BY DEF Stages
  <2>3. A \in SUBSET Copies /\ \A z \in A : z.id \in decided'
    <3>1. A = Ops(stale)
      BY DEF ToSet, Ops
    <3>2. \A z \in Ops(stale) : z.id \in IdsIn(stale)
      BY IdsOfOps DEF HasId
    <3> QED BY <1>2, <1>9, <3>1, <3>2
  <2>4. x \in Runs /\ x.flushed = {}
    <3>1. Sound(Idle)
      BY IdleSound
    <3> QED BY <3>1 DEF Sound, Idle
  <2>5. y \in Runs /\ y.pc = p /\ y.flushed = {} /\ y.acking = A
    BY <1>9, <2>0, <2>2, <2>3, <2>4, Zenon DEF Runs
  <2>6. Sound(y)'
    BY <1>5, <2>2, <2>3, <2>5 DEF Sound
  <2> QED BY <2>1, <2>6 DEF RunStep
<1>15. KnownStep /\ late' \subseteq Calls'
  BY <1>2, <1>3, <1>5, <1>6 DEF KnownStep, ClientInv, DeviceOK
<1>16. ClientInv'
  BY <1>5, <1>11, <1>12, <1>13, <1>14, <1>15, ClientStep DEF CloudInv
<1> QED BY <1>4, <1>16

\* An acknowledgement takes from the queue as it is now, not as it was loaded,
\* only what was answered for good and what a merge takes up.
LEMMA AckInv ==
    ASSUME SyncInv, NEW t \in Tabs, Ack(t) PROVE SyncInv'
<1> USE DEF SyncInv
<1> PICK d : d = Dev(t)
  OBVIOUS
<1> PICK x : x = run[t]
  OBVIOUS
<1> PICK q : q = Acknowledged(queue[d], x.acking)
  OBVIOUS
<1>1. d \in Devices
  BY DevIn
<1>2. /\ UNCHANGED <<serverVars, view, refresh, known, late, ops, writes, decided, cleared,
                     rewarded>>
      /\ queue' = [queue EXCEPT ![d] = Acknowledged(@, x.acking)]
      /\ run' = [run EXCEPT ![t].pc = "load", ![t].acking = {}]
      /\ merged' = merged \cup TakenUp(queue[d])
  BY DEF Ack, mirrorVars
<1>3. UNCHANGED epoch
  BY <1>2 DEF serverVars
<1>4. CloudInv'
  BY <1>2, CloudUnchanged
<1>5. /\ Grows /\ Copies' = Copies /\ Calls' = Calls /\ Now' = Now
      /\ \A i, j : TakesUp(j, i) => TakesUp(j, i)'
  BY <1>2, <1>3, StillGrows DEF CloudInv
<1>6. /\ x \in Runs /\ Sound(x)
      /\ queue \in [Devices -> Seq(Copies)] /\ queue[d] \in Seq(Copies)
  BY <1>1 DEF ClientInv, DeviceOK, RunsOK
<1>7. \A i \in TakenUp(queue[d]) : \E j \in 1 .. Now : TakesUp(j, i)
  BY <1>6, TakenUpFacts DEF MergesWell, CloudInv
<1>8. /\ q \in Seq(Copies)
      /\ \A i \in IdsIn(queue[d]) : \/ i \in IdsIn(q)
                                    \/ i \in TakenUp(queue[d])
                                    \/ \E o \in x.acking : o.id = i
  BY <1>6, AcknowledgedFacts
<1>9. \A i \in IdsIn(queue[d]) : i \in IdsIn(q) \/ Left(i)'
  BY <1>2, <1>5, <1>6, <1>7, <1>8 DEF Left, Sound
<1>10. queue' = [queue EXCEPT ![d] = q]
  BY <1>1, <1>2, <1>6
<1>11. QueueStep
  BY <1>1, <1>5, <1>8, <1>9, <1>10 DEF QueueStep
<1>12. HistoryStep
  BY <1>2, <1>5 DEF HistoryStep, Written, Ops
<1>13. RunStep
  <2> DEFINE p == "load"
             A == {}
             r == [x EXCEPT !.pc = p, !.acking = A]
  <2>1. run' = [run EXCEPT ![t] = r]
    BY <1>2 DEF ClientInv, RunsOK
  <2>2. p \in Stages /\ A \in SUBSET Copies /\ {} \in SUBSET Copies
    BY DEF Stages
  <2>3. r.pc = p /\ r.acking = {} /\ r.flushed = x.flushed
    BY <1>6 DEF Runs
  <2> HIDE DEF A
  <2>4. p \notin {"wait", "got"}
    OBVIOUS
  <2> HIDE DEF p
  <2>5. r \in Runs
    BY <1>6, <2>2, AckFields
  <2> HIDE DEF r
  <2> QED BY <1>2, <1>3, <2>1, <2>3, <2>4, <2>5, MoveRun
<1>14. KnownStep /\ MirrorStep /\ late' \subseteq Calls'
  BY <1>2, <1>5 DEF KnownStep, MirrorStep, ClientInv, DeviceOK
<1>15. ClientInv'
  BY <1>5, <1>11, <1>12, <1>13, <1>14, ClientStep DEF CloudInv
<1> QED BY <1>4, <1>15

\* A load merges the queue of a device: it may lose what the merge takes up.
LEMMA LoadInv ==
    ASSUME SyncInv, NEW d \in Devices, LoadPending(d), RunStep, MirrorStep,
           UNCHANGED <<serverVars, known, late, ops, writes, decided, cleared, rewarded>>
    PROVE  SyncInv'
<1> USE DEF SyncInv
<1> PICK q : q = Merge(queue[d])
  OBVIOUS
<1>1. /\ queue' = [queue EXCEPT ![d] = Merge(@)]
      /\ merged' = merged \cup TakenUp(queue[d])
  BY DEF LoadPending
<1>2. UNCHANGED epoch
  BY DEF serverVars
<1>3. CloudInv'
  BY CloudUnchanged
<1>4. /\ Grows /\ Copies' = Copies /\ Calls' = Calls /\ Now' = Now
      /\ \A i, j : TakesUp(j, i) => TakesUp(j, i)'
  BY <1>2, StillGrows DEF CloudInv
<1>5. queue \in [Devices -> Seq(Copies)] /\ queue[d] \in Seq(Copies)
  BY DEF ClientInv, DeviceOK
<1>6. /\ q \in Seq(Copies)
      /\ \A i \in TakenUp(queue[d]) : \E j \in 1 .. Now : TakesUp(j, i)
  BY <1>5, TakenUpFacts DEF MergesWell, CloudInv
<1>7. \A i \in IdsIn(queue[d]) : i \in IdsIn(q) \/ Left(i)'
  BY <1>1, <1>4, <1>6 DEF TakenUp, Left
<1>8. queue' = [queue EXCEPT ![d] = q]
  BY <1>1, <1>5
<1>9. QueueStep
  BY <1>4, <1>6, <1>7, <1>8 DEF QueueStep
<1>10. HistoryStep
  BY <1>1, <1>4 DEF HistoryStep, Written, Ops
<1>11. KnownStep /\ late' \subseteq Calls'
  BY <1>4 DEF KnownStep, ClientInv, DeviceOK
<1>12. ClientInv'
  BY <1>4, <1>9, <1>10, <1>11, ClientStep DEF CloudInv
<1> QED BY <1>3, <1>12

\* The load after an acknowledgement.
LEMMA RefreshPendingInv ==
    ASSUME SyncInv, NEW t \in Tabs, RefreshPending(t) PROVE SyncInv'
<1> PICK x : x = run[t]
  OBVIOUS
<1> DEFINE p == "run"
           r == [x EXCEPT !.pc = p]
<1>1. /\ UNCHANGED <<serverVars, view, refresh, known, late, ops, writes, decided,
                     cleared, rewarded>>
      /\ LoadPending(Dev(t))
      /\ run' = [run EXCEPT ![t].pc = p]
  BY DEF RefreshPending, mirrorVars
<1>2. x \in Runs /\ run' = [run EXCEPT ![t] = r]
  BY <1>1 DEF SyncInv, ClientInv, RunsOK
<1>3. p \in Stages /\ p \notin {"wait", "got"}
  BY DEF Stages
<1> HIDE DEF p
<1>4. /\ r \in Runs /\ r.pc = p
      /\ r.acking = x.acking /\ r.flushed = x.flushed
  BY <1>2, <1>3 DEF Runs
<1> HIDE DEF r
<1>5. UNCHANGED epoch
  BY <1>1 DEF serverVars
<1>6. RunStep
  BY <1>1, <1>2, <1>3, <1>4, <1>5, MoveRun
<1>7. MirrorStep
  BY <1>1 DEF MirrorStep
<1> QED BY <1>1, <1>6, <1>7, DevIn, LoadInv

\* The load of a refresh, whose operations it lays over the pages.
LEMMA LoadOverlayInv ==
    ASSUME SyncInv, NEW t \in Tabs, LoadOverlay(t) PROVE SyncInv'
<1> PICK r : r = refresh[t]
  OBVIOUS
<1> PICK q : q = CurrentIn(Merge(queue[Dev(t)]), r.epoch)
  OBVIOUS
<1>1. /\ UNCHANGED <<serverVars, view, known, run, late, ops, writes, decided,
                     cleared, rewarded>>
      /\ LoadPending(Dev(t))
      /\ Moves(t, [r EXCEPT !.pc = "overlay", !.todo = q])
  BY DEF LoadOverlay
<1>2. r \in Refreshes /\ r.epoch \in Int /\ r.epoch <= epoch
  BY RefreshFacts
<1>3. Merge(queue[Dev(t)]) \in Seq(Copies)
  BY DevIn, MergeOfCopies DEF SyncInv, ClientInv, DeviceOK
<1>4. q \in Seq(Operation)
  <2>1. q \in Seq(Copies)
    BY <1>2, <1>3, BoundFacts, KeepOfCopies DEF CurrentIn
  <2>2. \A x \in Copies : x \in Operation
    BY DEF Copies
  <2> QED BY <2>1, <2>2
<1>5. [r EXCEPT !.pc = "overlay", !.todo = q] \in Refreshes
  BY <1>2, <1>4 DEF Refreshes
<1>6. Refreshes' = Refreshes
  BY <1>1, StillGrows DEF SyncInv, CloudInv, serverVars
<1>7. MirrorStep /\ RunStep
  BY <1>1, <1>5, <1>6 DEF MirrorStep, RunStep, Moves
<1> QED BY <1>1, <1>7, DevIn, LoadInv

\* A clear-all empties its own device's queue, and that is an answer for good.
LEMMA ClearQueueInv ==
    ASSUME SyncInv, NEW t \in Tabs, ClearQueue(t) PROVE SyncInv'
<1> USE DEF SyncInv
<1> PICK d : d = Dev(t)
  OBVIOUS
<1> PICK x : x = run[t]
  OBVIOUS
<1> PICK q : q = <<>>
  OBVIOUS
<1>1. d \in Devices
  BY DevIn
<1>2. /\ UNCHANGED <<serverVars, view, refresh, known, late, ops, writes, merged, cleared,
                     rewarded>>
      /\ queue' = [queue EXCEPT ![d] = q]
      /\ decided' = decided \cup IdsIn(queue[d])
      /\ run' = [run EXCEPT ![t].pc = "clear-cards"]
  BY DEF ClearQueue, mirrorVars
<1>3. UNCHANGED epoch
  BY <1>2 DEF serverVars
<1>4. CloudInv'
  BY <1>2, CloudUnchanged
<1>5. Grows /\ Copies' = Copies /\ Calls' = Calls /\ Now' = Now
  BY <1>2, <1>3, StillGrows DEF CloudInv
<1>6. q \in Seq(Copies)
  OBVIOUS
<1>7. QueueStep
  BY <1>1, <1>2, <1>5, <1>6 DEF QueueStep, Left
<1>8. HistoryStep
  BY <1>2, <1>5 DEF HistoryStep, Written, Ops
<1>9. RunStep
  <2> DEFINE p == "clear-cards"
             r == [x EXCEPT !.pc = p]
  <2>1. run' = [run EXCEPT ![t] = r]
    BY <1>2 DEF ClientInv, RunsOK
  <2>2. p \in Stages /\ p \notin {"wait", "got"}
    BY DEF Stages
  <2>3. x \in Runs
    BY DEF ClientInv, RunsOK
  <2> HIDE DEF p
  <2>4. /\ r \in Runs /\ r.pc = p
        /\ r.acking = x.acking /\ r.flushed = x.flushed
    BY <2>2, <2>3 DEF Runs
  <2> HIDE DEF r
  <2> QED BY <1>2, <1>3, <2>1, <2>2, <2>4, MoveRun
<1>10. KnownStep /\ MirrorStep /\ late' \subseteq Calls'
  BY <1>2, <1>5 DEF KnownStep, MirrorStep, ClientInv, DeviceOK
<1>11. ClientInv'
  BY <1>5, <1>7, <1>8, <1>9, <1>10, ClientStep DEF CloudInv
<1> QED BY <1>4, <1>11

\* A purge takes documents of earlier generations only.
LEMMA ClearCardsInv ==
    ASSUME SyncInv, NEW t \in Tabs, ClearCards(t) PROVE SyncInv'
<1> USE DEF SyncInv
<1>1. /\ UNCHANGED <<epoch, tomb, receipt, queue, view, refresh, known, run, late, ops,
                     writes, decided, merged, cleared, rewarded>>
      /\ \E page \in SUBSET Cards :
            card' = [c \in Cards |->
                       IF c \in page /\ card[c].epoch < known[t] THEN NoCard
                       ELSE card[c]]
  BY DEF ClearCards, PurgePage, clientVars, mirrorVars, history
<1> PICK page \in SUBSET Cards :
        card' = [c \in Cards |->
                   IF c \in page /\ card[c].epoch < known[t] THEN NoCard
                   ELSE card[c]]
  BY <1>1
<1>2. /\ epoch \in Nat /\ known[t] \in Int /\ known[t] <= epoch
      /\ card \in [Cards -> Document]
      /\ \A c \in Cards : card[c].epoch <= epoch /\ card[c].epoch \in Nat
  BY DEF CloudInv, ClientInv, ServerOK, DeviceOK, Document
<1>3. ServerOK'
  <2>1. NoCard \in Document /\ NoCard.epoch <= epoch
    BY <1>2, NoCardIn DEF NoCard
  <2>2. card' \in [Cards -> Document]
    BY <1>2, <2>1
  <2>3. \A c \in Cards : card'[c].epoch <= epoch'
    BY <1>1, <1>2, <2>1
  <2> QED BY <1>1, <2>2, <2>3 DEF CloudInv, ServerOK
<1>4. StagedOK' /\ WritesOK' /\ ReceiptsOK' /\ AppliedOnce'
  BY <1>1 DEF CloudInv, StagedOK, WritesOK, ReceiptsOK, AppliedOnce, Written,
              Ops, Kind, Now
<1>5. /\ \A c \in Cards : Live(c) => Live(c)'
      /\ \A c : CurrentTombstone(c)' <=> CurrentTombstone(c)
  BY <1>1, <1>2 DEF Live, CurrentTombstone, Present
<1>6. \A i \in 1 .. Now : ops[i].card \in Cards
  <2>1. \A i \in 1 .. Now : ops[i] \in Operation
    BY StagedFacts DEF CloudInv
  <2> QED BY <2>1 DEF Operation
<1>7. CreatesOK'
  <2> SUFFICES ASSUME NEW i \in 1 .. Now, NEW c, c = ops[i].card, Written(i),
                      Kind(i) = "create", ops[i].epoch # Unverified
               PROVE  \/ ops[i].epoch < epoch
                      \/ Live(c)'
                      \/ CurrentTombstone(c)' /\ tomb[c].at >= i
    BY <1>1 DEF CreatesOK, Written, Ops, Kind, Now
  <2>1. \/ ops[i].epoch < epoch
        \/ Live(ops[i].card)
        \/ CurrentTombstone(ops[i].card) /\ tomb[ops[i].card].at >= i
    BY DEF CloudInv, CreatesOK
  <2> QED BY <1>5, <1>6, <2>1
<1>8. DeletesOK'
  BY <1>1, <1>5 DEF CloudInv, DeletesOK, DeleteOf, Kind
<1>9. CloudInv'
  BY <1>3, <1>4, <1>7, <1>8 DEF CloudInv
<1>10. /\ Grows /\ Calls' = Calls /\ Now' = Now
  BY <1>1, StillGrows DEF CloudInv
<1>11. HistoryStep
  BY <1>1, <1>10 DEF HistoryStep, Written, Ops
<1>12. /\ QueueStep /\ KnownStep /\ MirrorStep /\ RunStep /\ late' \subseteq Calls'
  BY <1>1, <1>10 DEF QueueStep, KnownStep, MirrorStep, RunStep, ClientInv, DeviceOK
<1>13. ClientInv'
  BY <1>10, <1>11, <1>12, ClientStep DEF CloudInv
<1> QED BY <1>9, <1>13

\* With the new generation everything staged so far is of an earlier one.
LEMMA ClearStartInv ==
    ASSUME SyncInv, NEW t \in Tabs, ClearStart(t) PROVE SyncInv'
<1> USE DEF SyncInv
<1> PICK x : x = run[t]
  OBVIOUS
<1>1. /\ UNCHANGED <<card, tomb, receipt, queue, view, refresh, late, ops, writes, decided,
                     merged, rewarded>>
      /\ epoch' = epoch + 1
      /\ known' = [known EXCEPT ![t] = epoch + 1]
      /\ run' = [run EXCEPT ![t].pc = "clear-queue"]
      /\ cleared' = Now
  BY DEF ClearStart, AdvanceEpoch, mirrorVars
<1>2. epoch \in Nat
  BY DEF CloudInv, ServerOK
<1>3. /\ Now \in Nat /\ Now' = Now
      /\ \A i \in 1 .. Now : /\ ops[i].epoch \in Int
                             /\ ops[i].epoch <= epoch
                             /\ ops[i].epoch < epoch'
  <2>1. Now \in Nat /\ \A i \in 1 .. Now : ops[i] \in Operation
    BY StagedFacts DEF CloudInv
  <2>2. \A i \in 1 .. Now : ops[i].epoch \in Int /\ ops[i].epoch <= epoch
    BY <2>1 DEF CloudInv, StagedOK, Operation
  <2>3. Now' = Now
    BY <1>1 DEF Now
  <2> QED BY <1>1, <1>2, <2>1, <2>2, <2>3
<1>4. ServerOK'
  <2>1. epoch' \in Nat /\ \A n \in Nat : n <= epoch => n <= epoch'
    BY <1>1, <1>2
  <2>2. \A c \in Cards : card[c].epoch \in Nat
    BY DEF CloudInv, ServerOK, Document
  <2> QED BY <1>1, <2>1, <2>2 DEF CloudInv, ServerOK
<1>5. StagedOK'
  BY <1>1, <1>2, <1>3 DEF CloudInv, StagedOK
<1>6. WritesOK' /\ ReceiptsOK' /\ AppliedOnce'
  BY <1>1, <1>3 DEF CloudInv, WritesOK, ReceiptsOK, AppliedOnce, Written, Ops, Kind
<1>7. CreatesOK'
  BY <1>1, <1>3 DEF CreatesOK
<1>8. DeletesOK'
  <2>1. \A k \in DOMAIN writes : writes[k] \in 1 .. Now
    BY LenProperties, ElementOfSeq DEF CloudInv, WritesOK
  <2> QED BY <1>1, <1>3, <2>1 DEF DeletesOK
<1>9. CloudInv'
  BY <1>4, <1>5, <1>6, <1>7, <1>8 DEF CloudInv
<1>10. Grows
  BY <1>1, <1>2, <1>3 DEF Grows
<1>11. HistoryStep
  BY <1>1, <1>3 DEF HistoryStep, Written, Ops
<1>12. KnownStep
  <2> PICK e : e = epoch + 1
    OBVIOUS
  <2>1. e \in Int /\ e <= epoch' /\ known' = [known EXCEPT ![t] = e]
    BY <1>1, <1>2
  <2> QED BY <2>1 DEF KnownStep
<1>13. RunStep
  <2> DEFINE p == "clear-queue"
  <2> PICK r : r = [x EXCEPT !.pc = p]
    OBVIOUS
  <2>1. run' = [run EXCEPT ![t] = r]
    BY <1>1 DEF ClientInv, RunsOK
  <2>2. p \in Stages /\ p \notin {"wait", "got"}
    BY DEF Stages
  <2>3. Sound(x) /\ x \in Runs
    BY DEF ClientInv, RunsOK
  <2> HIDE DEF p
  <2>4. /\ r \in Runs /\ r.pc = p
        /\ r.acking = x.acking /\ r.flushed = x.flushed
    BY <2>2, <2>3 DEF Runs
  <2>5. Sound(r)'
    <3>1. r \in Runs'
      BY <1>10, <2>4, Growth DEF CloudInv
    <3> QED BY <1>1, <2>2, <2>3, <2>4, <3>1 DEF Sound
  <2> QED BY <2>1, <2>5 DEF RunStep
<1>14. QueueStep /\ MirrorStep /\ late' \subseteq Calls'
  BY <1>1, <1>10, Growth DEF QueueStep, MirrorStep, CloudInv, ClientInv, DeviceOK
<1>15. ClientInv'
  BY <1>10, <1>11, <1>12, <1>13, <1>14, ClientStep DEF CloudInv
<1> QED BY <1>9, <1>15

-----------------------------------------------------------------------------
(* The library with all its devices.                                       *)

\* The library starts with the invariant.
LEMMA InitInv == SyncInit => SyncInv
<1> SUFFICES ASSUME SyncInit PROVE SyncInv
  OBVIOUS
<1>1. /\ epoch = 0 /\ receipt = {} /\ ops = <<>> /\ writes = <<>>
      /\ cleared = 0 /\ late = {} /\ rewarded = {} /\ Now = 0
  BY DEF SyncInit, Now
<1>2. Seed \in Document /\ NoCard \in Document /\ Seed.epoch = 0 /\ NoCard.epoch = 0
  BY NoCardIn DEF NoCard, Document, Seed
<1>3. ServerOK
  <2>1. card \in [Cards -> Document] /\ \A c \in Cards : card[c].epoch <= epoch
    BY <1>1, <1>2 DEF SyncInit
  <2>2. (CHOOSE o \in OpIds : TRUE) \in OpIds
    BY ValuesAssumption
  <2> DEFINE o == CHOOSE o \in OpIds : TRUE
  <2>3. tomb = [c \in Cards |-> [epoch |-> 0, rev |-> 0, op |-> o, at |-> 0]]
    BY DEF SyncInit
  <2> HIDE DEF o
  <2>4. o \in OpIds
    BY <2>2 DEF o
  <2>5. tomb \in [Cards -> [epoch : Int, rev : Nat, op : OpIds \cup Nat, at : Nat]]
    BY <2>3, <2>4
  <2> QED BY <1>1, <2>1, <2>5 DEF ServerOK
<1>4. StagedOK /\ WritesOK /\ ReceiptsOK /\ CreatesOK /\ DeletesOK /\ AppliedOnce
  BY <1>1 DEF StagedOK, WritesOK, ReceiptsOK, CreatesOK, DeletesOK, AppliedOnce,
              Written, Ops
<1>5. DeviceOK
  <2>1. queue \in [Devices -> Seq(Copies)]
    BY DEF SyncInit
  <2>2. Shown(0, 1) \in Versions /\ Hidden \in Versions
    BY <1>1 DEF Shown, Hidden, Versions
  <2>3. view \in [Devices -> [Cards -> Versions]]
    BY <2>2 DEF SyncInit
  <2>4. known \in [Tabs -> Int] /\ \A t \in Tabs : known[t] <= epoch
    BY <1>1 DEF SyncInit, Unverified
  <2>5. refresh \in [Tabs -> Refreshes]
    BY <1>3, NoRefreshIn DEF SyncInit
  <2> QED BY <1>1, <2>1, <2>3, <2>4, <2>5 DEF DeviceOK
<1>6. RunsOK
  <2>1. Sound(Idle) /\ Idle \in Runs
    BY IdleSound DEF Sound
  <2>2. run = [t \in Tabs |-> Idle]
    BY DEF SyncInit
  <2>3. \A t \in Tabs : run[t] = Idle
    BY <2>2
  <2> HIDE DEF Sound
  <2> QED BY <2>1, <2>2, <2>3, Zenon DEF RunsOK
<1>7. RewardBacked /\ NothingDropped
  BY <1>1 DEF RewardBacked, NothingDropped
<1> QED BY <1>3, <1>4, <1>5, <1>6, <1>7 DEF SyncInv, CloudInv, ClientInv

\* A step that changes nothing keeps the invariant.
LEMMA StutterInv ==
    ASSUME SyncInv, UNCHANGED syncVars PROVE SyncInv'
<1>1. UNCHANGED <<serverVars, queue, view, refresh, known, run, late, history>>
  BY DEF syncVars, clientVars, mirrorVars
<1>2. KnownStep /\ MirrorStep /\ RunStep
  BY <1>1 DEF KnownStep, MirrorStep, RunStep
<1>3. late' \subseteq Calls
  BY <1>1 DEF SyncInv, ClientInv, DeviceOK
<1> QED BY <1>1, <1>2, <1>3, LocalStep DEF history

\* No step of a tab, of a device or of the network breaks the invariant.
LEMMA NextInv ==
    ASSUME SyncInv, [SyncNext]_syncVars PROVE SyncInv'
<1>1. ASSUME NEW t \in Tabs, NEW s \in Staged[t], NEW c \in Cards, Stage(t, s, c)
      PROVE  SyncInv'
  BY <1>1, StageInv
<1>2. ASSUME NEW t \in Tabs, StartFlush(t) PROVE SyncInv'
  BY <1>2, StartFlushInv
<1>3. ASSUME NEW t \in Tabs, Proceed(t) PROVE SyncInv'
  <2>1. CASE StartDirect(t)
    BY <2>1, StartDirectInv
  <2>2. CASE Send(t)
    BY <2>2, SendInv
  <2>3. CASE HandleAnswer(t)
    <3>1. CASE HandleSettled(t)
      BY <3>1, HandleSettledInv
    <3>2. CASE HandleStale(t)
      BY <3>2, HandleStaleInv
    <3>3. CASE HandleReviewed(t)
      BY <3>3, HandleReviewedInv
    <3>4. CASE HandleRejected(t)
      BY <3>4, HandleRejectedInv
    <3>5. CASE HandleKept(t)
      BY <3>5, HandleKeptInv
    <3>6. CASE HandleFailed(t)
      BY <3>6, HandleFailedInv
    <3> QED BY <2>3, <3>1, <3>2, <3>3, <3>4, <3>5, <3>6 DEF HandleAnswer
  <2>4. CASE AssertFinal(t)
    BY <2>4, AssertFinalInv
  <2>5. CASE Finish(t)
    BY <2>5, FinishInv
  <2> QED BY <1>3, <2>1, <2>2, <2>3, <2>4, <2>5 DEF Proceed
<1>4. ASSUME NEW t \in Tabs, Ack(t) \/ RefreshPending(t) PROVE SyncInv'
  BY <1>4, AckInv, RefreshPendingInv
<1>5. ASSUME NEW t \in Tabs, Serve(t) PROVE SyncInv'
  BY <1>5, ServeInv
<1>6. ASSUME NEW t \in Tabs, ClearStart(t) PROVE SyncInv'
  BY <1>6, ClearStartInv
<1>7. ASSUME NEW t \in Tabs, Clear(t) PROVE SyncInv'
  BY <1>7, ClearQueueInv, ClearCardsInv, ClearViewInv DEF Clear
<1>8. ASSUME NEW t \in Tabs, Timeout(t) \/ Crash(t) \/ VerifyEpoch(t) PROVE SyncInv'
  BY <1>8, TimeoutInv, CrashInv, VerifyEpochInv
<1>9. ASSUME NEW d \in Devices, Expire(d) PROVE SyncInv'
  BY <1>9, ExpireInv
<1>12. ASSUME NEW t \in Tabs, RefreshMirror(t) PROVE SyncInv'
  BY <1>12, RefreshInv, LoadOverlayInv
<1>10. ASSUME NEW call \in late, LateServe(call) \/ LateDrop(call) PROVE SyncInv'
  BY <1>10, LateServeInv, LateDropInv
<1>11. CASE UNCHANGED syncVars
  BY <1>11, StutterInv
<1> QED BY <1>1, <1>2, <1>3, <1>4, <1>5, <1>6, <1>7, <1>8, <1>9, <1>10, <1>11, <1>12
        DEF SyncNext

\* The inductive invariant holds of every behaviour, however many devices, tabs,
\* cards, faults, operations and clear-alls there are.
THEOREM SyncInvariant == SyncSpec => []SyncInv
<1>1. SyncInit => SyncInv
  BY InitInv
<1>2. SyncInv /\ [SyncNext]_syncVars => SyncInv'
  BY NextInv
<1> QED BY <1>1, <1>2, PTL DEF SyncSpec

\* Experience points are granted only for reviews the cloud committed, though
\* the answers come late, twice, or to a tab that has lost the lease.
THEOREM RewardsAreBacked == SyncSpec => []RewardBacked
<1>1. SyncInv => RewardBacked
  BY DEF SyncInv, ClientInv
<1> QED BY <1>1, SyncInvariant, PTL

\* A review changes the cloud once, and so does a create or a delete within the
\* limits that AppliedOnce names, however often it is sent.
THEOREM WritesHappenOnce == SyncSpec => []AppliedOnce
<1>1. SyncInv => AppliedOnce
  BY DEF SyncInv, CloudInv
<1> QED BY <1>1, SyncInvariant, PTL

\* An operation leaves its device's queue only when it was answered for good or
\* taken up by another one of its card that may do so.
THEOREM NothingIsDropped == SyncSpec => []NothingDropped
<1>1. SyncInv => NothingDropped
  BY DEF SyncInv, ClientInv
<1> QED BY <1>1, SyncInvariant, PTL

\* What a transaction writes is of the generation the cloud is in.
LEMMA WritesNow ==
    ASSUME NEW op, Asked(op), Writes(op) PROVE op.epoch = epoch
<1>1. op.kind \in Kinds
  BY DEF Asked, Operation
<1>2. CASE op.kind = "create"
  BY <1>2 DEF Writes, Reply, CreateReply, EpochRefusal, WrongEpoch, IsPatch
<1>3. CASE op.kind = "patch"
  BY <1>3 DEF Writes, Reply, PatchReply, EpochRefusal, WrongEpoch, IsPatch
<1>4. CASE op.kind = "delete"
  BY <1>4 DEF Writes, Reply, DeleteReply, EpochRefusal, WrongEpoch, IsPatch
<1>5. CASE op.kind = "review"
  BY <1>5 DEF Writes, Reply, ReviewReply, EpochRefusal, WrongEpoch, IsPatch
<1> QED BY <1>1, <1>2, <1>3, <1>4, <1>5 DEF Kinds

AfterClear ==
    Len(writes') > Len(writes) =>
        LET w == Last(writes')
            c == ops[w].card
        IN  /\ Fresh(w)
            /\ \A f \in Fields : LET i == card'[c].val[f] IN
                  Present(card'[c]) /\ i # card[c].val[f] /\ i \in 1 .. Now
                     => Fresh(i) \/ EditsOfOne(i, w)

\* The values a document gets from a transaction are those of its operation.
LEMMA ValuesOfOp ==
    ASSUME ServerOK, NEW op, Asked(op), Execute(op), Writes(op),
           NEW f \in Fields, Present(card'[op.card]),
           card'[op.card].val[f] # card[op.card].val[f]
    PROVE  card'[op.card].val[f] = op.val[f]
<1>0. op.card \in Cards /\ card \in [Cards -> Document]
  BY DEF Asked, Operation, ServerOK
<1>1. CASE CreateCard(op)
  BY <1>0, <1>1 DEF CreateCard, Created
<1>2. CASE PatchCard(op)
  <2>1. card'[op.card].val = Overlay(card[op.card].val, op)
    BY <1>0, <1>2 DEF PatchCard, Patched, Document
  <2> QED BY <2>1 DEF Overlay
<1>3. CASE DeleteCard(op, Now)
  BY <1>0, <1>3 DEF DeleteCard, NoCard, Present
<1>4. CASE ReviewCard(op, Now)
  BY <1>0, <1>4 DEF ReviewCard, Reviewed, Document
<1> QED BY <1>1, <1>2, <1>3, <1>4, ExecuteCases

\* A transaction writes nothing that was staged before the last clear-all,
\* unless its tab did not know its epoch, and no value of such an operation,
\* unless it was folded into the one that is written.
LEMMA ExecuteAfterClear ==
    ASSUME SyncInv, NEW call \in Calls, Execute(Request(call)) PROVE AfterClear
<1> PICK op : op = Request(call)
  OBVIOUS
<1>1. Asked(op) /\ Execute(op)
  BY RequestFacts DEF SyncInv, CloudInv
<1>2. CASE ~Writes(op)
  <2>1. writes' = writes /\ Len(writes) \in Nat
    BY <1>1, <1>2, LenProperties DEF Execute, SyncInv, CloudInv, WritesOK
  <2> QED BY <2>1 DEF AfterClear
<1>3. CASE Writes(op)
  <2>1. op.epoch = epoch
    BY <1>1, <1>3, WritesNow
  <2>2. op.id \in 1 .. Now /\ (ops[op.id].epoch = Unverified \/ ops[op.id].epoch = epoch)
    BY <1>1, <2>1 DEF Asked
  <2>3. /\ cleared \in Nat /\ epoch \in Nat /\ Now \in Nat
        /\ op.id <= cleared => ops[op.id].epoch < epoch
    <3>1. StagedOK /\ epoch \in Nat
      BY DEF SyncInv, CloudInv, ServerOK
    <3>2. Now \in Nat /\ cleared \in 0 .. Now
      BY <3>1, LenProperties DEF StagedOK, Now
    <3>3. op.id <= cleared => ops[op.id].epoch < epoch
      BY <2>2, <3>1 DEF StagedOK
    <3> QED BY <3>1, <3>2, <3>3
  <2>4. Fresh(op.id)
    BY <2>2, <2>3 DEF Fresh
  <2>5. Last(writes') = op.id
    <3>1. writes' = Append(writes, op.id)
      BY <1>1, <1>3 DEF Execute
    <3>2. writes \in Seq(1 .. Now) /\ Len(writes) \in Nat
      BY LenProperties DEF SyncInv, CloudInv, WritesOK
    <3> QED BY <2>2, <3>1, <3>2, AppendProperties DEF Last
  <2>6. ops[op.id].card = op.card
    BY <1>1 DEF Asked
  <2>7. ASSUME NEW f \in Fields, NEW i, i = card'[op.card].val[f],
               Present(card'[op.card]), i # card[op.card].val[f]
        PROVE  Fresh(i) \/ EditsOfOne(i, op.id)
    <3>1. i = op.val[f]
      BY <1>1, <1>3, <2>7, ValuesOfOp DEF SyncInv, CloudInv
    <3>2. i = op.id \/ EditsOfOne(i, op.id)
      BY <1>1, <3>1 DEF Asked, OwnOrFolded
    <3> QED BY <2>4, <3>2
  <2> QED BY <2>4, <2>5, <2>6, <2>7 DEF AfterClear
<1> QED BY <1>2, <1>3

\* Only a call the cloud serves writes, and only what AfterClear admits.
LEMMA NextAfterClear ==
    ASSUME SyncInv, [SyncNext]_syncVars PROVE AfterClear
<1>1. ASSUME writes' = writes PROVE AfterClear
  <2>1. Len(writes) \in Nat
    BY LenProperties DEF SyncInv, CloudInv, WritesOK
  <2> QED BY <1>1, <2>1 DEF AfterClear
<1>2. ASSUME NEW t \in Tabs, NEW s \in Staged[t], NEW c \in Cards, Stage(t, s, c)
      PROVE  writes' = writes
  BY <1>2 DEF Stage
<1>3. ASSUME NEW t \in Tabs, StartFlush(t) PROVE writes' = writes
  BY <1>3 DEF StartFlush
<1>4. ASSUME NEW t \in Tabs, Proceed(t) PROVE writes' = writes
  <2>1. ASSUME HandleAnswer(t) PROVE writes' = writes
    BY <2>1 DEF HandleAnswer, HandleSettled, HandleStale, HandleReviewed,
                HandleRejected, HandleKept, HandleFailed, history
  <2> QED BY <1>4, <2>1 DEF Proceed, StartDirect, Send, AssertFinal, Finish, history
<1>5. ASSUME NEW t \in Tabs, Ack(t) \/ RefreshPending(t) PROVE writes' = writes
  BY <1>5 DEF Ack, RefreshPending
<1>6. ASSUME NEW t \in Tabs, Serve(t) PROVE AfterClear
  <2>1. CASE Retried(run[t].call)
    BY <1>1, <1>6, <2>1 DEF Serve
  <2>2. CASE ~Retried(run[t].call)
    <3>1. run[t].pc = "wait" /\ Execute(Request(run[t].call))
      BY <1>6, <2>2 DEF Serve
    <3>2. run[t].call \in Calls
      BY <3>1, GotFacts
    <3> QED BY <3>1, <3>2, ExecuteAfterClear
  <2> QED BY <2>1, <2>2
<1>7. ASSUME NEW t \in Tabs, ClearStart(t) \/ Clear(t) PROVE writes' = writes
  BY <1>7 DEF ClearStart, Clear, ClearQueue, ClearCards, ClearView, history
<1>8. ASSUME NEW t \in Tabs, Timeout(t) \/ Crash(t) \/ VerifyEpoch(t)
      PROVE  writes' = writes
  BY <1>8 DEF Timeout, Crash, VerifyEpoch, history
<1>9. ASSUME NEW d \in Devices, Expire(d) PROVE writes' = writes
  BY <1>9 DEF Expire, history
<1>10. ASSUME NEW call \in late, LateServe(call) PROVE AfterClear
  <2>1. CASE Retried(call) /\ call.alive
    BY <1>1, <1>10, <2>1 DEF LateServe
  <2>2. CASE ~(Retried(call) /\ call.alive)
    <3>1. Execute(Request(call)) /\ call \in Calls
      BY <1>10, <2>2 DEF LateServe, SyncInv, ClientInv, DeviceOK
    <3> QED BY <3>1, ExecuteAfterClear
  <2> QED BY <2>1, <2>2
<1>11. ASSUME NEW call \in late, LateDrop(call) PROVE writes' = writes
  BY <1>11 DEF LateDrop, history
<1>12. ASSUME UNCHANGED syncVars PROVE writes' = writes
  BY <1>12 DEF syncVars, history
<1>13. ASSUME NEW t \in Tabs, RefreshMirror(t) PROVE writes' = writes
  BY <1>13 DEF RefreshMirror, CaptureEpoch, BeginSync, ReadPage, PutPage, ConfirmEpoch,
               LoadOverlay, OverlayNext, FinishSync, AbandonRefresh, history
<1> QED BY <1>1, <1>2, <1>3, <1>4, <1>5, <1>6, <1>7, <1>8, <1>9, <1>10, <1>11, <1>12, <1>13
        DEF SyncNext

\* What was staged before a clear-all changes nothing in the cloud after it: no
\* operation from before it is written, and no document gets a value of one.  The
\* exceptions are those NoWriteFromBeforeClear names: an operation whose tab did
\* not know its epoch, and an edit that a later one of its card took up.
THEOREM ClearedIsNotWritten == SyncSpec => NoWriteFromBeforeClear
<1>1. SyncInv /\ [SyncNext]_syncVars =>
         [Len(writes') > Len(writes) =>
            LET w == Last(writes')
                c == ops[w].card
            IN  /\ Fresh(w)
                /\ \A f \in Fields : LET i == card'[c].val[f] IN
                      Present(card'[c]) /\ i # card[c].val[f] /\ i \in 1 .. Now
                         => Fresh(i) \/ EditsOfOne(i, w)]_syncVars
  BY NextAfterClear DEF AfterClear
<1> QED BY <1>1, SyncInvariant, PTL DEF SyncSpec, NoWriteFromBeforeClear

-----------------------------------------------------------------------------
(* The server by itself.                                                   *)

ServerInv ==
    /\ ServerTypeOK
    /\ NoFutureDocuments
    /\ TombstoneOrder
    /\ ReceiptsNameRevisions
    /\ OneReceiptPerReview

-----------------------------------------------------------------------------
(* What the helpers return.                                                *)

\* A counter is a natural number, and one below the bound can be stepped.
LEMMA CounterStep ==
    /\ Counter \subseteq Nat
    /\ 0 \in Counter
    /\ 1 \in Counter
    /\ \A n \in Counter : n < MaxCounter => n + 1 \in Counter
    /\ 0 \in Time
BY CounterAssumption, ClockAssumption DEF Counter, Time

\* Later picks the greater of two revisions.
LEMMA LaterIsMax ==
    ASSUME NEW m \in Counter, NEW n \in Counter
    PROVE  Later(m, n) \in Counter /\ Later(m, n) >= m /\ Later(m, n) >= n
BY CounterStep DEF Later

\* The blank document the store starts with is a card document.
LEMMA NoCardType == NoCard \in CardDoc /\ ~Present(NoCard)
<1>1. (CHOOSE v \in Values : TRUE) \in Values
  BY ValuesAssumption
<1>2. Blank \in [Fields -> Values]
  BY <1>1 DEF Blank
<1> QED
  BY <1>2, CounterStep DEF NoCard, CardDoc, Present

\* What a patch leaves is again an assignment of values to the fields.
LEMMA OverlayType ==
    ASSUME NEW val \in [Fields -> Values], NEW op \in PatchRequest
    PROVE  Overlay(val, op) \in [Fields -> Values]
BY DEF Overlay, PatchRequest

\* The revision of the current tombstone is a counter.
LEMMA TombRevType ==
    ASSUME ServerTypeOK, NEW c \in Cards
    PROVE  TombRev(c) \in Counter
BY CounterStep DEF ServerTypeOK, TombRev, CurrentTombstone, Tombstone

\* While a card lives its revision is its stamp; otherwise its tombstone's is.
LEMMA StampValue ==
    ASSUME ServerTypeOK, TombstoneOrder, NEW c \in Cards
    PROVE  /\ Live(c) => Stamp(c) = card[c].rev
           /\ ~Live(c) => Stamp(c) = TombRev(c)
           /\ Stamp(c) \in Counter
           /\ Stamp(c) >= TombRev(c)
<1>1. card[c].rev \in Counter /\ TombRev(c) \in Counter
  BY TombRevType DEF ServerTypeOK, CardDoc
<1>2. Live(c) => card[c].rev > TombRev(c)
  BY <1>1, CounterStep DEF TombstoneOrder, TombRev, Live, Present
<1>3. card[c].rev \in Nat /\ TombRev(c) \in Nat
  BY <1>1, CounterStep
<1>4. CASE Live(c)
  <2>1. Stamp(c) = Later(card[c].rev, TombRev(c))
    BY <1>4 DEF Stamp
  <2>2. Stamp(c) = card[c].rev
    BY <1>2, <1>3, <1>4, <2>1 DEF Later
  <2> QED
    BY <1>1, <1>2, <1>3, <1>4, <2>2
<1>5. CASE ~Live(c)
  <2>1. Stamp(c) = TombRev(c)
    BY <1>5 DEF Stamp
  <2> QED
    BY <1>1, <1>3, <1>5, <2>1
<1> QED
  BY <1>4, <1>5

\* The stamp a delete writes is above every revision of this generation.
LEMMA DeleteBaseBound ==
    ASSUME ServerTypeOK, TombstoneOrder, NEW op \in DeleteRequest
    PROVE  DeleteBase(op) \in Counter /\ DeleteBase(op) >= Stamp(op.card)
<1> DEFINE found == IF Present(card[op.card]) THEN card[op.card].rev
                                              ELSE op.base
<1>1. op.card \in Cards /\ op.base \in Counter
  BY DEF DeleteRequest
<1>2. found \in Counter /\ TombRev(op.card) \in Counter
  BY <1>1, TombRevType DEF ServerTypeOK, CardDoc
<1>3. /\ Later(found, TombRev(op.card)) \in Counter
      /\ Later(found, TombRev(op.card)) >= found
      /\ Later(found, TombRev(op.card)) >= TombRev(op.card)
  BY <1>2, LaterIsMax
<1>4. /\ DeleteBase(op) \in Counter
      /\ DeleteBase(op) >= found
      /\ DeleteBase(op) >= TombRev(op.card)
  <2> HIDE DEF found
  <2>1. DeleteBase(op) = Later(op.base, Later(found, TombRev(op.card)))
    BY DEF DeleteBase, found
  <2>2. /\ DeleteBase(op) \in Counter
        /\ DeleteBase(op) >= Later(found, TombRev(op.card))
    BY <1>1, <1>3, <2>1, LaterIsMax
  <2>3. /\ DeleteBase(op) \in Nat /\ found \in Nat /\ TombRev(op.card) \in Nat
        /\ Later(found, TombRev(op.card)) \in Nat
    BY <1>2, <1>3, <2>2, CounterStep
  <2> QED
    BY <1>3, <2>2, <2>3
<1>5. CASE Live(op.card)
  BY <1>1, <1>4, <1>5, StampValue DEF Live
<1>6. CASE ~Live(op.card)
  BY <1>1, <1>4, <1>6, StampValue
<1> QED
  BY <1>5, <1>6

\* A document that is neither absent nor of an older generation is live.
LEMMA LiveDocument ==
    ASSUME ServerInv, NEW c \in Cards, Present(card[c]), ~OldGeneration(c)
    PROVE  Live(c) /\ card[c].epoch = epoch
<1>1. epoch \in Nat /\ card[c].epoch \in Nat
  BY CounterStep DEF ServerInv, ServerTypeOK, CardDoc
<1>2. card[c].epoch <= epoch
  BY DEF ServerInv, NoFutureDocuments
<1> QED
  BY <1>1, <1>2 DEF OldGeneration, Live

-----------------------------------------------------------------------------
(* What each handler does to the documents, under its guard.               *)

\* A create writes a live card above the tombstone of its generation.
LEMMA CreateEffect ==
    ASSUME ServerInv, NEW op \in CreateRequest, CreateCard(op)
    PROVE  /\ op.card \in Cards /\ ~Live(op.card)
           /\ Created(op) \in CardDoc
           /\ Created(op).epoch = epoch
           /\ Created(op).rev = Stamp(op.card) + 1
           /\ card' = [card EXCEPT ![op.card] = Created(op)]
           /\ UNCHANGED <<epoch, tomb, receipt>>
<1>1. op.card \in Cards /\ op.val \in [Fields -> Values] /\ op.last \in Time
  BY DEF CreateRequest
<1>2. ~Live(op.card) /\ TombRev(op.card) # MaxCounter
  BY DEF CreateCard, CreateReply, EpochRefusal, WrongEpoch
<1>3. TombRev(op.card) \in Counter
  BY <1>1, TombRevType DEF ServerInv
<1>4. TombRev(op.card) + 1 \in Counter
  BY <1>2, <1>3, CounterAssumption DEF Counter
<1>5. epoch \in Counter
  BY DEF ServerInv, ServerTypeOK
<1>6. Stamp(op.card) = TombRev(op.card)
  BY <1>1, <1>2, StampValue DEF ServerInv
<1> QED
  BY <1>1, <1>2, <1>4, <1>5, <1>6 DEF Created, CardDoc, CreateCard

\* A patch leaves the live card it found one revision later.
LEMMA PatchEffect ==
    ASSUME ServerInv, NEW op \in PatchRequest, PatchCard(op)
    PROVE  \E doc \in CardDoc :
             /\ op.card \in Cards /\ Live(op.card)
             /\ doc.epoch = epoch
             /\ doc.rev = Stamp(op.card) + 1
             /\ card' = [card EXCEPT ![op.card] = doc]
             /\ UNCHANGED <<epoch, tomb, receipt>>
<1> DEFINE old == card[op.card]
           doc == Patched(op)
<1>1. op.card \in Cards /\ old \in CardDoc /\ epoch \in Counter
  BY DEF PatchRequest, ServerInv, ServerTypeOK
<1>2. /\ Present(old) /\ ~OldGeneration(op.card) /\ old.rev # MaxCounter
  BY DEF PatchCard, PatchReply, EpochRefusal, WrongEpoch
<1>3. old.epoch = epoch
  BY <1>1, <1>2, LiveDocument
<1>4. Live(op.card)
  BY <1>1, <1>2, LiveDocument
<1>5. Stamp(op.card) = old.rev
  BY <1>1, <1>4, StampValue DEF ServerInv
<1>6. old.rev + 1 \in Counter
  BY <1>1, <1>2, CounterAssumption DEF Counter, CardDoc
<1>7. Overlay(old.val, op) \in [Fields -> Values]
  BY <1>1, OverlayType DEF CardDoc
<1>8. doc \in CardDoc /\ doc.epoch = epoch /\ doc.rev = old.rev + 1
  BY <1>1, <1>3, <1>6, <1>7 DEF CardDoc, Patched
<1>9. card' = [card EXCEPT ![op.card] = doc]
  BY DEF PatchCard
<1> QED
  BY <1>1, <1>4, <1>5, <1>8, <1>9 DEF PatchCard

\* A review leaves the live card it found one revision later, and a receipt
\* that names that revision where the card had none of this operation.
LEMMA ReviewEffect ==
    ASSUME ServerInv, NEW op \in ReviewRequest, NEW now \in Time,
           ReviewCard(op, now)
    PROVE  \E doc \in CardDoc, new \in Receipt :
             /\ op.card \in Cards /\ Live(op.card)
             /\ doc.epoch = epoch
             /\ doc.rev = Stamp(op.card) + 1
             /\ new.card = op.card /\ new.op = op.id
             /\ new.epoch = epoch /\ new.rev = doc.rev
             /\ \A r \in receipt : ~(r.card = op.card /\ r.op = op.id)
             /\ card' = [card EXCEPT ![op.card] = doc]
             /\ receipt' = receipt \cup {new}
             /\ UNCHANGED <<epoch, tomb>>
<1> DEFINE old == card[op.card]
           doc == Reviewed(op)
           new == [card |-> op.card, op |-> op.id, base |-> op.base,
                   epoch |-> op.epoch, rev |-> card[op.card].rev + 1,
                   expired |-> FALSE]
<1>1. /\ op.card \in Cards /\ old \in CardDoc /\ epoch \in Counter
      /\ op.at \in Time /\ op.id \in OpIds /\ op.base \in Counter
  BY DEF ReviewRequest, ServerInv, ServerTypeOK
<1>2. /\ Present(old) /\ ~OldGeneration(op.card) /\ old.rev # MaxCounter
      /\ op.epoch = epoch /\ ReceiptsOf(op) = {}
  BY DEF ReviewCard, ReviewReply, EpochRefusal, WrongEpoch
<1>3. old.epoch = epoch
  BY <1>1, <1>2, LiveDocument
<1>4. Live(op.card)
  BY <1>1, <1>2, LiveDocument
<1>5. Stamp(op.card) = old.rev
  BY <1>1, <1>4, StampValue DEF ServerInv
<1>6. old.rev + 1 \in Counter
  BY <1>1, <1>2, CounterAssumption DEF Counter, CardDoc
<1>7. doc \in CardDoc /\ doc.epoch = epoch /\ doc.rev = old.rev + 1
  BY <1>1, <1>3, <1>6 DEF CardDoc, Reviewed
<1>8. /\ new \in Receipt /\ new.card = op.card /\ new.op = op.id
      /\ new.epoch = epoch /\ new.rev = doc.rev
  BY <1>1, <1>2, <1>6, <1>7 DEF Receipt
<1>9. card' = [card EXCEPT ![op.card] = doc] /\ receipt' = receipt \cup {new}
  BY DEF ReviewCard
<1>10. \A r \in receipt : ~(r.card = op.card /\ r.op = op.id)
  BY <1>2 DEF ReceiptsOf
<1> QED
  BY <1>1, <1>4, <1>5, <1>7, <1>8, <1>9, <1>10 DEF ReviewCard

\* A delete replaces whatever document there was by a higher tombstone.
LEMMA DeleteEffect ==
    ASSUME ServerInv, NEW op \in DeleteRequest, NEW now \in Time,
           DeleteCard(op, now)
    PROVE  \E t \in Tombstone :
             /\ op.card \in Cards
             /\ t.epoch = epoch /\ t.rev > Stamp(op.card)
             /\ tomb' = [tomb EXCEPT ![op.card] = t]
             /\ card' = [card EXCEPT ![op.card] = NoCard]
             /\ UNCHANGED <<epoch, receipt>>
<1> DEFINE t == [epoch |-> epoch, rev |-> DeleteBase(op) + 1,
                 op |-> op.id, at |-> now]
<1>1. op.card \in Cards /\ op.id \in OpIds /\ epoch \in Counter
  BY DEF DeleteRequest, ServerInv, ServerTypeOK
<1>2. ~(DeleteBase(op) >= MaxCounter)
  BY DEF DeleteCard, DeleteReply, EpochRefusal, WrongEpoch
<1>3. DeleteBase(op) \in Counter /\ DeleteBase(op) >= Stamp(op.card)
  BY DeleteBaseBound DEF ServerInv
<1>4. Stamp(op.card) \in Counter
  BY <1>1, StampValue DEF ServerInv
<1>5. DeleteBase(op) + 1 \in Counter /\ DeleteBase(op) + 1 > Stamp(op.card)
  BY <1>2, <1>3, <1>4, CounterAssumption DEF Counter
<1>6. t \in Tombstone /\ t.epoch = epoch /\ t.rev > Stamp(op.card)
  BY <1>1, <1>5 DEF Tombstone
<1>7. op.epoch = epoch
  BY DEF DeleteCard, DeleteReply, EpochRefusal, WrongEpoch
<1> QED
  BY <1>1, <1>6, <1>7 DEF DeleteCard

-----------------------------------------------------------------------------
(* How the stamps move.                                                    *)

\* A card whose two documents a step leaves alone keeps all it shows.
LEMMA UntouchedCard ==
    ASSUME NEW c \in Cards, epoch' = epoch,
           card'[c] = card[c], tomb'[c] = tomb[c]
    PROVE  /\ Live(c)' = Live(c)
           /\ CurrentTombstone(c)' = CurrentTombstone(c)
           /\ TombRev(c)' = TombRev(c)
           /\ Stamp(c)' = Stamp(c)
           /\ ShownContent(c)' = ShownContent(c)
BY DEF Live, CurrentTombstone, TombRev, Stamp, ShownContent

\* Writing a live document one revision later raises that card's stamp and
\* no other, and keeps every document well formed.
LEMMA WriteLive ==
    ASSUME ServerInv, NEW c \in Cards, NEW doc \in CardDoc,
           doc.epoch = epoch, doc.rev = Stamp(c) + 1,
           card' = [card EXCEPT ![c] = doc], UNCHANGED <<epoch, tomb>>
    PROVE  /\ card' \in [Cards -> CardDoc]
           /\ (\A d \in Cards : card[d].epoch <= epoch)'
           /\ TombstoneOrder'
           /\ Live(c)' /\ Stamp(c)' = Stamp(c) + 1
           /\ \A d \in Cards \ {c} :
                Stamp(d)' = Stamp(d) /\ ShownContent(d)' = ShownContent(d)
<1>1. card \in [Cards -> CardDoc] /\ epoch \in Nat
  BY CounterStep DEF ServerInv, ServerTypeOK
<1>2. card' \in [Cards -> CardDoc] /\ card'[c] = doc
  BY <1>1
<1>3. \A d \in Cards \ {c} : card'[d] = card[d]
  BY <1>1
<1>4. Stamp(c) \in Nat /\ TombRev(c) \in Nat /\ Stamp(c) >= TombRev(c)
  BY StampValue, TombRevType, CounterStep DEF ServerInv
<1>5. TombRev(c)' = TombRev(c)
  BY DEF TombRev, CurrentTombstone
<1>6. Live(c)'
  BY <1>2, <1>4 DEF Live, Present
<1>7. Stamp(c)' = Stamp(c) + 1
  <2>1. Stamp(c)' = Later(doc.rev, TombRev(c))
    BY <1>2, <1>5, <1>6 DEF Stamp
  <2> QED
    BY <1>4, <2>1 DEF Later
<1>8. \A d \in Cards \ {c} :
        /\ Live(d)' = Live(d) /\ CurrentTombstone(d)' = CurrentTombstone(d)
        /\ Stamp(d)' = Stamp(d) /\ ShownContent(d)' = ShownContent(d)
  BY <1>3, UntouchedCard
<1>9. (\A d \in Cards : card[d].epoch <= epoch)'
  BY <1>1, <1>2, <1>3 DEF ServerInv, NoFutureDocuments
<1>10. TombstoneOrder'
  <2> SUFFICES ASSUME NEW d \in Cards, Live(d)', CurrentTombstone(d)'
               PROVE  card'[d].rev > tomb'[d].rev
    BY DEF TombstoneOrder
  <2>1. CASE d = c
    <3>1. CurrentTombstone(c)
      BY <2>1 DEF CurrentTombstone
    <3>2. TombRev(c) = tomb[c].rev
      BY <3>1 DEF TombRev
    <3> QED
      BY <1>2, <1>4, <2>1, <3>2
  <2>2. CASE d # c
    BY <1>3, <1>8, <2>2 DEF ServerInv, TombstoneOrder
  <2> QED
    BY <2>1, <2>2
<1> QED
  BY <1>2, <1>6, <1>7, <1>8, <1>9, <1>10

\* Burying a card under a higher tombstone raises its stamp and no other.
LEMMA Bury ==
    ASSUME ServerInv, NEW c \in Cards, NEW t \in Tombstone,
           t.epoch = epoch, t.rev > Stamp(c),
           tomb' = [tomb EXCEPT ![c] = t],
           card' = [card EXCEPT ![c] = NoCard], epoch' = epoch
    PROVE  /\ card' \in [Cards -> CardDoc] /\ tomb' \in [Cards -> Tombstone]
           /\ (\A d \in Cards : card[d].epoch <= epoch
                                /\ tomb[d].epoch <= epoch)'
           /\ TombstoneOrder'
           /\ ~Live(c)' /\ Stamp(c)' = t.rev
           /\ \A d \in Cards \ {c} :
                Stamp(d)' = Stamp(d) /\ ShownContent(d)' = ShownContent(d)
<1>1. /\ card \in [Cards -> CardDoc] /\ tomb \in [Cards -> Tombstone]
      /\ epoch \in Nat
  BY CounterStep DEF ServerInv, ServerTypeOK
<1>2. /\ card' \in [Cards -> CardDoc] /\ tomb' \in [Cards -> Tombstone]
      /\ card'[c] = NoCard /\ tomb'[c] = t
  BY <1>1, NoCardType
<1>3. \A d \in Cards \ {c} : card'[d] = card[d] /\ tomb'[d] = tomb[d]
  BY <1>1
<1>4. Stamp(c) \in Nat
  BY StampValue, CounterStep DEF ServerInv
<1>5. ~Live(c)'
  BY <1>2, NoCardType DEF Live
<1>6. CurrentTombstone(c)'
  <2>1. t.rev \in Nat
    BY CounterStep DEF Tombstone
  <2> QED
    BY <1>2, <1>4, <2>1 DEF CurrentTombstone, Present
<1>7. Stamp(c)' = t.rev
  BY <1>2, <1>5, <1>6 DEF Stamp, TombRev
<1>8. \A d \in Cards \ {c} :
        /\ Live(d)' = Live(d) /\ CurrentTombstone(d)' = CurrentTombstone(d)
        /\ Stamp(d)' = Stamp(d) /\ ShownContent(d)' = ShownContent(d)
  BY <1>3, UntouchedCard
<1>9. (\A d \in Cards : card[d].epoch <= epoch /\ tomb[d].epoch <= epoch)'
  <2> SUFFICES ASSUME NEW d \in Cards
               PROVE  card'[d].epoch <= epoch /\ tomb'[d].epoch <= epoch
    OBVIOUS
  <2>1. CASE d = c
    BY <1>1, <1>2, <2>1 DEF NoCard
  <2>2. CASE d # c
    BY <1>3, <2>2 DEF ServerInv, NoFutureDocuments
  <2> QED
    BY <2>1, <2>2
<1>10. TombstoneOrder'
  <2> SUFFICES ASSUME NEW d \in Cards, Live(d)', CurrentTombstone(d)'
               PROVE  card'[d].rev > tomb'[d].rev
    BY DEF TombstoneOrder
  <2>1. d # c
    BY <1>5
  <2> QED
    BY <1>3, <1>8, <2>1 DEF ServerInv, TombstoneOrder
<1> QED
  BY <1>2, <1>5, <1>7, <1>8, <1>9, <1>10

\* The receipts stay in order while no stamp falls.
LEMMA ReceiptsKept ==
    ASSUME ServerInv, epoch' = epoch, receipt' = receipt,
           \A c \in Cards : Stamp(c)' >= Stamp(c) /\ Stamp(c)' \in Nat
    PROVE  ReceiptsNameRevisions' /\ OneReceiptPerReview'
<1>1. \A r \in receipt : /\ r.card \in Cards /\ r.rev \in Nat
                         /\ Stamp(r.card) \in Nat
  BY StampValue, CounterStep DEF ServerInv, ServerTypeOK, Receipt
<1>2. \A r \in receipt : r.epoch = epoch => r.rev <= Stamp(r.card)'
  BY <1>1 DEF ServerInv, ReceiptsNameRevisions
<1> QED
  BY <1>2 DEF ServerInv, ReceiptsNameRevisions, OneReceiptPerReview

-----------------------------------------------------------------------------
(* One lemma a step: it keeps the invariant and maps to a step of the      *)
(* abstract library, or to none.                                           *)

AbstractStep ==
    [Versioned!VersionedNext]_<<epoch, [c \in Cards |-> Stamp(c)],
                                [c \in Cards |-> ShownContent(c)]>>

\* What a live or an absent card shows is one content or nothing.
LEMMA ShownType ==
    ASSUME ServerTypeOK, NEW c \in Cards
    PROVE  /\ ShownContent(c) \in Versioned!Shown
           /\ ~Live(c) => ShownContent(c) = {}
<1>1. card[c] \in CardDoc
  BY DEF ServerTypeOK
<1>2. [val |-> card[c].val, last |-> card[c].last] \in Contents
  BY <1>1 DEF CardDoc, Contents
<1> QED
  BY <1>2 DEF ShownContent, Versioned!Shown

\* Raising the stamp of one card and touching no other is an abstract write.
LEMMA AbstractWrite ==
    ASSUME ServerTypeOK', ServerInv, TombstoneOrder', epoch' = epoch,
           NEW c \in Cards, Stamp(c)' > Stamp(c),
           \A d \in Cards \ {c} :
              Stamp(d)' = Stamp(d) /\ ShownContent(d)' = ShownContent(d)
    PROVE  AbstractStep
<1>1. \A d \in Cards : Stamp(d)' \in Nat /\ ShownContent(d)' \in Versioned!Shown
  <2> SUFFICES ASSUME NEW d \in Cards
               PROVE  Stamp(d)' \in Nat /\ ShownContent(d)' \in Versioned!Shown
    OBVIOUS
  <2>1. ShownContent(d)' \in Versioned!Shown
    <3>1. card'[d] \in CardDoc
      BY DEF ServerTypeOK
    <3>2. [val |-> card'[d].val, last |-> card'[d].last] \in Contents
      BY <3>1 DEF CardDoc, Contents
    <3> QED
      BY <3>2 DEF ShownContent, Versioned!Shown
  <2>2. Stamp(d)' \in Nat
    <3>1. card'[d].rev \in Nat /\ tomb'[d].rev \in Nat
      BY CounterStep DEF ServerTypeOK, CardDoc, Tombstone
    <3> QED
      BY <3>1 DEF Stamp, TombRev, Later
  <2> QED
    BY <2>1, <2>2
<1>2. Versioned!Write(c)
  BY <1>1 DEF Versioned!Write
<1> QED
  BY <1>2 DEF AbstractStep, Versioned!VersionedNext

\* A create keeps the invariant and is a step of the abstract library,
LEMMA CreateKeeps ==
    ASSUME ServerInv, NEW op \in CreateRequest, CreateCard(op)
    PROVE  ServerInv' /\ AbstractStep
<1>1. /\ op.card \in Cards /\ Created(op) \in CardDoc
      /\ Created(op).epoch = epoch /\ Created(op).rev = Stamp(op.card) + 1
      /\ card' = [card EXCEPT ![op.card] = Created(op)]
      /\ UNCHANGED <<epoch, tomb, receipt>>
  BY CreateEffect
<1>2. /\ card' \in [Cards -> CardDoc]
      /\ (\A d \in Cards : card[d].epoch <= epoch)'
      /\ TombstoneOrder'
      /\ Stamp(op.card)' = Stamp(op.card) + 1
      /\ \A d \in Cards \ {op.card} :
           Stamp(d)' = Stamp(d) /\ ShownContent(d)' = ShownContent(d)
  BY <1>1, WriteLive
<1>3. \A d \in Cards : Stamp(d) \in Nat
  BY StampValue, CounterStep DEF ServerInv
<1>4. ServerTypeOK' /\ NoFutureDocuments'
  BY <1>1, <1>2 DEF ServerInv, ServerTypeOK, NoFutureDocuments
<1>5. \A d \in Cards : Stamp(d)' >= Stamp(d) /\ Stamp(d)' \in Nat
  BY <1>2, <1>3
<1>6. ReceiptsNameRevisions' /\ OneReceiptPerReview'
  BY <1>1, <1>5, ReceiptsKept
<1>7. AbstractStep
  BY <1>1, <1>2, <1>3, <1>4, AbstractWrite
<1> QED
  BY <1>2, <1>4, <1>6, <1>7 DEF ServerInv

\* and so is a patch,
LEMMA PatchKeeps ==
    ASSUME ServerInv, NEW op \in PatchRequest, PatchCard(op)
    PROVE  ServerInv' /\ AbstractStep
<1>1. PICK doc \in CardDoc :
        /\ op.card \in Cards
        /\ doc.epoch = epoch /\ doc.rev = Stamp(op.card) + 1
        /\ card' = [card EXCEPT ![op.card] = doc]
        /\ UNCHANGED <<epoch, tomb, receipt>>
  BY PatchEffect
<1>2. /\ card' \in [Cards -> CardDoc]
      /\ (\A d \in Cards : card[d].epoch <= epoch)'
      /\ TombstoneOrder'
      /\ Stamp(op.card)' = Stamp(op.card) + 1
      /\ \A d \in Cards \ {op.card} :
           Stamp(d)' = Stamp(d) /\ ShownContent(d)' = ShownContent(d)
  BY <1>1, WriteLive
<1>3. \A d \in Cards : Stamp(d) \in Nat
  BY StampValue, CounterStep DEF ServerInv
<1>4. ServerTypeOK' /\ NoFutureDocuments'
  BY <1>1, <1>2 DEF ServerInv, ServerTypeOK, NoFutureDocuments
<1>5. \A d \in Cards : Stamp(d)' >= Stamp(d) /\ Stamp(d)' \in Nat
  BY <1>2, <1>3
<1>6. ReceiptsNameRevisions' /\ OneReceiptPerReview'
  BY <1>1, <1>5, ReceiptsKept
<1>7. AbstractStep
  BY <1>1, <1>2, <1>3, <1>4, AbstractWrite
<1> QED
  BY <1>2, <1>4, <1>6, <1>7 DEF ServerInv

\* a delete, which may restamp a tombstone,
LEMMA DeleteKeeps ==
    ASSUME ServerInv, NEW op \in DeleteRequest, NEW now \in Time,
           DeleteCard(op, now)
    PROVE  ServerInv' /\ AbstractStep
<1>1. PICK t \in Tombstone :
        /\ op.card \in Cards
        /\ t.epoch = epoch /\ t.rev > Stamp(op.card)
        /\ tomb' = [tomb EXCEPT ![op.card] = t]
        /\ card' = [card EXCEPT ![op.card] = NoCard]
        /\ UNCHANGED <<epoch, receipt>>
  BY DeleteEffect
<1>2. /\ card' \in [Cards -> CardDoc] /\ tomb' \in [Cards -> Tombstone]
      /\ (\A d \in Cards : card[d].epoch <= epoch /\ tomb[d].epoch <= epoch)'
      /\ TombstoneOrder'
      /\ Stamp(op.card)' = t.rev
      /\ \A d \in Cards \ {op.card} :
           Stamp(d)' = Stamp(d) /\ ShownContent(d)' = ShownContent(d)
  BY <1>1, Bury
<1>3. t.rev \in Nat /\ \A d \in Cards : Stamp(d) \in Nat
  BY StampValue, CounterStep DEF ServerInv, Tombstone
<1>4. ServerTypeOK' /\ NoFutureDocuments'
  BY <1>1, <1>2 DEF ServerInv, ServerTypeOK, NoFutureDocuments
<1>5. \A d \in Cards : Stamp(d)' >= Stamp(d) /\ Stamp(d)' \in Nat
  BY <1>1, <1>2, <1>3
<1>6. ReceiptsNameRevisions' /\ OneReceiptPerReview'
  BY <1>1, <1>5, ReceiptsKept
<1>7. AbstractStep
  BY <1>1, <1>2, <1>3, <1>4, AbstractWrite
<1> QED
  BY <1>2, <1>4, <1>6, <1>7 DEF ServerInv

\* a review,
LEMMA ReviewKeeps ==
    ASSUME ServerInv, NEW op \in ReviewRequest, NEW now \in Time,
           ReviewCard(op, now)
    PROVE  ServerInv' /\ AbstractStep
<1>1. PICK doc \in CardDoc, new \in Receipt :
        /\ op.card \in Cards
        /\ doc.epoch = epoch /\ doc.rev = Stamp(op.card) + 1
        /\ new.card = op.card /\ new.op = op.id
        /\ new.epoch = epoch /\ new.rev = doc.rev
        /\ \A r \in receipt : ~(r.card = op.card /\ r.op = op.id)
        /\ card' = [card EXCEPT ![op.card] = doc]
        /\ receipt' = receipt \cup {new}
        /\ UNCHANGED <<epoch, tomb>>
  BY ReviewEffect
<1>2. /\ card' \in [Cards -> CardDoc]
      /\ (\A d \in Cards : card[d].epoch <= epoch)'
      /\ TombstoneOrder'
      /\ Stamp(op.card)' = Stamp(op.card) + 1
      /\ \A d \in Cards \ {op.card} :
           Stamp(d)' = Stamp(d) /\ ShownContent(d)' = ShownContent(d)
  BY <1>1, WriteLive
<1>3. epoch \in Nat /\ \A d \in Cards : Stamp(d) \in Nat
  BY StampValue, CounterStep DEF ServerInv, ServerTypeOK
<1>4. ServerTypeOK' /\ NoFutureDocuments'
  <2>1. ServerTypeOK'
    BY <1>1, <1>2 DEF ServerInv, ServerTypeOK
  <2>2. \A r \in receipt' : r.epoch <= epoch'
    BY <1>1, <1>3 DEF ServerInv, NoFutureDocuments
  <2> QED
    BY <1>1, <1>2, <2>1, <2>2 DEF ServerInv, NoFutureDocuments
<1>5. \A r \in receipt : /\ r.card \in Cards /\ r.rev \in Nat
                         /\ r.epoch = epoch => r.rev <= Stamp(r.card)
  BY CounterStep
     DEF ServerInv, ServerTypeOK, Receipt, ReceiptsNameRevisions
<1>6. \A r \in receipt' : r.epoch = epoch' => r.rev <= Stamp(r.card)'
  BY <1>1, <1>2, <1>3, <1>5
<1>7. \A r \in receipt : ~(/\ r.card = new.card /\ r.epoch = new.epoch
                           /\ r.rev = new.rev)
  BY <1>1, <1>3, <1>5
<1>8. ReceiptsNameRevisions'
  BY <1>1, <1>6, <1>7 DEF ServerInv, ReceiptsNameRevisions
<1>9. OneReceiptPerReview'
  BY <1>1 DEF ServerInv, OneReceiptPerReview
<1>10. AbstractStep
  BY <1>1, <1>2, <1>3, <1>4, AbstractWrite
<1> QED
  BY <1>2, <1>4, <1>8, <1>9, <1>10 DEF ServerInv

\* an expired receipt, shown or not,
LEMMA ReceiptSweepKeeps ==
    ASSUME ServerInv, ExpireReceipt \/ PurgeReceipt
    PROVE  ServerInv' /\ AbstractStep
<1>1. UNCHANGED <<epoch, card, tomb>>
  BY DEF ExpireReceipt, PurgeReceipt
<1>2. \A c \in Cards : Stamp(c)' = Stamp(c) /\ ShownContent(c)' = ShownContent(c)
  BY <1>1 DEF Stamp, TombRev, CurrentTombstone, Live, ShownContent
<1>3. /\ receipt' \subseteq Receipt
      /\ \A r \in receipt' : \E s \in receipt :
            /\ r.card = s.card /\ r.op = s.op
            /\ r.epoch = s.epoch /\ r.rev = s.rev
      /\ \A r, s \in receipt' : r.card = s.card /\ r.op = s.op => r = s
  <2>1. CASE PurgeReceipt
    BY <2>1 DEF PurgeReceipt, ServerInv, ServerTypeOK, OneReceiptPerReview
  <2>2. CASE ExpireReceipt
    <3>1. PICK x \in receipt :
            receipt' = (receipt \ {x}) \cup {[x EXCEPT !.expired = TRUE]}
      BY <2>2 DEF ExpireReceipt
    <3> DEFINE y == [x EXCEPT !.expired = TRUE]
    <3>2. /\ y \in Receipt /\ y.card = x.card /\ y.op = x.op
          /\ y.epoch = x.epoch /\ y.rev = x.rev
      BY DEF ServerInv, ServerTypeOK, Receipt
    <3> HIDE DEF y
    <3>3. receipt' \subseteq Receipt
      BY <3>1, <3>2 DEF ServerInv, ServerTypeOK, y
    <3>4. \A r \in receipt' : r = y \/ (r \in receipt /\ r # x)
      BY <3>1 DEF y
    <3>5. \A r \in receipt' : \E s \in receipt :
            /\ r.card = s.card /\ r.op = s.op
            /\ r.epoch = s.epoch /\ r.rev = s.rev
      BY <3>2, <3>4
    <3>6. \A r, s \in receipt' : r.card = s.card /\ r.op = s.op => r = s
      BY <3>2, <3>4 DEF ServerInv, OneReceiptPerReview
    <3> QED
      BY <3>3, <3>5, <3>6
  <2> QED
    BY <2>1, <2>2
<1>4. ServerTypeOK' /\ NoFutureDocuments'
  BY <1>1, <1>3 DEF ServerInv, ServerTypeOK, NoFutureDocuments
<1>5. TombstoneOrder'
  BY <1>1 DEF ServerInv, TombstoneOrder, Live, CurrentTombstone
<1>6. \A r \in receipt' : r.epoch = epoch' => r.rev <= Stamp(r.card)'
  <2>1. \A r \in receipt : r.card \in Cards
    BY DEF ServerInv, ServerTypeOK, Receipt
  <2> QED
    BY <1>1, <1>2, <1>3, <2>1 DEF ServerInv, ReceiptsNameRevisions
<1>7. OneReceiptPerReview'
  BY <1>3 DEF OneReceiptPerReview
<1>8. ReceiptsNameRevisions'
  <2> SUFFICES ASSUME NEW r \in receipt', NEW s \in receipt',
                      r.card = s.card, r.epoch = s.epoch, r.rev = s.rev
               PROVE  r = s
    BY <1>6 DEF ReceiptsNameRevisions
  <2>1. PICK x \in receipt : /\ r.card = x.card /\ r.op = x.op
                             /\ r.epoch = x.epoch /\ r.rev = x.rev
    BY <1>3
  <2>2. PICK y \in receipt : /\ s.card = y.card /\ s.op = y.op
                             /\ s.epoch = y.epoch /\ s.rev = y.rev
    BY <1>3
  <2>3. x = y
    BY <2>1, <2>2 DEF ServerInv, ReceiptsNameRevisions
  <2> QED
    BY <1>3, <2>1, <2>2, <2>3
<1>9. AbstractStep
  BY <1>1, <1>2 DEF AbstractStep
<1> QED
  BY <1>4, <1>5, <1>7, <1>8, <1>9 DEF ServerInv

\* a clear-all,
LEMMA AdvanceKeeps ==
    ASSUME ServerInv, AdvanceEpoch
    PROVE  ServerInv' /\ AbstractStep
<1>1. /\ epoch' = epoch + 1 /\ epoch < MaxCounter
      /\ UNCHANGED <<card, tomb, receipt>>
  BY DEF AdvanceEpoch
<1>2. epoch \in Nat /\ epoch' \in Counter
  BY <1>1, CounterStep DEF ServerInv, ServerTypeOK
<1>3. \A c \in Cards : /\ card[c].epoch \in Nat /\ card[c].epoch <= epoch
                       /\ tomb[c].epoch \in Nat /\ tomb[c].epoch <= epoch
  BY CounterStep
     DEF ServerInv, ServerTypeOK, CardDoc, Tombstone, NoFutureDocuments
<1>4. \A r \in receipt : r.epoch \in Nat /\ r.epoch <= epoch
  BY CounterStep DEF ServerInv, ServerTypeOK, Receipt, NoFutureDocuments
<1>5. \A c \in Cards : ~Live(c)' /\ ~CurrentTombstone(c)'
  BY <1>1, <1>2, <1>3 DEF Live, CurrentTombstone
<1>6. \A c \in Cards : Stamp(c)' = 0 /\ ShownContent(c)' = {}
  BY <1>5 DEF Stamp, TombRev, ShownContent
<1>7. ServerTypeOK' /\ NoFutureDocuments'
  BY <1>1, <1>2, <1>3, <1>4 DEF ServerInv, ServerTypeOK, NoFutureDocuments
<1>8. TombstoneOrder'
  BY <1>5 DEF TombstoneOrder
<1>9. ReceiptsNameRevisions' /\ OneReceiptPerReview'
  BY <1>1, <1>2, <1>4 DEF ServerInv, ReceiptsNameRevisions, OneReceiptPerReview
<1>10. AbstractStep
  BY <1>1, <1>6 DEF AbstractStep, Versioned!VersionedNext, Versioned!Reset
<1> QED
  BY <1>7, <1>8, <1>9, <1>10 DEF ServerInv

\* and the purge that follows it.
LEMMA PurgeKeeps ==
    ASSUME ServerInv, PurgeAny
    PROVE  ServerInv' /\ AbstractStep
<1>1. PICK e \in Counter, page \in SUBSET Cards :
        /\ e <= epoch
        /\ card' = [c \in Cards |-> IF c \in page /\ card[c].epoch < e
                                    THEN NoCard ELSE card[c]]
        /\ UNCHANGED <<epoch, tomb, receipt>>
  BY DEF PurgeAny, PurgePage
<1>2. epoch \in Nat /\ e \in Nat
  BY CounterStep DEF ServerInv, ServerTypeOK
<1>3. \A c \in Cards : Live(c)' = Live(c)
  <2> SUFFICES ASSUME NEW c \in Cards PROVE Live(c)' = Live(c)
    OBVIOUS
  <2>1. CASE c \in page /\ card[c].epoch < e
    <3>1. card[c].epoch \in Nat
      BY CounterStep DEF ServerInv, ServerTypeOK, CardDoc
    <3>2. ~Live(c)
      BY <1>1, <1>2, <2>1, <3>1 DEF Live
    <3>3. ~Live(c)'
      BY <1>1, <2>1, NoCardType DEF Live
    <3> QED
      BY <3>2, <3>3 DEF Live
  <2>2. CASE ~(c \in page /\ card[c].epoch < e)
    BY <1>1, <2>2 DEF Live
  <2> QED
    BY <2>1, <2>2
<1>4. \A c \in Cards : Live(c) => card'[c] = card[c]
  <2> SUFFICES ASSUME NEW c \in Cards, Live(c) PROVE card'[c] = card[c]
    OBVIOUS
  <2> QED
    BY <1>1, <1>2 DEF Live
<1>5. \A c \in Cards : CurrentTombstone(c)' = CurrentTombstone(c)
  BY <1>1 DEF CurrentTombstone
<1>6. \A c \in Cards : Stamp(c)' = Stamp(c) /\ ShownContent(c)' = ShownContent(c)
  BY <1>1, <1>3, <1>4, <1>5 DEF Stamp, TombRev, ShownContent
<1>7. ServerTypeOK'
  BY <1>1, NoCardType DEF ServerInv, ServerTypeOK
<1>8. NoFutureDocuments'
  BY <1>1, <1>2 DEF ServerInv, NoFutureDocuments, NoCard
<1>9. TombstoneOrder'
  BY <1>1, <1>3, <1>4, <1>5 DEF ServerInv, TombstoneOrder
<1>10. \A c \in Cards : Stamp(c)' >= Stamp(c) /\ Stamp(c)' \in Nat
  <2>1. \A c \in Cards : Stamp(c) \in Nat
    BY StampValue, CounterStep DEF ServerInv
  <2> QED
    BY <1>6, <2>1
<1>11. ReceiptsNameRevisions' /\ OneReceiptPerReview'
  BY <1>1, <1>10, ReceiptsKept
<1>12. AbstractStep
  BY <1>1, <1>6 DEF AbstractStep
<1> QED
  BY <1>7, <1>8, <1>9, <1>11, <1>12 DEF ServerInv

-----------------------------------------------------------------------------
(* The theorems.                                                           *)

\* An empty library satisfies the invariant and maps to an empty one.
LEMMA InitKeeps == ServerInit => ServerInv /\ Versioned!VersionedInit
<1> SUFFICES ASSUME ServerInit PROVE ServerInv /\ Versioned!VersionedInit
  OBVIOUS
<1>1. (CHOOSE o \in OpIds : TRUE) \in OpIds
  BY ValuesAssumption
<1>2. ServerTypeOK
  BY <1>1, NoCardType, CounterStep DEF ServerInit, ServerTypeOK, Tombstone
<1>3. \A c \in Cards : ~Live(c) /\ ~CurrentTombstone(c)
  BY DEF ServerInit, Live, CurrentTombstone, NoCard, Present
<1>4. NoFutureDocuments
  BY DEF ServerInit, NoFutureDocuments, NoCard
<1>5. TombstoneOrder
  BY <1>3 DEF TombstoneOrder
<1>6. ReceiptsNameRevisions /\ OneReceiptPerReview
  BY DEF ServerInit, ReceiptsNameRevisions, OneReceiptPerReview
<1>7. \A c \in Cards : Stamp(c) = 0 /\ ShownContent(c) = {}
  BY <1>3 DEF Stamp, TombRev, ShownContent
<1>8. Versioned!VersionedInit
  BY <1>7 DEF ServerInit, Versioned!VersionedInit
<1> QED
  BY <1>2, <1>4, <1>5, <1>6, <1>8 DEF ServerInv

\* Every step of the server keeps the invariant and is a step of the
\* abstract library or leaves it unchanged.
LEMMA StepKeeps ==
    ASSUME ServerInv, [ServerNext]_serverVars
    PROVE  ServerInv' /\ AbstractStep
<1>1. CASE UNCHANGED serverVars
  <2>1. \A c \in Cards : Stamp(c)' = Stamp(c) /\ ShownContent(c)' = ShownContent(c)
    BY <1>1 DEF serverVars, Stamp, TombRev, CurrentTombstone, Live, ShownContent
  <2>2. AbstractStep
    BY <1>1, <2>1 DEF serverVars, AbstractStep
  <2>3. ServerTypeOK' /\ NoFutureDocuments' /\ TombstoneOrder'
    BY <1>1 DEF serverVars, ServerInv, ServerTypeOK, NoFutureDocuments,
                TombstoneOrder, Live, CurrentTombstone
  <2>4. ReceiptsNameRevisions' /\ OneReceiptPerReview'
    <3>1. \A c \in Cards : Stamp(c) \in Nat
      BY StampValue, CounterStep DEF ServerInv
    <3>2. \A c \in Cards : Stamp(c)' >= Stamp(c) /\ Stamp(c)' \in Nat
      BY <2>1, <3>1
    <3> QED
      BY <1>1, <3>2, ReceiptsKept DEF serverVars
  <2> QED
    BY <2>2, <2>3, <2>4 DEF ServerInv
<1>2. CASE \E op \in CreateRequest : CreateCard(op)
  BY <1>2, CreateKeeps
<1>3. CASE \E op \in PatchRequest : PatchCard(op)
  BY <1>3, PatchKeeps
<1>4. CASE \E op \in DeleteRequest, now \in Time : DeleteCard(op, now)
  BY <1>4, DeleteKeeps
<1>5. CASE \E op \in ReviewRequest, now \in Time : ReviewCard(op, now)
  BY <1>5, ReviewKeeps
<1>6. CASE ExpireReceipt \/ PurgeReceipt
  BY <1>6, ReceiptSweepKeeps
<1>7. CASE AdvanceEpoch
  BY <1>7, AdvanceKeeps
<1>8. CASE PurgeAny
  BY <1>8, PurgeKeeps
<1> QED
  BY <1>1, <1>2, <1>3, <1>4, <1>5, <1>6, <1>7, <1>8 DEF ServerNext

\* Every document a handler writes has the shape the handlers read.
THEOREM ServerTypeCorrect == ServerSpec => []ServerTypeOK
<1>1. ServerInit => ServerInv
  BY InitKeeps
<1>2. ServerInv /\ [ServerNext]_serverVars => ServerInv'
  BY StepKeeps
<1>3. ServerInv => ServerTypeOK
  BY DEF ServerInv
<1> QED
  BY <1>1, <1>2, <1>3, PTL DEF ServerSpec

\* A re-created card outranks the tombstone of its generation.
THEOREM TombstonesOutranked == ServerSpec => []TombstoneOrder
<1>1. ServerInit => ServerInv
  BY InitKeeps
<1>2. ServerInv /\ [ServerNext]_serverVars => ServerInv'
  BY StepKeeps
<1>3. ServerInv => TombstoneOrder
  BY DEF ServerInv
<1> QED
  BY <1>1, <1>2, <1>3, PTL DEF ServerSpec

\* No document is stamped with a generation the library has not reached, so
\* that advancing the epoch hides every document there is.
THEOREM NothingAhead == ServerSpec => []NoFutureDocuments
<1>1. ServerInit => ServerInv
  BY InitKeeps
<1>2. ServerInv /\ [ServerNext]_serverVars => ServerInv'
  BY StepKeeps
<1>3. ServerInv => NoFutureDocuments
  BY DEF ServerInv
<1> QED
  BY <1>1, <1>2, <1>3, PTL DEF ServerSpec

\* Receipts name revisions their cards reached, and no two reviews of a card
\* produced the same one.
THEOREM ReceiptsSound == ServerSpec => []ReceiptsNameRevisions
<1>1. ServerInit => ServerInv
  BY InitKeeps
<1>2. ServerInv /\ [ServerNext]_serverVars => ServerInv'
  BY StepKeeps
<1>3. ServerInv => ReceiptsNameRevisions
  BY DEF ServerInv
<1> QED
  BY <1>1, <1>2, <1>3, PTL DEF ServerSpec

\* A review sent again, after whatever came between, leaves no second receipt.
THEOREM OneReceipt == ServerSpec => []OneReceiptPerReview
<1>1. ServerInit => ServerInv
  BY InitKeeps
<1>2. ServerInv /\ [ServerNext]_serverVars => ServerInv'
  BY StepKeeps
<1>3. ServerInv => OneReceiptPerReview
  BY DEF ServerInv
<1> QED
  BY <1>1, <1>2, <1>3, PTL DEF ServerSpec

\* The transactions implement the abstract versioned library.
THEOREM ServerImplementsVersionedLibrary ==
    ServerSpec => ImplementsVersionedLibrary
<1>1. ServerInit => ServerInv /\ Versioned!VersionedInit
  BY InitKeeps
<1>2. ServerInv /\ [ServerNext]_serverVars
        => ServerInv' /\ [Versioned!VersionedNext]_(Versioned!versionedVars)
  BY StepKeeps DEF AbstractStep, Versioned!versionedVars
<1> QED
  BY <1>1, <1>2, PTL
     DEF ServerSpec, ImplementsVersionedLibrary, Versioned!VersionedSpec

-----------------------------------------------------------------------------
(* Edits under flushes alone: every edit reaches the cloud.                *)

\* A library whose tabs leave their operations to the flushes, never create a
\* card twice, review no card and never clear the library.
FlushedEdits ==
    /\ DirectTabs = {}
    /\ Recreates = FALSE
    /\ MaxClears = 0
    /\ \A t \in Tabs : \A s \in Staged[t] : s.kind # "review"

\* No delete of the card was ever staged.
Spared(c) == \A i \in 1 .. Now : ops[i].card = c => Kind(i) # "delete"

IsCreateOf(o, c) == o.kind = "create" /\ o.card = c

\* A card is created before anything else is staged on it, and only if the
\* library did not start with it; nothing staged is a review.
CreatedFirst ==
    /\ \A i \in 1 .. Now : Kind(i) # "review"
    /\ \A i \in 1 .. Now : Kind(i) = "create" =>
          /\ ops[i].card \notin Given
          /\ \A j \in 1 .. i - 1 : ops[j].card # ops[i].card

\* The library keeps its first generation, and no tab claims another one.
FirstGeneration ==
    /\ epoch = 0
    /\ \A t \in Tabs : known[t] \in {Unverified, 0}

\* A card nobody deletes has no tombstone.
NoTombYet == \A c \in Cards : Spared(c) => tomb[c].rev = 0

\* On a card, the order of a queue is that of the ids, which is that of staging.
Staging == [i \in Nat |-> i]
Tidy(q) == /\ InRank(q, Staging)
           /\ Proper(Ops(q), Staging)
           /\ Reduced(Ops(q), Staging)

QueuesTidy ==
    \A d \in Devices :
        /\ Tidy(queue[d])
        /\ \A x \in Ops(queue[d]) : x.kind # "delete" => x.epoch \in {Unverified, 0}
        /\ \A x \in Ops(queue[d]) :
              x.kind = "patch" /\ Spared(x.card) => Known(d, x.card)

\* A refresh holds the card: in the page it read, or in a create it lays over.
Brings(r, c) == \/ \E p \in r.page : p.card = c
                \/ \E o \in Ops(r.todo) : IsCreateOf(o, c)

\* A mirror shows no card, and no refresh is about to, that is neither in the
\* cloud nor created on its device.
MirrorsTrue ==
    /\ \A d \in Devices, c \in Cards :
          view[d][c].shown /\ Spared(c) => Known(d, c)
    /\ \A t \in Tabs, c \in Cards :
          Brings(refresh[t], c) /\ Spared(c) => Known(Dev(t), c)

\* A document showed every field the operation sets.
AllSaved(o) == \A f \in o.mask : o.val[f] \in saved

\* What may be acknowledged: an edit that was saved, a create whose card is there.
Done(o) == Spared(o.card) => /\ o.kind = "patch" => AllSaved(o)
                             /\ o.kind = "create" => Live(o.card)

Asking(r) == r.pc \in {"wait", "got"}

CreatesAhead(s) == \A i, j \in DOMAIN s :
    i < j /\ s[j].kind = "create" => s[i].kind = "create"

\* The card of an edit to be sent is there, or its create goes out before.
Prepared(r, o) ==
    \/ Live(o.card)
    \/ \E y \in Ops(r.todo) : IsCreateOf(y, o.card)
    \/ r.pc = "wait" /\ IsCreateOf(r.call.op, o.card)

\* The answers after which a flush acknowledges an edit.
Final == {"applied", "already-applied", "missing", "stale-library-epoch"}

\* A flush sends creates before edits and everything as of this generation; no
\* edit reaches the cloud before its card, and none is settled that is not saved.
Upright(r) ==
    /\ r.pc \in {"idle", "run", "wait", "got", "ack", "load"}
    /\ CreatesAhead(r.todo)
    /\ \A o \in Ops(r.todo) :
          /\ o.epoch = 0
          /\ o.kind = "patch" /\ Spared(o.card) => Prepared(r, o)
          /\ o.kind = "create" /\ Asking(r) => r.call.op.kind = "create"
    /\ Asking(r) => r.call.op.epoch = 0
    /\ r.pc = "wait" /\ r.call.op.kind = "patch" /\ Spared(r.call.op.card)
          => Live(r.call.op.card)
    /\ r.pc = "got" /\ (r.call.op.kind = "patch" => r.reply \in Final)
          => Done(r.call.op)
    /\ \A o \in r.flushed \cup r.acking : Done(o)

\* What a flush holds of the queue it loaded.
Held(r) == Ops(r.todo) \cup r.flushed \cup r.acking
              \cup (IF Asking(r) THEN {r.call.op} ELSE {})

\* What the device queues under an id is what its flushes hold under it.
Alike(H, q) == \A o \in H, x \in Ops(q) :
    o.id = x.id => x.mask = o.mask /\ x.val = o.val

RunsUpright ==
    \A t \in Tabs : Upright(run[t]) /\ Alike(Held(run[t]), queue[Dev(t)])

\* A later edit of the card sets the field too.
Overridden(i, f) == \E j \in 1 .. Now :
    /\ j > i /\ Kind(j) = "patch"
    /\ ops[j].card = ops[i].card /\ f \in ops[j].mask

Carries(x, i, f) == x.kind = "patch" /\ x.card = ops[i].card /\ f \in x.mask
                    /\ x.val[f] = i

\* Field by field: an edit of a card nobody deletes was saved, waits in a queue
\* or has been overridden.
NoEditLost ==
    \A i \in 1 .. Now : Kind(i) = "patch" /\ Spared(ops[i].card) =>
        \A f \in ops[i].mask :
            \/ Overridden(i, f)
            \/ i \in saved
            \/ \E d \in Devices : \E x \in Ops(queue[d]) : Carries(x, i, f)

EditInv ==
    /\ CreatedFirst
    /\ FirstGeneration
    /\ NoTombYet
    /\ QueuesTidy
    /\ MirrorsTrue
    /\ RunsUpright
    /\ NoEditLost

\* No edit is lost, no create acknowledged whose card is missing: what the steps
\* keep of that however the cloud moves on.
Onward ==
    /\ saved \subseteq saved'
    /\ \A c \in Cards : Spared(c)' => Spared(c) /\ (Live(c) => Live(c)')

\* What a step newly shows in a mirror, or brings there, is in the cloud or its
\* create is queued.
ShowsKnown ==
    /\ \A d \in Devices, c \in Cards : view'[d][c].shown =>
          view[d][c].shown \/ (Spared(c) => Known(d, c))
    /\ \A t \in Tabs, c \in Cards : Brings(refresh'[t], c) =>
          Brings(refresh[t], c) \/ (Spared(c) => Known(Dev(t), c))

\* The order of staging suits the copies of what was staged.
LEMMA StagingFacts ==
    ASSUME StagedOK
    PROVE  Ranked(Copies, Staging) /\ Patching(Copies)
<1>1. Ranked(Copies, Staging)
  BY DEF Ranked, Staging, Copies, Operation, StagedOK
<1>2. ASSUME NEW x \in Copies, NEW y \in Copies, x.kind = "patch", y.kind = "patch",
             x.card = y.card
      PROVE  LET n == FoldPatch(x, y) IN
             /\ n \in Copies /\ n.kind = "patch" /\ n.id = y.id /\ n.card = y.card
             /\ n.mask = x.mask \cup y.mask
             /\ \A f \in y.mask : n.val[f] = y.val[f]
             /\ \A f \in x.mask \ y.mask : n.val[f] = x.val[f]
  <2> DEFINE m == x.mask \cup y.mask
             v == [f \in DOMAIN y.val |-> IF f \in y.mask THEN y.val[f]
                                                         ELSE x.val[f]]
             z == [y EXCEPT !.mask = m, !.val = v]
  <2>1. x \in Operation /\ y \in Operation
    BY DEF Copies
  <2>2. /\ \A f \in y.mask : v[f] = y.val[f]
        /\ \A f \in x.mask \ y.mask : v[f] = x.val[f]
    BY <2>1 DEF Operation
  <2>3. FoldPatch(x, y) = z
    BY <2>1 DEF FoldPatch, Operation
  <2> HIDE DEF m, v
  <2>4. z.mask = m /\ z.val = v /\ z.kind = y.kind
    BY <2>1 DEF Operation
  <2> HIDE DEF z
  <2>5. z \in Copies /\ z.id = y.id /\ z.card = y.card
    BY <1>2, <2>3, CopiesFacts DEF Foldable
  <2> QED BY <1>2, <2>2, <2>3, <2>4, <2>5 DEF m
<1>3. Patching(Copies)
  BY <1>2 DEF Patching
<1> QED BY <1>1, <1>3

\* Without a staged review there is none in a queue.
LEMMA NoReviewCopies ==
    ASSUME CreatedFirst
    PROVE  \A x \in Copies : x.kind \in {"create", "patch", "delete"}
<1> SUFFICES ASSUME NEW x \in Copies PROVE x.kind \in {"create", "patch", "delete"}
  OBVIOUS
<1>1. x.kind \in Kinds /\ x.id \in 1 .. Now /\ x.kind = Kind(x.id)
  BY DEF Copies, Operation, Kind
<1>2. Kind(x.id) # "review"
  BY <1>1 DEF CreatedFirst
<1> QED BY <1>1, <1>2 DEF Kinds

\* A queue without reviews has one edit of a card, and stays tidy when operations
\* are taken from it.
LEMMA ReducedPart ==
    ASSUME NEW E, Ranked(E, Staging), NEW S \in SUBSET E, Proper(S, Staging),
           Reduced(S, Staging), \A x \in S : x.kind \in {"create", "patch", "delete"},
           NEW P \in SUBSET S
    PROVE  Proper(P, Staging) /\ Reduced(P, Staging)
<1>1. Proper(P, Staging)
  BY ProperPart
<1>2. ASSUME NEW x \in S, NEW y \in S, x.card = y.card, x.kind = "patch", y.kind = "patch",
             Staging[x.id] < Staging[y.id]
      PROVE  FALSE
  <2>1. PICK z \in S : /\ z.card = x.card /\ z.kind # "patch"
                       /\ Staging[x.id] < Staging[z.id] /\ Staging[z.id] < Staging[y.id]
    BY <1>2 DEF Reduced
  <2>2. z # x /\ z.kind # "delete"
    BY <1>2, <2>1 DEF Proper
  <2>3. z.kind = "create"
    BY <2>1, <2>2
  <2>4. Staging[z.id] < Staging[x.id]
    BY <2>1, <2>2, <2>3 DEF Proper
  <2>5. Staging[z.id] \in Nat /\ Staging[x.id] \in Nat
    BY DEF Ranked
  <2> QED BY <2>1, <2>4, <2>5
<1>3. Reduced(P, Staging)
  BY <1>2 DEF Reduced
<1> QED BY <1>1, <1>3

\* A tidy queue holds an id once.
LEMMA TidyIds ==
    ASSUME StagedOK, NEW q \in Seq(Copies), Tidy(q), NEW x \in Ops(q), NEW y \in Ops(q), x.id = y.id
    PROVE  x = y
<1>1. x \in Copies /\ y \in Copies
  BY OpsIn
<1>2. x.card = y.card /\ Staging[x.id] \in Nat
  BY <1>1, CopiesFacts, StagingFacts DEF Identified, Ranked
<1>3. PICK i \in DOMAIN q, j \in DOMAIN q : q[i] = x /\ q[j] = y
  BY DEF Ops
<1>4. DOMAIN q = 1 .. Len(q) /\ Len(q) \in Nat
  BY LenProperties
<1>5. CASE i = j
  BY <1>3, <1>5
<1>6. CASE i < j
  BY <1>2, <1>3, <1>6 DEF Tidy, InRank, Follows
<1>7. CASE j < i
  BY <1>2, <1>3, <1>7 DEF Tidy, InRank, Follows
<1> QED BY <1>4, <1>5, <1>6, <1>7

\* A merge leaves a tidy queue as it is, up to the order of different cards.
LEMMA MergeTidy ==
    ASSUME StagedOK, NEW q \in Seq(Copies), Tidy(q)
    PROVE  Merge(q) \in Seq(Copies) /\ Tidy(Merge(q)) /\ Ops(Merge(q)) = Ops(q)
<1>1. /\ Ranked(Copies, Staging) /\ Patching(Copies)
      /\ Timed(Copies) /\ Foldable(Copies) /\ Identified(Copies)
      /\ InRank(q, Staging) /\ Proper(Ops(q), Staging) /\ Reduced(Ops(q), Staging)
  BY StagingFacts, CopiesFacts DEF Tidy
<1>2. Ops(Merge(q)) = Ops(q)
  BY <1>1, MergeStay
<1>3. Merge(q) \in Seq(Copies) /\ InRank(Merge(q), Staging)
  BY <1>1, MergeProper
<1> QED BY <1>1, <1>2, <1>3 DEF Tidy

\* An acknowledgement takes out of a tidy queue what it names, and no more.
LEMMA AckTidy ==
    ASSUME StagedOK, CreatedFirst, NEW q \in Seq(Copies), Tidy(q), NEW done
    PROVE  /\ Acknowledged(q, done) \in Seq(Copies)
           /\ Tidy(Acknowledged(q, done))
           /\ Ops(Acknowledged(q, done)) = {x \in Ops(q) : \A o \in done : o.id # x.id}
<1> PICK m : m = Merge(q)
  OBVIOUS
<1> PICK S : S = {x \in Ops(m) : \A o \in done : o.id # x.id}
  OBVIOUS
<1>1. m \in Seq(Copies) /\ Tidy(m) /\ Ops(m) = Ops(q)
  BY MergeTidy
<1>2. Acknowledged(q, done) = Keep(m, S)
  BY Zenon DEF Acknowledged
<1>3. Keep(m, S) \in Seq(Copies) /\ Ops(Keep(m, S)) = S
  BY <1>1, KeepFacts
<1>4. InRank(Keep(m, S), Staging)
  BY <1>1, RankKeep DEF Tidy
<1>5. Proper(S, Staging) /\ Reduced(S, Staging)
  <2>1. Ops(m) \in SUBSET Copies /\ S \in SUBSET Ops(m)
    BY <1>1, OpsIn
  <2>2. \A x \in Ops(m) : x.kind \in {"create", "patch", "delete"}
    BY <2>1, NoReviewCopies
  <2> QED BY <1>1, <2>1, <2>2, StagingFacts, ReducedPart DEF Tidy
<1> QED BY <1>1, <1>2, <1>3, <1>4, <1>5 DEF Tidy

\* What one more operation makes of a tidy queue.
LEMMA AppendTidy ==
    ASSUME NEW E, Timed(E), Foldable(E), Patching(E), Identified(E), Ranked(E, Staging),
           NEW q \in Seq(E), NEW op \in E, Tidy(q),
           \A x \in Ops(q) : x.at <= op.at /\ Staging[x.id] < Staging[op.id]
    PROVE  /\ Merge(Append(q, op)) \in Seq(E)
           /\ Tidy(Merge(Append(q, op)))
           /\ \E N \in SUBSET E :
                 /\ \A x \in N : x.card = op.card
                 /\ Absorbed(OnCard(Ops(q), op.card), op, N, Staging)
                 /\ Ops(Merge(Append(q, op))) = OffCard(Ops(q), op.card) \cup N
<1> PICK p : p = Append(q, op)
  OBVIOUS
<1> PICK r : r = Staging
  OBVIOUS
<1>1. /\ Ranked(E, r) /\ InRank(q, r) /\ Proper(Ops(q), r) /\ Reduced(Ops(q), r)
      /\ \A x \in Ops(q) : x.at <= op.at /\ r[x.id] < r[op.id]
  BY DEF Tidy
<1>2. p \in Seq(E)
  BY AppendProperties
<1>3. InRank(p, r)
  <2> SUFFICES ASSUME NEW x \in Ops(p), NEW y \in Ops(p), Follows(p, x, y), x.card = y.card
               PROVE  r[x.id] < r[y.id]
    BY DEF InRank
  <2>1. Follows(q, x, y) \/ (x \in Ops(q) /\ y = op)
    BY FollowsAppend
  <2>2. CASE Follows(q, x, y)
    BY <1>1, <2>2, FollowsIn DEF InRank
  <2>3. CASE x \in Ops(q) /\ y = op
    BY <1>1, <2>3
  <2> QED BY <2>1, <2>2, <2>3
<1>4. /\ Merge(p) \in Seq(E) /\ InRank(Merge(p), r)
      /\ Proper(Ops(Merge(p)), r) /\ Reduced(Ops(Merge(p)), r)
  BY <1>1, <1>2, <1>3, RankStable, MergeShape
<1>5. \E N \in SUBSET E :
         /\ \A x \in N : x.card = op.card
         /\ Absorbed(OnCard(Ops(q), op.card), op, N, r)
         /\ Ops(Merge(p)) = OffCard(Ops(q), op.card) \cup N
  BY <1>1, <1>3, MergeOnto
<1> QED BY <1>4, <1>5 DEF Tidy

-----------------------------------------------------------------------------
(* A flush stays upright while the cloud moves on.                         *)

\* The parts of an upright flush that hold of an operation, then of the card.
LEMMA DoneStays ==
    ASSUME Onward, NEW o, o.card \in Cards, Done(o)
    PROVE  Done(o)'
BY DEF Onward, Done, AllSaved

\* The steps of others leave a flush upright.
LEMMA UprightStays ==
    ASSUME Onward, NEW r, Sound(r), Upright(r)
    PROVE  Upright(r)'
<1>1. /\ \A o \in Ops(r.todo) \cup r.flushed \cup r.acking : o.card \in Cards
      /\ Asking(r) => r.call.op.card \in Cards
  <2>1. r.todo \in Seq(Copies) /\ r.flushed \subseteq Copies /\ r.acking \subseteq Copies
    BY DEF Sound, Runs
  <2>2. Ops(r.todo) \subseteq Copies
    BY <2>1, OpsIn
  <2>3. Asking(r) => r.call.op \in Copies
    BY DEF Asking, Sound, Calls
  <2>4. \A o \in Copies : o.card \in Cards
    BY DEF Copies, Operation
  <2> QED BY <2>1, <2>2, <2>3, <2>4
<1>2. ASSUME NEW o \in Ops(r.todo), o.kind = "patch", Spared(o.card)'
      PROVE  Prepared(r, o)'
  <2>1. Spared(o.card) /\ (Live(o.card) => Live(o.card)')
    BY <1>1, <1>2 DEF Onward
  <2>2. Prepared(r, o)
    BY <1>2, <2>1 DEF Upright
  <2> QED BY <2>1, <2>2 DEF Prepared
<1>3. \A o \in r.flushed \cup r.acking : Done(o)'
  BY <1>1, DoneStays DEF Upright
<1>4. r.pc = "wait" /\ r.call.op.kind = "patch" /\ Spared(r.call.op.card)'
         => Live(r.call.op.card)'
  BY <1>1 DEF Onward, Upright, Asking
<1>5. r.pc = "got" /\ (r.call.op.kind = "patch" => r.reply \in Final)
         => Done(r.call.op)'
  <2> SUFFICES ASSUME r.pc = "got", r.call.op.kind = "patch" => r.reply \in Final
               PROVE  Done(r.call.op)'
    OBVIOUS
  <2>1. Done(r.call.op) /\ r.call.op.card \in Cards
    BY <1>1 DEF Upright, Asking
  <2> PICK o : o = r.call.op
    OBVIOUS
  <2>2. Done(o)'
    BY <2>1, DoneStays
  <2> QED BY <2>2
<1>6. /\ r.pc \in {"idle", "run", "wait", "got", "ack", "load"}
      /\ CreatesAhead(r.todo)
      /\ \A o \in Ops(r.todo) :
            o.epoch = 0 /\ (o.kind = "create" /\ Asking(r) => r.call.op.kind = "create")
      /\ Asking(r) => r.call.op.epoch = 0
  BY DEF Upright
<1> QED BY <1>2, <1>3, <1>4, <1>5, <1>6 DEF Upright

\* One flush moves, and the others stay as they are.
LEMMA RunMoves ==
    ASSUME SyncInv, RunsUpright, Onward, UNCHANGED queue,
           NEW t \in Tabs, NEW r, run' = [run EXCEPT ![t] = r], Upright(r)',
           Held(r) \subseteq Held(run[t])
    PROVE  RunsUpright'
<1>1. run \in [Tabs -> Runs] /\ \A u \in Tabs : Sound(run[u])
  BY DEF SyncInv, ClientInv, RunsOK
<1>2. ASSUME NEW u \in Tabs
      PROVE  Upright(run[u])' /\ Alike(Held(run[u]), queue[Dev(u)])'
  <2>1. CASE u = t
    <3>1. run'[u] = r
      BY <1>1, <2>1
    <3>2. Alike(Held(r), queue[Dev(t)])
      BY DEF RunsUpright, Alike
    <3>3. Upright(run[u])'
      BY <3>1
    <3>4. Alike(Held(run[u]), queue[Dev(u)])'
      BY <2>1, <3>1, <3>2
    <3> QED BY <3>3, <3>4
  <2>2. CASE u # t
    <3> PICK y : y = run[u]
      OBVIOUS
    <3>1. run'[u] = y
      BY <1>1, <2>2
    <3>2. Sound(y) /\ Upright(y) /\ Alike(Held(y), queue[Dev(u)])
      BY <1>1 DEF RunsUpright
    <3>3. Upright(y)'
      BY <3>2, UprightStays
    <3> QED BY <3>1, <3>2, <3>3
  <2> QED BY <2>1, <2>2
<1> QED BY <1>2 DEF RunsUpright

\* The runs stay, and the cloud moves on.
LEMMA RunsStay ==
    ASSUME SyncInv, RunsUpright, Onward, UNCHANGED <<queue, run>>
    PROVE  RunsUpright'
<1>1. \A u \in Tabs : Sound(run[u])
  BY DEF SyncInv, ClientInv, RunsOK
<1>2. ASSUME NEW u \in Tabs
      PROVE  Upright(run[u])' /\ Alike(Held(run[u]), queue[Dev(u)])'
  <2> PICK y : y = run[u]
    OBVIOUS
  <2>1. run'[u] = y /\ Sound(y) /\ Upright(y) /\ Alike(Held(y), queue[Dev(u)])
    BY <1>1 DEF RunsUpright
  <2>2. Upright(y)'
    BY <2>1, UprightStays
  <2> QED BY <2>1, <2>2
<1> QED BY <1>2 DEF RunsUpright

\* A step that stages nothing and leaves the queues as they are.
LEMMA CloudOrView ==
    ASSUME SyncInv, EditInv, Onward, UNCHANGED <<queue, ops>>,
           FirstGeneration', NoTombYet', RunsUpright',
           ShowsKnown
    PROVE  EditInv'
<1> USE DEF EditInv
<1>1. Now' = Now /\ \A i : Kind(i)' = Kind(i)
  BY DEF Now, Kind
<1>2. \A c : Spared(c)' = Spared(c)
  BY <1>1 DEF Spared
<1>3. CreatedFirst'
  BY <1>1 DEF CreatedFirst
<1>4. \A d \in Devices, c \in Cards : Spared(c) /\ Known(d, c) => Known(d, c)'
  BY <1>2 DEF Onward, Known
<1>5. QueuesTidy'
  <2>1. ASSUME NEW d \in Devices
        PROVE  /\ Tidy(queue[d])'
               /\ \A x \in Ops(queue[d])' : x.kind # "delete" => x.epoch \in {Unverified, 0}
               /\ \A x \in Ops(queue[d])' :
                     x.kind = "patch" /\ Spared(x.card)' => Known(d, x.card)'
    <3>1. queue[d]' = queue[d] /\ queue[d] \in Seq(Copies)
      BY DEF SyncInv, ClientInv, DeviceOK
    <3>2. \A x \in Ops(queue[d]) : x.card \in Cards
      BY <3>1, OpsIn DEF Copies, Operation
    <3>3. Ops(queue[d])' = Ops(queue[d])
      BY <3>1
    <3>4. Tidy(queue[d])'
      BY <3>1 DEF QueuesTidy
    <3>5. \A x \in Ops(queue[d]) : x.kind # "delete" => x.epoch \in {Unverified, 0}
      BY DEF QueuesTidy
    <3>6. \A x \in Ops(queue[d]) : x.kind = "patch" /\ Spared(x.card)' => Known(d, x.card)'
      BY <1>2, <1>4, <3>2 DEF QueuesTidy
    <3> QED BY <3>3, <3>4, <3>5, <3>6
  <2> QED BY <2>1 DEF QueuesTidy
<1>6. MirrorsTrue'
  <2>1. ASSUME NEW d \in Devices, NEW c \in Cards, view'[d][c].shown, Spared(c)'
        PROVE  Known(d, c)'
    BY <1>2, <1>4, <2>1 DEF MirrorsTrue, ShowsKnown
  <2>2. ASSUME NEW t \in Tabs, NEW c \in Cards, Brings(refresh'[t], c), Spared(c)'
        PROVE  Known(Dev(t), c)'
    BY <1>2, <1>4, <2>2, DevIn DEF MirrorsTrue, ShowsKnown
  <2> QED BY <2>1, <2>2 DEF MirrorsTrue, Brings
<1>7. NoEditLost'
  <2>1. ASSUME NEW i \in 1 .. Now, Kind(i) = "patch", Spared(ops[i].card), NEW f \in ops[i].mask
        PROVE  \/ Overridden(i, f)'
               \/ i \in saved'
               \/ \E d \in Devices : \E x \in Ops(queue[d])' : Carries(x, i, f)'
    <3>1. \/ Overridden(i, f)
          \/ i \in saved
          \/ \E d \in Devices : \E x \in Ops(queue[d]) : Carries(x, i, f)
      BY <2>1 DEF NoEditLost
    <3>2. Overridden(i, f) => Overridden(i, f)'
      BY <1>1 DEF Overridden
    <3>3. i \in saved => i \in saved'
      BY DEF Onward
    <3>4. \A x : Carries(x, i, f) => Carries(x, i, f)'
      BY DEF Carries
    <3> QED BY <3>1, <3>2, <3>3, <3>4
  <2> QED BY <1>1, <1>2, <2>1 DEF NoEditLost
<1> QED BY <1>3, <1>5, <1>6, <1>7

\* Where the cloud stands still, so does what an upright flush rests on.
LEMMA Stands ==
    ASSUME UNCHANGED <<card, epoch, ops, saved>>
    PROVE  Onward /\ \A r : Upright(r)' = Upright(r)
<1>1. /\ \A c : Live(c)' = Live(c) /\ Spared(c)' = Spared(c)
  BY DEF Live, Present, Spared, Now, Kind
<1>2. Onward
  BY <1>1 DEF Onward
<1>3. \A o : Done(o)' = Done(o)
  BY <1>1 DEF Done, AllSaved
<1>4. \A r, o : Prepared(r, o)' = Prepared(r, o)
  BY <1>1 DEF Prepared
<1>5. ASSUME NEW r PROVE Upright(r)' = Upright(r)
  BY <1>1, <1>3, <1>4, Zenon DEF Upright
<1> QED BY <1>2, <1>5

\* A mirror that shows no more, beside refreshes that stay as they are.
LEMMA MirrorShrinks ==
    ASSUME UNCHANGED refresh,
           \A d \in Devices, c \in Cards : view'[d][c].shown => view[d][c].shown
    PROVE  ShowsKnown
BY DEF ShowsKnown

\* One refresh moves.
LEMMA MirrorMoves ==
    ASSUME SyncInv, NEW t \in Tabs, NEW r, Moves(t, r),
           \A c \in Cards : Brings(r, c) =>
              Brings(refresh[t], c) \/ (Spared(c) => Known(Dev(t), c)),
           \A d \in Devices, c \in Cards : view'[d][c].shown =>
              view[d][c].shown \/ (Spared(c) => Known(d, c))
    PROVE  ShowsKnown
<1>1. refresh \in [Tabs -> Refreshes] /\ refresh' = [refresh EXCEPT ![t] = r]
  BY DEF SyncInv, ClientInv, DeviceOK, Moves
<1>2. ASSUME NEW u \in Tabs, NEW c \in Cards, Brings(refresh'[u], c)
      PROVE  Brings(refresh[u], c) \/ (Spared(c) => Known(Dev(u), c))
  <2>1. CASE u = t
    BY <1>1, <1>2, <2>1
  <2>2. CASE u # t
    BY <1>1, <1>2, <2>2
  <2> QED BY <2>1, <2>2
<1> QED BY <1>2 DEF ShowsKnown

-----------------------------------------------------------------------------
(* What the devices do by themselves.                                      *)

\* A step of one flush that touches neither the cloud nor a queue.
LEMMA FlushMoves ==
    ASSUME SyncInv, EditInv, UNCHANGED <<serverVars, queue, ops, saved>>,
           NEW t \in Tabs, NEW r, run' = [run EXCEPT ![t] = r], Upright(r),
           Held(r) \subseteq Held(run[t]),
           \A u \in Tabs : known'[u] \in {Unverified, 0},
           ShowsKnown
    PROVE  EditInv'
<1>1. UNCHANGED <<card, epoch, tomb>>
  BY DEF serverVars
<1>2. Onward /\ Upright(r)'
  BY <1>1, Stands
<1>3. RunsUpright'
  BY <1>2, RunMoves DEF EditInv
<1>4. FirstGeneration'
  BY <1>1 DEF FirstGeneration, EditInv
<1>5. NoTombYet'
  BY <1>1 DEF NoTombYet, EditInv, Spared, Now, Kind
<1> QED BY <1>2, <1>3, <1>4, <1>5, CloudOrView

\* A step that moves no flush, and neither the cloud nor a queue.
LEMMA NoFlushMoves ==
    ASSUME SyncInv, EditInv, UNCHANGED <<serverVars, queue, ops, saved, run>>,
           \A u \in Tabs : known'[u] \in {Unverified, 0},
           ShowsKnown
    PROVE  EditInv'
<1>1. UNCHANGED <<card, epoch, tomb>>
  BY DEF serverVars
<1>2. Onward
  BY <1>1, Stands
<1>3. RunsUpright'
  BY <1>2, RunsStay DEF EditInv
<1>4. FirstGeneration'
  BY <1>1 DEF FirstGeneration, EditInv
<1>5. NoTombYet'
  BY <1>1 DEF NoTombYet, EditInv, Spared, Now, Kind
<1> QED BY <1>2, <1>3, <1>4, <1>5, CloudOrView

\* A tab that runs no flush holds nothing.
LEMMA IdleUpright == Upright(Idle) /\ Held(Idle) = {}
<1>1. Ops(Idle.todo) = {} /\ Idle.flushed = {} /\ Idle.acking = {} /\ Idle.pc = "idle"
  BY OpsOfEmpty DEF Idle
<1>2. CreatesAhead(Idle.todo)
  BY DEF CreatesAhead, Idle
<1>3. ~Asking(Idle)
  BY <1>1 DEF Asking
<1> QED BY <1>1, <1>2, <1>3 DEF Upright, Held

\* A flush that ends loses nothing it has not acknowledged.
LEMMA AbortEdits ==
    ASSUME SyncInv, EditInv, UNCHANGED <<serverVars, queue, ops, saved>>,
           ShowsKnown,
           NEW t \in Tabs, run' = [run EXCEPT ![t] = Idle],
           \A u \in Tabs : known'[u] \in {Unverified, 0}
    PROVE  EditInv'
<1> PICK r : r = Idle
  OBVIOUS
<1>1. Upright(r) /\ Held(r) \subseteq Held(run[t]) /\ run' = [run EXCEPT ![t] = r]
  BY IdleUpright
<1> QED BY <1>1, FlushMoves

\* A flush that goes on, with done settled and now to be acknowledged first.
Continued(x, done, now) ==
    [x EXCEPT !.pc = IF now = {} THEN "run" ELSE "ack",
              !.call = NoCall, !.reply = "", !.rev = 0,
              !.flushed = @ \cup done, !.acking = now]

\* A flush goes on from an answer, with what the answer settled.
LEMMA ContinueUpright ==
    ASSUME NEW x \in Runs, x.pc = "got", Upright(x),
           NEW done, NEW now, done \cup now \subseteq {x.call.op},
           \A o \in done \cup now : Done(o),
           NEW r, r = Continued(x, done, now)
    PROVE  Upright(r) /\ Held(r) \subseteq Held(x)
<1>1. /\ r.todo = x.todo /\ r.flushed = x.flushed \cup done /\ r.acking = now
      /\ r.pc \in {"run", "ack"}
  BY DEF Runs, Continued
<1>2. ~Asking(r) /\ Asking(x)
  BY <1>1 DEF Asking
<1>3. \A o \in r.flushed \cup r.acking : Done(o)
  BY <1>1 DEF Upright
<1>4. \A o \in Ops(r.todo) : o.kind = "patch" /\ Spared(o.card) => Prepared(r, o)
  BY <1>1 DEF Upright, Prepared
<1>5. CreatesAhead(r.todo) /\ \A o \in Ops(r.todo) : o.epoch = 0
  BY <1>1 DEF Upright
<1>6. Upright(r)
  BY <1>1, <1>2, <1>3, <1>4, <1>5 DEF Upright
<1>7. Held(r) \subseteq Held(x)
  BY <1>1, <1>2 DEF Held
<1> QED BY <1>6, <1>7

\* The flush of a tab and the operation it was answered about.
LEMMA AnsweredFacts ==
    ASSUME SyncInv, EditInv, NEW t \in Tabs, run[t].pc \in {"wait", "got"}
    PROVE  /\ run[t] \in Runs /\ Upright(run[t])
           /\ run[t].call \in Calls /\ run[t].call.op \in Copies
           /\ run[t].call.op.card \in Cards
           /\ run[t].call.op.kind \in {"create", "patch", "delete"}
           /\ run[t].call.op.epoch = 0
<1>1. /\ run[t] \in Runs /\ run[t].call \in Calls /\ run[t].call.op \in Copies
      /\ run[t].call.op.card \in Cards
  BY GotFacts
<1>2. Upright(run[t])
  BY DEF EditInv, RunsUpright
<1>3. run[t].call.op.kind \in {"create", "patch", "delete"}
  BY <1>1, NoReviewCopies DEF EditInv
<1>4. run[t].call.op.epoch = 0
  BY <1>2 DEF Upright, Asking
<1> QED BY <1>1, <1>2, <1>3, <1>4

\* The tabs' epochs when they stay, or when one reads the epoch.
LEMMA KnownFacts ==
    ASSUME SyncInv, EditInv, NEW t \in Tabs,
           \/ known' = known
           \/ \E e \in {epoch, Unverified} : known' = [known EXCEPT ![t] = e]
    PROVE  \A u \in Tabs : known'[u] \in {Unverified, 0}
<1>1. epoch = 0 /\ \A u \in Tabs : known[u] \in {Unverified, 0}
  BY DEF EditInv, FirstGeneration
<1>2. known \in [Tabs -> Int]
  BY DEF SyncInv, ClientInv, DeviceOK
<1> QED BY <1>1, <1>2

\* An answer that settles an operation: what is settled was saved or is there.
LEMMA HandleSettledEdits ==
    ASSUME SyncInv, EditInv, NEW t \in Tabs, HandleSettled(t) PROVE EditInv'
<1> PICK x : x = run[t]
  OBVIOUS
<1> PICK op : op = x.call.op
  OBVIOUS
<1> PICK d : d = Dev(t)
  OBVIOUS
<1> PICK one : one = {op}
  OBVIOUS
<1> PICK none : none = {}
  OBVIOUS
<1> PICK r : r = Continued(x, one, none)
  OBVIOUS
<1>1. /\ UNCHANGED <<serverVars, queue, known, ops, saved, refresh>>
      /\ view' = [view EXCEPT ![d][op.card] =
                     SettledView(view[d][op.card], op, x.reply, x.rev)]
      /\ Continue(t, {op}, {})
      /\ Settled(t) /\ x.pc = "got"
  BY DEF HandleSettled, Settled, Got, SeeCard
<1>2. /\ x \in Runs /\ Upright(x) /\ op \in Copies /\ op.card \in Cards
      /\ op.kind \in {"create", "patch", "delete"}
  BY <1>1, AnsweredFacts
<1>3. /\ op.kind = "patch" => x.reply \in Final
      /\ x.reply \in {"created", "exists"} => op.kind = "create"
  BY <1>1, <1>2 DEF Settled, Got, Final
<1>4. Done(op)
  BY <1>1, <1>2, <1>3 DEF Upright
<1>5. run' = [run EXCEPT ![t] = r]
  BY <1>1 DEF Continue, Continued, SyncInv, ClientInv, RunsOK
<1>6. Upright(r) /\ Held(r) \subseteq Held(x)
  <2>1. one \cup none \subseteq {x.call.op} /\ \A o \in one \cup none : Done(o)
    BY <1>4
  <2>2. x \in Runs /\ x.pc = "got" /\ Upright(x)
    BY <1>1, <1>2
  <2> QED BY <2>1, <2>2, ContinueUpright
<1>7. \A u \in Tabs : known'[u] \in {Unverified, 0}
  BY <1>1, KnownFacts
<1>8. ASSUME NEW e \in Devices, NEW c \in Cards, view'[e][c].shown
      PROVE  view[e][c].shown \/ (Spared(c) => Known(e, c))
  <2>1. view \in [Devices -> [Cards -> Versions]] /\ d \in Devices
    BY DevIn DEF SyncInv, ClientInv, DeviceOK
  <2>2. CASE e = d /\ c = op.card
    <3>1. view'[e][c] = SettledView(view[d][c], op, x.reply, x.rev)
      BY <1>1, <1>2, <2>1, <2>2
    <3>2. CASE x.reply \in {"created", "exists"}
      BY <1>3, <1>4, <2>2, <3>2 DEF Done, Known
    <3>3. CASE x.reply \notin {"created", "exists"}
      <4> PICK v : v = view[d][c]
        OBVIOUS
      <4>1. view'[e][c] \in {v, Hidden} \/ v.shown
        BY <3>1, <3>3 DEF SettledView, PatchView, DropView
      <4>2. ~Hidden.shown
        BY DEF Hidden
      <4>3. v.shown
        BY <1>8, <4>1, <4>2
      <4> QED BY <2>2, <4>3
    <3> QED BY <3>2, <3>3
  <2>3. CASE ~(e = d /\ c = op.card)
    BY <1>1, <1>2, <1>8, <2>1, <2>3
  <2> QED BY <2>2, <2>3
<1>9. ShowsKnown
  BY <1>1, <1>8 DEF ShowsKnown
<1> QED BY <1>1, <1>5, <1>6, <1>7, <1>9, FlushMoves

\* An answer of an earlier generation is none here; it would settle no edit.
LEMMA HandleStaleEdits ==
    ASSUME SyncInv, EditInv, NEW t \in Tabs, HandleStale(t) PROVE EditInv'
<1> PICK x : x = run[t]
  OBVIOUS
<1> PICK op : op = x.call.op
  OBVIOUS
<1> PICK d : d = Dev(t)
  OBVIOUS
<1> PICK one : one = {op}
  OBVIOUS
<1> PICK none : none = {}
  OBVIOUS
<1> PICK r : r = Continued(x, one, none)
  OBVIOUS
<1>1. /\ UNCHANGED <<serverVars, queue, ops, saved, refresh>>
      /\ known' = [known EXCEPT ![t] = epoch]
      /\ view' = [view EXCEPT ![d][op.card] = DropOlder(view[d][op.card], epoch)]
      /\ Continue(t, {op}, {})
      /\ x.pc = "got" /\ x.reply = "stale-library-epoch"
  BY DEF HandleStale, Got, SeeCard
<1>2. /\ x \in Runs /\ Upright(x) /\ op \in Copies /\ op.card \in Cards
  BY <1>1, AnsweredFacts
<1>4. Done(op)
  BY <1>1, <1>2 DEF Upright, Final
<1>5. run' = [run EXCEPT ![t] = r]
  BY <1>1 DEF Continue, Continued, SyncInv, ClientInv, RunsOK
<1>6. Upright(r) /\ Held(r) \subseteq Held(x)
  <2>1. one \cup none \subseteq {x.call.op} /\ \A o \in one \cup none : Done(o)
    BY <1>4
  <2>2. x \in Runs /\ x.pc = "got" /\ Upright(x)
    BY <1>1, <1>2
  <2> QED BY <2>1, <2>2, ContinueUpright
<1>7. \A u \in Tabs : known'[u] \in {Unverified, 0}
  BY <1>1, KnownFacts
<1>8. ASSUME NEW e \in Devices, NEW c \in Cards, view'[e][c].shown
      PROVE  view[e][c].shown
  <2>1. view \in [Devices -> [Cards -> Versions]] /\ d \in Devices
    BY DevIn DEF SyncInv, ClientInv, DeviceOK
  <2> QED BY <1>1, <1>2, <1>8, <2>1 DEF DropOlder, Hidden
<1>9. ShowsKnown
  BY <1>1, <1>8, MirrorShrinks
<1> QED BY <1>1, <1>5, <1>6, <1>7, <1>9, FlushMoves

\* There is no review to be answered.
LEMMA NoReviewAnswers ==
    ASSUME SyncInv, EditInv, NEW t \in Tabs
    PROVE  ~HandleReviewed(t) /\ ~HandleRejected(t)
<1> SUFFICES ASSUME HandleReviewed(t) \/ HandleRejected(t) PROVE FALSE
  OBVIOUS
<1>1. run[t].pc = "got" /\ run[t].call.op.kind = "review"
  BY DEF HandleReviewed, HandleRejected, ReviewDone, Got
<1> QED BY <1>1, AnsweredFacts

\* An operation that stays queued, and one that ends the flush.
LEMMA HandleKeptEdits ==
    ASSUME SyncInv, EditInv, NEW t \in Tabs, HandleKept(t) PROVE EditInv'
<1> PICK x : x = run[t]
  OBVIOUS
<1> PICK r : r = Continued(x, {}, {})
  OBVIOUS
<1>1. /\ UNCHANGED <<serverVars, queue, view, refresh, known, ops, saved>>
      /\ Continue(t, {}, {})
      /\ x.pc = "got"
  BY DEF HandleKept, Got, history, mirrorVars
<1>2. x \in Runs /\ Upright(x)
  BY <1>1, AnsweredFacts
<1>3. run' = [run EXCEPT ![t] = r]
  BY <1>1 DEF Continue, Continued, SyncInv, ClientInv, RunsOK
<1>4. Upright(r) /\ Held(r) \subseteq Held(x)
  BY <1>1, <1>2, ContinueUpright
<1>5. \A u \in Tabs : known'[u] \in {Unverified, 0}
  BY <1>1, KnownFacts
<1>6. ShowsKnown
  BY <1>1, MirrorShrinks
<1> QED BY <1>1, <1>3, <1>4, <1>5, <1>6, FlushMoves

\* A refusal that ends the flush: nothing of it is acknowledged.
LEMMA HandleFailedEdits ==
    ASSUME SyncInv, EditInv, NEW t \in Tabs, HandleFailed(t) PROVE EditInv'
<1>1. /\ UNCHANGED <<serverVars, queue, view, refresh, ops, saved>>
      /\ run' = [run EXCEPT ![t] = Idle]
      /\ known' = known \/ known' = [known EXCEPT ![t] = epoch]
  BY DEF HandleFailed, Abort, history, mirrorVars
<1>2. \A u \in Tabs : known'[u] \in {Unverified, 0}
  BY <1>1, KnownFacts
<1>3. ShowsKnown
  BY <1>1, MirrorShrinks
<1> QED BY <1>1, <1>2, <1>3, AbortEdits

\* The first operation of a list and the others.
LEMMA HeadAndTail ==
    ASSUME NEW E, NEW s \in Seq(E), s # <<>>
    PROVE  /\ Ops(s) = {Head(s)} \cup Ops(Tail(s))
           /\ CreatesAhead(s) => CreatesAhead(Tail(s))
           /\ CreatesAhead(s) =>
                 \A o \in Ops(Tail(s)) : o.kind = "create" => Head(s).kind = "create"
<1> PICK h : h = Head(s)
  OBVIOUS
<1> PICK r : r = Tail(s)
  OBVIOUS
<1>1. /\ Len(s) \in Nat \ {0} /\ DOMAIN s = 1 .. Len(s)
      /\ h = s[1]
      /\ DOMAIN r = 1 .. Len(s) - 1
      /\ \A i \in 1 .. Len(s) - 1 : r[i] = s[i + 1]
  <2>1. /\ r \in Seq(E) /\ Len(r) = Len(s) - 1
        /\ \A i \in 1 .. Len(r) : r[i] = s[i + 1]
    BY HeadTailProperties
  <2>2. Len(s) \in Nat /\ Len(s) # 0 /\ DOMAIN s = 1 .. Len(s)
    BY LenProperties, EmptySeq
  <2>3. DOMAIN r = 1 .. Len(r)
    BY <2>1, LenProperties
  <2> QED BY <2>1, <2>2, <2>3
<1>2. Ops(s) \subseteq {h} \cup Ops(r)
  <2> SUFFICES ASSUME NEW k \in DOMAIN s, k # 1 PROVE s[k] \in Ops(r)
    BY <1>1 DEF Ops
  <2>1. k - 1 \in DOMAIN r /\ r[k - 1] = s[k]
    BY <1>1
  <2> QED BY <2>1 DEF Ops
<1>3. {h} \cup Ops(r) \subseteq Ops(s)
  BY <1>1 DEF Ops
<1>4. ASSUME CreatesAhead(s)
      PROVE  CreatesAhead(r) /\ \A o \in Ops(r) : o.kind = "create" => h.kind = "create"
  <2>1. CreatesAhead(r)
    BY <1>1, <1>4 DEF CreatesAhead
  <2>2. ASSUME NEW k \in DOMAIN r, r[k].kind = "create" PROVE h.kind = "create"
    <3>1. k + 1 \in DOMAIN s /\ 1 \in DOMAIN s /\ 1 < k + 1 /\ s[k + 1].kind = "create"
      BY <1>1, <2>2
    <3> QED BY <1>1, <1>4, <3>1 DEF CreatesAhead
  <2> QED BY <2>1, <2>2 DEF Ops
<1> QED BY <1>2, <1>3, <1>4

\* A flush sends its next operation; an edit only after every create.
LEMMA SendEdits ==
    ASSUME SyncInv, EditInv, NEW t \in Tabs, Send(t) PROVE EditInv'
<1> PICK x : x = run[t]
  OBVIOUS
<1> PICK op : op = Head(x.todo)
  OBVIOUS
<1> PICK q : q = Tail(x.todo)
  OBVIOUS
<1> PICK c : c = [op |-> op, base |-> op.base, try |-> 1, alive |-> TRUE]
  OBVIOUS
<1> PICK r : r = [x EXCEPT !.pc = "wait", !.todo = q, !.call = c]
  OBVIOUS
<1>1. /\ UNCHANGED <<serverVars, queue, view, refresh, known, ops, saved>>
      /\ x.todo # <<>> /\ x.pc = "run"
      /\ run' = [run EXCEPT ![t].pc = "wait", ![t].todo = Tail(@), ![t].call = c]
  BY DEF Send, history, mirrorVars
<1>2. x \in Runs /\ x.todo \in Seq(Copies)
  BY DEF SyncInv, ClientInv, RunsOK, Runs
<1>3. run' = [run EXCEPT ![t] = r]
  BY <1>1 DEF SyncInv, ClientInv, RunsOK
<1>4. /\ r.pc = "wait" /\ r.todo = q /\ r.call = c /\ r.call.op = op
      /\ r.flushed = x.flushed /\ r.acking = x.acking
  BY <1>2 DEF Runs
<1>5. Upright(x)
  BY DEF EditInv, RunsUpright
<1>6. /\ Ops(x.todo) = {op} \cup Ops(q)
      /\ CreatesAhead(q)
      /\ \A o \in Ops(q) : o.kind = "create" => op.kind = "create"
  BY <1>1, <1>2, <1>5, HeadAndTail DEF Upright
<1>7. Asking(r) /\ ~Asking(x)
  BY <1>1, <1>4 DEF Asking
<1>8. ASSUME NEW o \in Ops(q), o.kind = "patch", Spared(o.card) PROVE Prepared(r, o)
  <2>1. Prepared(x, o)
    BY <1>5, <1>6, <1>8 DEF Upright
  <2> QED BY <1>1, <1>4, <1>6, <2>1 DEF Prepared
<1>9. op.kind = "patch" /\ Spared(op.card) => Live(op.card)
  <2> SUFFICES ASSUME op.kind = "patch", Spared(op.card) PROVE Live(op.card)
    OBVIOUS
  <2>1. Prepared(x, op)
    BY <1>5, <1>6 DEF Upright
  <2> QED BY <1>1, <1>6, <2>1 DEF Prepared, IsCreateOf
<1>10. Upright(r)
  BY <1>4, <1>5, <1>6, <1>7, <1>8, <1>9 DEF Upright
<1>11. Held(r) \subseteq Held(x)
  BY <1>4, <1>6, <1>7 DEF Held
<1>12. \A u \in Tabs : known'[u] \in {Unverified, 0}
  BY <1>1, KnownFacts
<1>13. ShowsKnown
  BY <1>1, MirrorShrinks
<1> QED BY <1>1, <1>3, <1>10, <1>11, <1>12, <1>13, FlushMoves

\* What was sent is acknowledged next.
LEMMA AssertFinalEdits ==
    ASSUME SyncInv, EditInv, NEW t \in Tabs, AssertFinal(t) PROVE EditInv'
<1> PICK x : x = run[t]
  OBVIOUS
<1> PICK none : none = {}
  OBVIOUS
<1> PICK r : r = [x EXCEPT !.pc = "ack", !.acking = x.flushed, !.flushed = none]
  OBVIOUS
<1>1. /\ UNCHANGED <<serverVars, queue, view, refresh, known, ops, saved>>
      /\ x.pc = "run"
      /\ run' = [run EXCEPT ![t].pc = "ack", ![t].acking = x.flushed, ![t].flushed = none]
  BY DEF AssertFinal, history, mirrorVars
<1>2. x \in Runs /\ Upright(x)
  BY DEF SyncInv, ClientInv, RunsOK, EditInv, RunsUpright
<1>3. run' = [run EXCEPT ![t] = r]
  BY <1>1 DEF SyncInv, ClientInv, RunsOK
<1>4. /\ r.pc = "ack" /\ r.todo = x.todo /\ r.flushed = {} /\ r.acking = x.flushed
  BY <1>2 DEF Runs
<1>5. ~Asking(r) /\ ~Asking(x)
  BY <1>1, <1>4 DEF Asking
<1>6. \A o \in Ops(r.todo) : o.kind = "patch" /\ Spared(o.card) => Prepared(r, o)
  BY <1>1, <1>2, <1>4 DEF Upright, Prepared
<1>7. Upright(r)
  BY <1>2, <1>4, <1>5, <1>6 DEF Upright
<1>8. Held(r) \subseteq Held(x)
  BY <1>4, <1>5 DEF Held
<1>9. \A u \in Tabs : known'[u] \in {Unverified, 0}
  BY <1>1, KnownFacts
<1>10. ShowsKnown
  BY <1>1, MirrorShrinks
<1> QED BY <1>1, <1>3, <1>7, <1>8, <1>9, <1>10, FlushMoves

\* A refresh that is over brings nothing.
LEMMA NoRefreshBrings == \A c : ~Brings(NoRefresh, c)
<1>1. NoRefresh.page = {} /\ Ops(NoRefresh.todo) = {}
  BY OpsOfEmpty DEF NoRefresh
<1> QED BY <1>1 DEF Brings

\* A flush that ends, times out or whose page is gone; its lost answers, leases
\* that run out and epochs read again.
LEMMA QuietEdits ==
    ASSUME SyncInv, EditInv,
           \/ \E t \in Tabs : Finish(t) \/ Timeout(t) \/ Crash(t) \/ VerifyEpoch(t)
           \/ \E d \in Devices : Expire(d)
           \/ \E call \in late : LateDrop(call)
    PROVE  EditInv'
<1>1. ASSUME NEW t \in Tabs, Finish(t) \/ Timeout(t) \/ Crash(t) PROVE EditInv'
  <2>1. /\ UNCHANGED <<serverVars, queue, view, ops, saved>>
        /\ run' = [run EXCEPT ![t] = Idle]
        /\ known' = known \/ known' = [known EXCEPT ![t] = Unverified]
        /\ refresh' = refresh \/ Moves(t, NoRefresh)
    BY <1>1 DEF Finish, Timeout, Crash, Abort, history, mirrorVars, Moves
  <2>2. \A u \in Tabs : known'[u] \in {Unverified, 0}
    BY <2>1, KnownFacts
  <2>3. ShowsKnown
    BY <2>1, NoRefreshBrings, MirrorMoves, MirrorShrinks
  <2> QED BY <2>1, <2>2, <2>3, AbortEdits
<1>2. ASSUME NEW t \in Tabs, VerifyEpoch(t) PROVE EditInv'
  <2>1. /\ UNCHANGED <<serverVars, queue, view, refresh, ops, saved, run>>
        /\ known' = [known EXCEPT ![t] = epoch]
    BY <1>2 DEF VerifyEpoch, history, mirrorVars
  <2>2. \A u \in Tabs : known'[u] \in {Unverified, 0}
    BY <2>1, KnownFacts
  <2>3. ShowsKnown
    BY <2>1, MirrorShrinks
  <2> QED BY <2>1, <2>2, <2>3, NoFlushMoves
<1>3. ASSUME \/ \E d \in Devices : Expire(d)
             \/ \E call \in late : LateDrop(call)
      PROVE EditInv'
  <2>1. UNCHANGED <<serverVars, queue, view, refresh, ops, saved, run, known>>
    BY <1>3 DEF Expire, LateDrop, history, mirrorVars
  <2>2. \A u \in Tabs : known'[u] \in {Unverified, 0}
    BY <2>1 DEF EditInv, FirstGeneration
  <2>3. ShowsKnown
    BY <2>1, MirrorShrinks
  <2> QED BY <2>1, <2>2, <2>3, NoFlushMoves
<1> QED BY <1>1, <1>2, <1>3

\* The same operation, whatever generation it is bound to.
Copied(y, x) == /\ y.id = x.id /\ y.kind = x.kind /\ y.card = x.card
              /\ y.mask = x.mask /\ y.val = x.val

\* What a flush of this generation, or a refresh, loads: every operation of the
\* queue but deletes, and nothing else.
LEMMA Loaded ==
    ASSUME SyncInv, EditInv, NEW d \in Devices, NEW m, m = Merge(queue[d])
    PROVE  /\ m \in Seq(Copies) /\ Tidy(m) /\ Ops(m) = Ops(queue[d])
           /\ CurrentIn(m, 0) \in Seq(Copies) /\ StaleIn(m, 0) \in Seq(Copies)
           /\ \A y \in Ops(CurrentIn(m, 0)) :
                 y.epoch = 0 /\ \E x \in Ops(queue[d]) : Copied(y, x)
           /\ \A x \in Ops(queue[d]) : x.kind # "delete" =>
                 \E y \in Ops(CurrentIn(m, 0)) : Copied(y, x)
           /\ \A y \in Ops(StaleIn(m, 0)) :
                 y.kind = "delete" /\ \E x \in Ops(queue[d]) : Copied(y, x)
<1> PICK b : b = BoundTo(m, 0)
  OBVIOUS
<1>1. /\ queue[d] \in Seq(Copies) /\ Tidy(queue[d]) /\ StagedOK
      /\ \A x \in Ops(queue[d]) : x.kind # "delete" => x.epoch \in {Unverified, 0}
  BY DEF SyncInv, CloudInv, ClientInv, DeviceOK, EditInv, QueuesTidy
<1>2. m \in Seq(Copies) /\ Tidy(m) /\ Ops(m) = Ops(queue[d])
  BY <1>1, MergeTidy
<1>3. b \in Seq(Copies)
  BY <1>2, BoundFacts DEF EditInv, FirstGeneration
<1>4. ASSUME NEW x \in Copies
      PROVE  /\ Copied(Rebound(x, 0), x)
             /\ Rebound(x, 0).epoch = IF x.epoch = Unverified THEN 0 ELSE x.epoch
  <2>1. x \in Operation
    BY DEF Copies
  <2> QED BY <2>1 DEF Rebound, Copied, Operation
<1>5. /\ \A y \in Ops(b) : \E x \in Ops(m) : y = Rebound(x, 0)
      /\ \A x \in Ops(m) : Rebound(x, 0) \in Ops(b)
  BY DEF BoundTo, Ops
<1>6. Ops(m) \subseteq Copies
  BY <1>2, OpsIn
<1>7. /\ CurrentIn(m, 0) \in Seq(Copies)
      /\ Ops(CurrentIn(m, 0)) = {x \in Ops(b) : x.epoch = 0}
  <2> PICK S : S = {x \in Ops(b) : x.epoch = 0}
    OBVIOUS
  <2>1. CurrentIn(m, 0) = Keep(b, S)
    BY Zenon DEF CurrentIn
  <2> QED BY <1>3, <2>1, KeepFacts
<1>8. /\ StaleIn(m, 0) \in Seq(Copies)
      /\ Ops(StaleIn(m, 0)) = {x \in Ops(b) : x.epoch < 0}
  <2> PICK S : S = {x \in Ops(b) : x.epoch < 0}
    OBVIOUS
  <2>1. StaleIn(m, 0) = Keep(b, S)
    BY Zenon DEF StaleIn
  <2> QED BY <1>3, <2>1, KeepFacts
<1>9. \A y \in Ops(CurrentIn(m, 0)) :
         y.epoch = 0 /\ \E x \in Ops(queue[d]) : Copied(y, x)
  BY <1>2, <1>4, <1>5, <1>6, <1>7
<1>10. ASSUME NEW x \in Ops(queue[d]), x.kind # "delete"
       PROVE  \E y \in Ops(CurrentIn(m, 0)) : Copied(y, x)
  <2>1. Rebound(x, 0) \in Ops(b) /\ Copied(Rebound(x, 0), x) /\ Rebound(x, 0).epoch = 0
    BY <1>1, <1>2, <1>4, <1>5, <1>6, <1>10
  <2> QED BY <1>7, <2>1
<1>11. ASSUME NEW y \in Ops(StaleIn(m, 0))
       PROVE  y.kind = "delete" /\ \E x \in Ops(queue[d]) : Copied(y, x)
  <2>1. PICK x \in Ops(m) : y = Rebound(x, 0) /\ y.epoch < 0
    BY <1>5, <1>8, <1>11
  <2>2. Copied(y, x) /\ y.epoch = IF x.epoch = Unverified THEN 0 ELSE x.epoch
    BY <1>4, <1>6, <2>1
  <2>3. x.kind = "delete"
    <3> SUFFICES ASSUME x.kind # "delete" PROVE FALSE
      OBVIOUS
    <3>1. x.epoch = Unverified \/ x.epoch = 0
      BY <1>1, <1>2
    <3> QED BY <2>1, <2>2, <3>1
  <2> QED BY <1>2, <2>2, <2>3 DEF Copied
<1> QED BY <1>2, <1>7, <1>8, <1>9, <1>10, <1>11

\* What a refresh holds, it puts into the mirror.
LEMMA BroughtIsKnown ==
    ASSUME SyncInv, EditInv, NEW t \in Tabs,
           NEW page \in SUBSET [card : Cards, rev : Nat], PutCards(t, page),
           \A p \in page : Brings(refresh[t], p.card)
    PROVE  \A d \in Devices, c \in Cards : view'[d][c].shown =>
              view[d][c].shown \/ (Spared(c) => Known(d, c))
BY PutFacts DEF EditInv, MirrorsTrue

\* A refresh shows a card that is in the cloud or whose create is queued, though
\* the page it read and the queue it loaded are of earlier moments.
LEMMA RefreshEdits ==
    ASSUME SyncInv, EditInv, NEW t \in Tabs, RefreshMirror(t), ~LoadOverlay(t)
    PROVE  EditInv'
<1> PICK r : r = refresh[t]
  OBVIOUS
<1>1. UNCHANGED <<serverVars, queue, known, ops, saved, run>>
  BY DEF RefreshMirror, CaptureEpoch, BeginSync, ReadPage, PutPage, ConfirmEpoch,
         OverlayNext, FinishSync, AbandonRefresh, clientVars, history
<1>2. epoch = 0 /\ \A u \in Tabs : known'[u] \in {Unverified, 0}
  BY <1>1 DEF EditInv, FirstGeneration
<1>3. /\ r \in Refreshes /\ r.epoch = 0 /\ r.page \in SUBSET [card : Cards, rev : Nat]
      /\ r.left \in SUBSET Cards /\ r.todo \in Seq(Operation)
      /\ view \in [Devices -> [Cards -> Versions]]
  BY <1>2, RefreshFacts DEF SyncInv, ClientInv, DeviceOK
<1>4. CASE CaptureEpoch(t)
  <2> PICK x : x = [NoRefresh EXCEPT !.pc = "begin", !.epoch = epoch]
    OBVIOUS
  <2>1. x.page = NoRefresh.page /\ x.todo = NoRefresh.todo
    BY DEF NoRefresh
  <2>2. Moves(t, x) /\ view' = view /\ \A c : ~Brings(x, c)
    BY <1>4, <2>1, NoRefreshBrings DEF CaptureEpoch, clientVars, Brings
  <2>3. ShowsKnown
    BY <2>2, MirrorMoves
  <2> QED BY <1>1, <1>2, <2>3, NoFlushMoves
<1>5. CASE BeginSync(t)
  <2> PICK x : x = [r EXCEPT !.pc = "pages", !.left = Cards]
    OBVIOUS
  <2>1. x.page = r.page /\ x.todo = r.todo
    BY <1>3 DEF Refreshes
  <2>2. Moves(t, x) /\ view' = view /\ \A c : Brings(x, c) => Brings(r, c)
    BY <1>5, <2>1 DEF BeginSync, clientVars, Brings
  <2>3. ShowsKnown
    BY <2>2, MirrorMoves
  <2> QED BY <1>1, <1>2, <2>3, NoFlushMoves
<1>6. CASE ReadPage(t)
  <2>1. PICK part \in SUBSET r.left \ {{}} :
          Moves(t, [r EXCEPT !.pc = "page", !.left = @ \ part,
                             !.page = {[card |-> c, rev |-> card[c].rev] : c \in
                                         {x \in part : Present(card[x])
                                                        /\ card[x].epoch = r.epoch}}])
    BY <1>6 DEF ReadPage
  <2> DEFINE P == {[card |-> c, rev |-> card[c].rev] : c \in
                      {x \in part : Present(card[x]) /\ card[x].epoch = r.epoch}}
             L == r.left \ part
             x == [r EXCEPT !.pc = "page", !.left = L, !.page = P]
  <2>2. \A p \in P : Live(p.card)
    BY <1>2, <1>3 DEF Live
  <2>3. Moves(t, x) /\ view' = view
    BY <1>6, <2>1 DEF ReadPage, clientVars
  <2> HIDE DEF P, L
  <2>4. x.page = P /\ x.todo = r.todo
    BY <1>3 DEF Refreshes
  <2> HIDE DEF x
  <2>5. \A c : Brings(x, c) => Brings(r, c) \/ Known(Dev(t), c)
    BY <2>2, <2>4 DEF Brings, Known
  <2>6. ShowsKnown
    BY <2>3, <2>5, MirrorMoves
  <2> QED BY <1>1, <1>2, <2>6, NoFlushMoves
<1>7. CASE PutPage(t)
  <2> PICK none : none = {}
    OBVIOUS
  <2> PICK x : x = [r EXCEPT !.pc = "pages", !.page = none]
    OBVIOUS
  <2>1. x.page = {} /\ x.todo = r.todo
    BY <1>3 DEF Refreshes
  <2>2. Moves(t, x) /\ PutCards(t, r.page) /\ \A c : Brings(x, c) => Brings(r, c)
    BY <1>7, <2>1 DEF PutPage, Brings
  <2>3. \A p \in r.page : Brings(refresh[t], p.card)
    BY DEF Brings
  <2>4. ShowsKnown
    BY <1>3, <2>2, <2>3, BroughtIsKnown, MirrorMoves
  <2> QED BY <1>1, <1>2, <2>4, NoFlushMoves
<1>8. CASE ConfirmEpoch(t)
  <2> PICK p : p = IF Passed(t) THEN "load" ELSE "finish"
    OBVIOUS
  <2> PICK x : x = [r EXCEPT !.pc = p]
    OBVIOUS
  <2>1. x.page = r.page /\ x.todo = r.todo
    BY <1>3 DEF Refreshes
  <2>2. Moves(t, x) /\ view' = view /\ \A c : Brings(x, c) => Brings(r, c)
    BY <1>8, <2>1 DEF ConfirmEpoch, clientVars, Brings
  <2>3. ShowsKnown
    BY <2>2, MirrorMoves
  <2> QED BY <1>1, <1>2, <2>3, NoFlushMoves
<1>9. CASE OverlayNext(t)
  <2> PICK op : op = Head(r.todo)
    OBVIOUS
  <2> PICK q : q = Tail(r.todo)
    OBVIOUS
  <2> PICK x : x = [r EXCEPT !.todo = q]
    OBVIOUS
  <2>1. x.page = r.page /\ x.todo = q
    BY <1>3 DEF Refreshes
  <2>2. Ops(r.todo) = {op} \cup Ops(q) /\ op \in Operation
    BY <1>3, <1>9, HeadAndTail, HeadTailProperties DEF OverlayNext
  <2>3. Moves(t, x) /\ \A c : Brings(x, c) => Brings(r, c)
    BY <1>9, <2>1, <2>2 DEF OverlayNext, Brings
  <2>4. ASSUME NEW d \in Devices, NEW c \in Cards, view'[d][c].shown
        PROVE  view[d][c].shown \/ (Spared(c) => Known(d, c))
    <3>1. CASE op.kind = "create" /\ PutCards(t, {[card |-> op.card, rev |-> 0]})
      <4> PICK page : page = {[card |-> op.card, rev |-> 0]}
        OBVIOUS
      <4>1. op.card \in Cards
        BY <2>2 DEF Operation
      <4>2. page \in SUBSET [card : Cards, rev : Nat]
        BY <4>1
      <4>3. Brings(refresh[t], op.card)
        BY <2>2, <3>1 DEF Brings, IsCreateOf
      <4> QED BY <2>4, <3>1, <4>2, <4>3, BroughtIsKnown
    <3>2. CASE \/ view' = view
               \/ view' = [view EXCEPT ![Dev(t)][op.card] =
                             IF sync[Dev(t)].by = t THEN Hidden ELSE @]
      <4>1. ~Hidden.shown /\ op.card \in Cards /\ Dev(t) \in Devices
        BY <2>2, DevIn DEF Hidden, Operation
      <4> QED BY <1>3, <2>4, <3>2, <4>1
    <3> QED BY <1>9, <3>1, <3>2 DEF OverlayNext
  <2>5. ShowsKnown
    BY <2>3, <2>4, MirrorMoves
  <2> QED BY <1>1, <1>2, <2>5, NoFlushMoves
<1>10. CASE FinishSync(t)
  <2>1. ~Hidden.shown
    BY DEF Hidden
  <2>2. \A d \in Devices, c \in Cards : view'[d][c].shown => view[d][c].shown
    BY <1>3, <1>10, <2>1 DEF FinishSync
  <2>3. Moves(t, NoRefresh)
    BY <1>10 DEF FinishSync
  <2>4. ShowsKnown
    BY <2>2, <2>3, NoRefreshBrings, MirrorMoves
  <2> QED BY <1>1, <1>2, <2>4, NoFlushMoves
<1>11. CASE AbandonRefresh(t)
  <2>1. Moves(t, NoRefresh) /\ view' = view
    BY <1>11 DEF AbandonRefresh, clientVars
  <2>2. ShowsKnown
    BY <2>1, NoRefreshBrings, MirrorMoves
  <2> QED BY <1>1, <1>2, <2>2, NoFlushMoves
<1> QED BY <1>4, <1>5, <1>6, <1>7, <1>8, <1>9, <1>10, <1>11 DEF RefreshMirror

-----------------------------------------------------------------------------
(* The cloud's side of it.                                                 *)

\* Of a card nobody deletes there is no tombstone, so a create finds the card or
\* makes it.
LEMMA CreateEdits ==
    ASSUME SyncInv, EditInv, NEW op, Asked(op), op.kind = "create", op.epoch = 0,
           Execute(op), UNCHANGED ops, Spared(op.card)
    PROVE  Live(op.card)'
<1> PICK c : c = op.card
  OBVIOUS
<1>1. /\ epoch = 0 /\ card \in [Cards -> Document] /\ c \in Cards
      /\ tomb[c].rev = 0 /\ ServerOK
  BY DEF SyncInv, CloudInv, ServerOK, EditInv, FirstGeneration, NoTombYet, Asked, Operation
<1>2. TombRev(c) = 0
  BY <1>1 DEF TombRev
<1>3. Reply(op) = CreateReply(op) /\ CreateReply(op) \in {"exists", "created"}
  <2>1. ~WrongEpoch(op.epoch)
    BY <1>1 DEF WrongEpoch
  <2>2. ~BehindDeletion(op)
    <3>1. op.base \in Nat
      BY DEF Asked, Operation
    <3> QED BY <1>2, <3>1 DEF BehindDeletion
  <2>3. TombRev(c) # MaxCounter
    BY <1>2, CounterAssumption
  <2> QED BY <2>1, <2>2, <2>3 DEF CreateReply, Reply
<1>4. CASE Live(c)
  <2>1. ~Writes(op)
    BY <1>3, <1>4 DEF CreateReply, Writes, EpochRefusal, IsPatch
  <2>2. UNCHANGED serverVars
    BY <1>1, <2>1, ExecuteCases
  <2> QED BY <1>4, <2>2 DEF Live, Present, serverVars
<1>5. CASE ~Live(c)
  <2>1. CreateReply(op) = "created"
    BY <1>3, <1>5 DEF CreateReply, EpochRefusal
  <2>2. CreateCard(op)
    BY <1>1, <1>3, <2>1, ExecuteCases DEF Writes
  <2>3. card' = [card EXCEPT ![c] = Created(op)] /\ epoch' = epoch
    BY <2>2 DEF CreateCard
  <2>4. card'[c] = Created(op)
    BY <1>1, <2>3
  <2>5. Created(op).rev = 1 /\ Created(op).epoch = epoch
    BY <1>2 DEF Created
  <2> QED BY <2>3, <2>4, <2>5 DEF Live, Present
<1> QED BY <1>4, <1>5

\* After a final answer to an edit of a card that is there, it has been saved.
LEMMA PatchEdits ==
    ASSUME SyncInv, EditInv, NEW op, Asked(op), op.kind = "patch", op.epoch = 0,
           Execute(op), UNCHANGED ops, Live(op.card), Reply(op) \in Final
    PROVE  \A f \in op.mask : op.val[f] \in saved'
<1> PICK c : c = op.card
  OBVIOUS
<1>1. /\ epoch = 0 /\ card \in [Cards -> Document] /\ c \in Cards /\ ServerOK
      /\ op.mask \subseteq Fields
  BY DEF SyncInv, CloudInv, ServerOK, EditInv, FirstGeneration, Asked, Operation
<1>2. Reply(op) = PatchReply(op) /\ PatchReply(op) \in {"applied", "already-applied"}
  <2>1. ~WrongEpoch(op.epoch) /\ Present(card[c]) /\ ~OldGeneration(c)
    BY <1>1 DEF WrongEpoch, Live, OldGeneration
  <2>2. Reply(op) = PatchReply(op)
    BY DEF Reply
  <2> QED BY <2>1, <2>2 DEF PatchReply, Final
<1>3. \A f \in Fields : card'[c].val[f] \in saved'
  BY DEF Execute
<1>4. ASSUME NEW f \in op.mask PROVE card'[c].val[f] = op.val[f]
  <2>1. Overlay(card[c].val, op)[f] = op.val[f]
    BY <1>1 DEF Overlay
  <2>2. CASE PatchReply(op) = "applied"
    <3>1. PatchCard(op)
      BY <1>1, <1>2, <2>2, ExecuteCases DEF Writes, IsPatch
    <3>2. card'[c] = Patched(op)
      BY <1>1, <3>1 DEF PatchCard
    <3>3. Patched(op).val = Overlay(card[c].val, op)
      BY <1>1 DEF Patched, Document
    <3> QED BY <2>1, <3>2, <3>3
  <2>3. CASE PatchReply(op) = "already-applied"
    <3>1. ~Writes(op)
      BY <1>2, <2>3 DEF Writes, IsPatch
    <3>2. card' = card
      BY <1>1, <3>1, ExecuteCases DEF serverVars
    <3>3. Overlay(card[c].val, op) = card[c].val
      BY <2>3, Zenon DEF PatchReply, EpochRefusal
    <3> QED BY <2>1, <3>2, <3>3
  <2> QED BY <1>2, <2>2, <2>3
<1> QED BY <1>1, <1>3, <1>4

\* A transaction keeps what was saved and every card nobody deletes.
LEMMA ExecuteOnward ==
    ASSUME SyncInv, EditInv, NEW op, Asked(op), Execute(op), UNCHANGED ops
    PROVE  Onward /\ NoTombYet' /\ epoch' = epoch /\ \A c : Spared(c)' = Spared(c)
<1>1. /\ ServerOK /\ card \in [Cards -> Document] /\ op.card \in Cards
      /\ op.id \in 1 .. Now /\ op.kind = Kind(op.id) /\ op.card = ops[op.id].card
  BY DEF SyncInv, CloudInv, ServerOK, Asked, Operation
<1>2. op.kind # "review"
  BY <1>1 DEF EditInv, CreatedFirst
<1>3. /\ \A c : Spared(c)' = Spared(c)
      /\ saved \subseteq saved'
  BY DEF Spared, Now, Kind, Execute
<1>4. /\ epoch' = epoch
      /\ \A c \in Cards : Spared(c) => (Live(c) => Live(c)') /\ tomb'[c] = tomb[c]
  <2>1. CASE op.kind = "create" /\ CreateCard(op)
    <3>1. /\ epoch' = epoch /\ tomb' = tomb
          /\ card' = [card EXCEPT ![op.card] = Created(op)]
          /\ ~Live(op.card)
      BY <2>1 DEF CreateCard, CreateReply, EpochRefusal
    <3> QED BY <1>1, <3>1 DEF Live, Present
  <2>2. CASE op.kind = "patch" /\ PatchCard(op)
    <3>1. /\ epoch' = epoch /\ tomb' = tomb
          /\ card' = [card EXCEPT ![op.card] = Patched(op)]
      BY <2>2 DEF PatchCard
    <3>2. Patched(op).rev = card[op.card].rev + 1 /\ Patched(op).epoch = card[op.card].epoch
      BY <1>1 DEF Patched, Document
    <3>3. card[op.card].rev \in Nat
      BY <1>1 DEF Document
    <3> QED BY <1>1, <3>1, <3>2, <3>3 DEF Live, Present
  <2>3. CASE op.kind = "delete" /\ DeleteCard(op, Now)
    <3>1. ~Spared(op.card)
      BY <1>1, <2>3 DEF Spared
    <3>2. /\ epoch' = epoch
          /\ \A c \in Cards : c # op.card => card'[c] = card[c] /\ tomb'[c] = tomb[c]
      <4>1. tomb \in [Cards -> [epoch : Int, rev : Nat, op : OpIds \cup Nat, at : Nat]]
        BY <1>1 DEF ServerOK
      <4> QED BY <1>1, <2>3, <4>1 DEF DeleteCard
    <3> QED BY <3>1, <3>2 DEF Live
  <2>4. CASE UNCHANGED serverVars
    BY <2>4 DEF serverVars, Live
  <2> QED BY <1>1, <1>2, <2>1, <2>2, <2>3, <2>4, ExecuteCases
<1> QED BY <1>3, <1>4 DEF Onward, NoTombYet, EditInv

\* A transaction that a late call asks for.
LEMMA LateServeEdits ==
    ASSUME SyncInv, EditInv, NEW call \in late, LateServe(call) PROVE EditInv'
<1>1. UNCHANGED <<queue, view, refresh, known, run, ops>> /\ ShowsKnown
  BY MirrorShrinks DEF LateServe, mirrorVars
<1>2. FirstGeneration /\ RunsUpright /\ \A u \in Tabs : known'[u] \in {Unverified, 0}
  BY <1>1 DEF EditInv, FirstGeneration
<1>3. CASE UNCHANGED <<serverVars, saved>>
  BY <1>1, <1>2, <1>3, NoFlushMoves
<1>4. CASE Execute(Request(call))
  <2> PICK op : op = Request(call)
    OBVIOUS
  <2>1. Asked(op) /\ Execute(op)
    BY <1>4, RequestFacts DEF SyncInv, CloudInv, ClientInv, DeviceOK
  <2>2. Onward /\ NoTombYet' /\ epoch' = epoch
    BY <1>1, <2>1, ExecuteOnward
  <2>3. FirstGeneration'
    BY <1>2, <2>2 DEF FirstGeneration
  <2>4. RunsUpright'
    BY <1>1, <1>2, <2>2, RunsStay
  <2> QED BY <1>1, <2>2, <2>3, <2>4, CloudOrView
<1> QED BY <1>3, <1>4 DEF LateServe

\* The cloud answers a flush: what it settles was saved, what it created is there.
LEMMA ServeEdits ==
    ASSUME SyncInv, EditInv, NEW t \in Tabs, Serve(t) PROVE EditInv'
<1> PICK x : x = run[t]
  OBVIOUS
<1> PICK call : call = x.call
  OBVIOUS
<1> PICK op : op = Request(call)
  OBVIOUS
<1>1. UNCHANGED <<queue, view, refresh, known, ops>> /\ x.pc = "wait" /\ ShowsKnown
  BY MirrorShrinks DEF Serve, mirrorVars
<1>2. /\ x \in Runs /\ Upright(x) /\ call \in Calls /\ call.op \in Copies
      /\ call.op.card \in Cards
      /\ call.op.kind \in {"create", "patch", "delete"} /\ call.op.epoch = 0
  BY <1>1, AnsweredFacts
<1>3. /\ Asked(op) /\ op.kind = call.op.kind /\ op.card = call.op.card
      /\ op.epoch = 0
  BY <1>2, RequestFacts DEF SyncInv, CloudInv
<1>4. run \in [Tabs -> Runs] /\ Sound(x)
  BY DEF SyncInv, ClientInv, RunsOK
<1>5. FirstGeneration /\ RunsUpright /\ \A u \in Tabs : known'[u] \in {Unverified, 0}
  BY <1>1 DEF EditInv, FirstGeneration
<1>6. CASE Retried(call)
  <2> PICK n : n = Rebased(call)
    OBVIOUS
  <2> PICK r : r = [x EXCEPT !.call = n]
    OBVIOUS
  <2>1. /\ run' = [run EXCEPT ![t].call = n]
        /\ UNCHANGED <<serverVars, saved>>
    BY <1>6 DEF Serve
  <2>2. run' = [run EXCEPT ![t] = r]
    BY <1>4, <2>1
  <2>3. n.op = call.op
    BY <1>2 DEF Rebased, Calls
  <2>4. /\ r.pc = "wait" /\ r.todo = x.todo /\ r.call = n
        /\ r.flushed = x.flushed /\ r.acking = x.acking
    BY <1>1, <1>2 DEF Runs
  <2>5. Upright(r)
    <3>1. \A o \in Ops(r.todo) : Prepared(r, o) = Prepared(x, o)
      BY <1>1, <2>3, <2>4 DEF Prepared
    <3> QED BY <1>1, <1>2, <2>3, <2>4, <3>1 DEF Upright, Asking
  <2>6. Held(r) \subseteq Held(x)
    BY <1>1, <2>3, <2>4 DEF Held, Asking
  <2> QED BY <1>1, <1>5, <2>1, <2>2, <2>5, <2>6, FlushMoves
<1>7. CASE ~Retried(call)
  <2> PICK a : a = Answer(call)
    OBVIOUS
  <2> PICK n : n = AnsweredRev(Request(call))
    OBVIOUS
  <2> PICK r : r = [x EXCEPT !.pc = "got", !.reply = a, !.rev = n]
    OBVIOUS
  <2>1. /\ run' = [run EXCEPT ![t].pc = "got", ![t].reply = a, ![t].rev = n]
        /\ Execute(op)
    BY <1>7 DEF Serve
  <2>2. run' = [run EXCEPT ![t] = r]
    BY <1>4, <2>1
  <2>3. a = Reply(op)
    BY <1>2 DEF Answer, StaleReview
  <2>4. Onward /\ NoTombYet' /\ epoch' = epoch /\ \A c : Spared(c)' = Spared(c)
    BY <1>1, <1>3, <2>1, ExecuteOnward
  <2>5. /\ r.pc = "got" /\ r.todo = x.todo /\ r.call = call /\ r.reply = a
        /\ r.flushed = x.flushed /\ r.acking = x.acking
    BY <1>2 DEF Runs
  <2>6. op.kind = "create" /\ Spared(op.card) => Live(op.card)'
    BY <1>1, <1>3, <2>1, CreateEdits
  <2>7. op.kind = "patch" /\ Spared(op.card) /\ a \in Final
           => \A f \in op.mask : op.val[f] \in saved'
    <3> SUFFICES ASSUME op.kind = "patch", Spared(op.card), a \in Final
                 PROVE  \A f \in op.mask : op.val[f] \in saved'
      OBVIOUS
    <3>1. Live(op.card)
      BY <1>1, <1>2, <1>3 DEF Upright
    <3> QED BY <1>1, <1>3, <2>1, <2>3, <3>1, PatchEdits
  <2>8. op.mask = call.op.mask /\ op.val = call.op.val
    <3>1. call.op \in Operation
      BY <1>2 DEF Copies
    <3> QED BY <3>1 DEF Request, Operation
  <2>9. (call.op.kind = "patch" => a \in Final) => Done(call.op)'
    BY <1>3, <2>4, <2>6, <2>7, <2>8 DEF Done, AllSaved
  <2>10. Upright(x)'
    BY <1>2, <1>4, <2>4, UprightStays
  <2>11. ASSUME NEW o \in Ops(r.todo), o.kind = "patch", Spared(o.card)'
         PROVE  Prepared(r, o)'
    <3>1. Prepared(x, o)'
      BY <2>5, <2>10, <2>11 DEF Upright
    <3>2. CASE IsCreateOf(call.op, o.card)
      BY <1>3, <2>4, <2>6, <2>11, <3>2 DEF IsCreateOf, Prepared
    <3> QED BY <2>5, <3>1, <3>2 DEF Prepared
  <2>12. Upright(r)'
    BY <1>1, <1>2, <2>5, <2>9, <2>10, <2>11 DEF Upright, Asking
  <2>13. Held(r) \subseteq Held(x)
    BY <1>1, <2>5 DEF Held, Asking
  <2>14. RunsUpright'
    BY <1>1, <1>5, <2>2, <2>4, <2>12, <2>13, RunMoves
  <2>15. FirstGeneration'
    BY <1>5, <2>4 DEF FirstGeneration
  <2> QED BY <1>1, <2>4, <2>14, <2>15, CloudOrView
<1> QED BY <1>6, <1>7

-----------------------------------------------------------------------------
(* Loading and acknowledging the queue.                                    *)

\* Creates, followed by what are none.
LEMMA CreatesThenOthers ==
    ASSUME NEW E, NEW a \in Seq(E), NEW b \in Seq(E), CreatesAhead(a),
           \A x \in Ops(b) : x.kind # "create"
    PROVE  /\ a \o b \in Seq(E)
           /\ Ops(a \o b) = Ops(a) \cup Ops(b)
           /\ CreatesAhead(a \o b)
<1> PICK o : o = a \o b
  OBVIOUS
<1>1. o \in Seq(E) /\ Ops(o) = Ops(a) \cup Ops(b)
  BY ConcatProperties, OpsOfConcat
<1>2. /\ Len(a) \in Nat /\ Len(b) \in Nat /\ Len(o) = Len(a) + Len(b)
      /\ DOMAIN o = 1 .. Len(o) /\ DOMAIN a = 1 .. Len(a) /\ DOMAIN b = 1 .. Len(b)
      /\ \A i \in 1 .. Len(o) : o[i] = IF i <= Len(a) THEN a[i] ELSE b[i - Len(a)]
  BY <1>1, ConcatProperties, LenProperties
<1>3. \A k \in DOMAIN b : b[k].kind # "create"
  BY DEF Ops
<1>4. ASSUME NEW i \in DOMAIN o, NEW j \in DOMAIN o, i < j, o[j].kind = "create"
      PROVE  o[i].kind = "create"
  <2>1. j <= Len(a)
    <3> SUFFICES ASSUME ~(j <= Len(a)) PROVE FALSE
      OBVIOUS
    <3>1. j - Len(a) \in DOMAIN b /\ o[j] = b[j - Len(a)]
      BY <1>2
    <3> QED BY <1>3, <1>4, <3>1
  <2>2. /\ i \in DOMAIN a /\ j \in DOMAIN a /\ i < j
        /\ o[i] = a[i] /\ o[j] = a[j]
    BY <1>2, <1>4, <2>1
  <2> QED BY <1>4, <2>2 DEF CreatesAhead
<1>5. CreatesAhead(o)
  BY <1>4 DEF CreatesAhead
<1> QED BY <1>1, <1>5

\* A flush sends creates first, and nothing it did not load.
LEMMA FlushOrderFacts ==
    ASSUME NEW E, NEW s \in Seq(E), NEW o, o = FlushOrder(s)
    PROVE  /\ CreatesAhead(o)
           /\ Ops(o) \subseteq Ops(s)
           /\ \A x \in Ops(s) : x.kind = "create" => x \in Ops(o)
<1> DEFINE C == {x \in Ops(s) : x.kind = "create"}
           D == {x \in Ops(s) : x.kind = "delete"}
           P == {x \in Ops(s) : IsPatch(x)}
           a == Keep(s, C)
           b == Keep(s, D)
           p == Keep(s, P)
           ab == a \o b
<1>1. o = ab \o p
  BY Zenon DEF FlushOrder
<1>2. /\ \A x \in C : x.kind = "create"
      /\ \A x \in D \cup P : x.kind # "create"
      /\ C \cup D \cup P \subseteq Ops(s)
      /\ \A x \in Ops(s) : x.kind = "create" => x \in C
  BY DEF IsPatch
<1> HIDE DEF C, D, P
<1>3. /\ a \in Seq(E) /\ b \in Seq(E) /\ p \in Seq(E)
      /\ Ops(a) = Ops(s) \cap C /\ Ops(b) = Ops(s) \cap D /\ Ops(p) = Ops(s) \cap P
  BY KeepFacts
<1> HIDE DEF a, b, p
<1>4. CreatesAhead(a)
  BY <1>2, <1>3 DEF CreatesAhead, Ops
<1>5. ab \in Seq(E) /\ Ops(ab) = Ops(a) \cup Ops(b) /\ CreatesAhead(ab)
  BY <1>2, <1>3, <1>4, CreatesThenOthers
<1> HIDE DEF ab
<1>6. Ops(ab \o p) = Ops(ab) \cup Ops(p) /\ CreatesAhead(ab \o p)
  BY <1>2, <1>3, <1>5, CreatesThenOthers
<1> QED BY <1>1, <1>2, <1>3, <1>5, <1>6

\* A step that takes from one queue only what is done, by a flush of that device.
LEMMA QueueMoves ==
    ASSUME SyncInv, EditInv, UNCHANGED <<serverVars, ops, saved>>,
           NEW t \in Tabs, NEW d, d = Dev(t), NEW q \in Seq(Copies), Tidy(q),
           queue' = [queue EXCEPT ![d] = q],
           Ops(q) \subseteq Ops(queue[d]),
           \A x \in Ops(queue[d]) : x \in Ops(q) \/ Done(x),
           NEW r, run' = [run EXCEPT ![t] = r], Upright(r), Alike(Held(r), q),
           \A u \in Tabs : known'[u] \in {Unverified, 0},
           ShowsKnown
    PROVE  EditInv'
<1> USE DEF EditInv
<1>1. UNCHANGED <<card, epoch, tomb>> /\ d \in Devices
  BY DevIn DEF serverVars
<1>2. Onward /\ \A x : Upright(x)' = Upright(x)
  BY <1>1, Stands
<1>3. /\ Now' = Now /\ \A i : Kind(i)' = Kind(i)
      /\ \A c : Spared(c)' = Spared(c) /\ Live(c)' = Live(c)
  BY <1>1 DEF Now, Kind, Spared, Live, Present
<1>4. /\ queue \in [Devices -> Seq(Copies)] /\ queue'[d] = q
      /\ \A e \in Devices : e # d => queue'[e] = queue[e]
      /\ \A e \in Devices : Ops(queue'[e]) \subseteq Ops(queue[e])
      /\ \A e \in Devices : \A x \in Ops(queue[e]) : x \in Ops(queue'[e]) \/ Done(x)
  BY <1>1 DEF SyncInv, ClientInv, DeviceOK
<1>5. \A e \in Devices : \A x \in Ops(queue[e]) : x.card \in Cards
  BY <1>4, OpsIn DEF Copies, Operation
<1>6. CreatedFirst' /\ FirstGeneration' /\ NoTombYet'
  BY <1>1, <1>3 DEF CreatedFirst, FirstGeneration, NoTombYet
<1>7. ASSUME NEW e \in Devices, NEW c \in Cards, Spared(c), Known(e, c)
      PROVE  Known(e, c)'
  <2>1. CASE Live(c)
    BY <1>3, <2>1 DEF Known
  <2>2. ASSUME NEW y \in Ops(queue[e]), IsCreateOf(y, c) PROVE Known(e, c)'
    <3>1. CASE y \in Ops(queue'[e])
      BY <2>2, <3>1 DEF Known, IsCreateOf
    <3>2. CASE Done(y)
      BY <1>3, <1>7, <2>2, <3>2 DEF Done, IsCreateOf, Known
    <3> QED BY <1>4, <3>1, <3>2
  <2> QED BY <1>7, <2>1, <2>2 DEF Known, IsCreateOf
<1>8. QueuesTidy'
  <2>1. ASSUME NEW e \in Devices
        PROVE  /\ Tidy(queue'[e])
               /\ \A x \in Ops(queue'[e]) : x.kind # "delete" => x.epoch \in {Unverified, 0}
               /\ \A x \in Ops(queue'[e]) :
                     x.kind = "patch" /\ Spared(x.card)' => Known(e, x.card)'
    <3>1. Tidy(queue'[e])
      BY <1>4 DEF QueuesTidy
    <3>2. \A x \in Ops(queue'[e]) : x.kind # "delete" => x.epoch \in {Unverified, 0}
      BY <1>4 DEF QueuesTidy
    <3>3. \A x \in Ops(queue'[e]) : x.kind = "patch" /\ Spared(x.card)' => Known(e, x.card)'
      BY <1>3, <1>4, <1>5, <1>7 DEF QueuesTidy
    <3> QED BY <3>1, <3>2, <3>3
  <2>2. \A e \in Devices : Tidy(queue[e])' = Tidy(queue'[e])
    BY DEF Tidy, Staging, InRank, Proper, Reduced, Follows
  <2> QED BY <2>1, <2>2 DEF QueuesTidy
<1>9. MirrorsTrue'
  <2>1. ASSUME NEW e \in Devices, NEW c \in Cards, view'[e][c].shown, Spared(c)'
        PROVE  Known(e, c)'
    BY <1>3, <1>7, <2>1 DEF MirrorsTrue, ShowsKnown
  <2>2. ASSUME NEW u \in Tabs, NEW c \in Cards, Brings(refresh'[u], c), Spared(c)'
        PROVE  Known(Dev(u), c)'
    BY <1>3, <1>7, <2>2, DevIn DEF MirrorsTrue, ShowsKnown
  <2> QED BY <2>1, <2>2 DEF MirrorsTrue, Brings
<1>10. RunsUpright'
  <2>1. run \in [Tabs -> Runs]
    BY DEF SyncInv, ClientInv, RunsOK
  <2>2. ASSUME NEW u \in Tabs
        PROVE  Upright(run'[u]) /\ Alike(Held(run'[u]), queue'[Dev(u)])
    <3>1. CASE u = t
      BY <1>4, <2>1, <3>1
    <3>2. CASE u # t
      <4>1. run'[u] = run[u] /\ Ops(queue'[Dev(u)]) \subseteq Ops(queue[Dev(u)])
        BY <1>4, <2>1, <3>2, DevIn
      <4> QED BY <4>1 DEF RunsUpright, Alike
    <3> QED BY <3>1, <3>2
  <2>3. ASSUME NEW u \in Tabs
        PROVE  Upright(run[u])' /\ Alike(Held(run[u]), queue[Dev(u)])'
    <3> PICK z : z = run'[u]
      OBVIOUS
    <3>1. Upright(z)' /\ Alike(Held(z), queue'[Dev(u)])
      BY <1>2, <2>2
    <3> QED BY <3>1
  <2> QED BY <2>3 DEF RunsUpright
<1>11. NoEditLost'
  <2>1. ASSUME NEW i \in 1 .. Now, Kind(i) = "patch", Spared(ops[i].card), NEW f \in ops[i].mask
        PROVE  \/ Overridden(i, f)
               \/ i \in saved
               \/ \E e \in Devices : \E x \in Ops(queue'[e]) : Carries(x, i, f)
    <3>1. ASSUME NEW e \in Devices, NEW x \in Ops(queue[e]), Carries(x, i, f)
          PROVE  x \in Ops(queue'[e]) \/ i \in saved
      BY <1>4, <2>1, <3>1 DEF Carries, Done, AllSaved
    <3> QED BY <2>1, <3>1 DEF NoEditLost
  <2>2. \A i, f : Overridden(i, f)' = Overridden(i, f)
    BY <1>3 DEF Overridden
  <2>3. \A x, i, f : Carries(x, i, f)' = Carries(x, i, f)
    BY DEF Carries
  <2> QED BY <1>3, <2>1, <2>2, <2>3 DEF NoEditLost
<1> QED BY <1>6, <1>8, <1>9, <1>10, <1>11

\* A flush loads creates before the edits that need them, and drops but deletes.
LEMMA StartFlushEdits ==
    ASSUME SyncInv, EditInv, NEW t \in Tabs, StartFlush(t) PROVE EditInv'
<1> PICK d : d = Dev(t)
  OBVIOUS
<1> PICK m : m = Merge(queue[d])
  OBVIOUS
<1> PICK e : e = IF FutureIn(m, known[t]) = <<>> THEN known[t] ELSE epoch
  OBVIOUS
<1> PICK stale : stale = StaleIn(m, e)
  OBVIOUS
<1> PICK cur : cur = CurrentIn(m, e)
  OBVIOUS
<1> PICK o : o = FlushOrder(cur)
  OBVIOUS
<1> PICK p : p = IF stale = <<>> THEN "run" ELSE "ack"
  OBVIOUS
<1> PICK A : A = ToSet(stale)
  OBVIOUS
<1> PICK i : i = Idle
  OBVIOUS
<1> PICK r : r = [i EXCEPT !.pc = p, !.acking = A, !.todo = o]
  OBVIOUS
<1>1. /\ UNCHANGED <<serverVars, ops, saved, refresh>>
      /\ CanFlush(t)
      /\ known' = [known EXCEPT ![t] = e]
      /\ queue' = [queue EXCEPT ![d] = m]
      /\ view' = [view EXCEPT ![d] = [c \in Cards |->
                      IF CommandsOn(stale, c) # <<>>
                      THEN DropOlder(view[d][c], e) ELSE view[d][c]]]
      /\ run' = [run EXCEPT ![t] =
                     [Idle EXCEPT !.pc = IF stale = <<>> THEN "run" ELSE "ack",
                                  !.acking = ToSet(stale),
                                  !.todo = o]]
  BY Zenon DEF StartFlush, mirrorVars
<1>2. run' = [run EXCEPT ![t] = r] /\ d \in Devices
  BY <1>1, DevIn
<1>3. e = 0 /\ \A u \in Tabs : known[u] \in {Unverified, 0}
  BY <1>1 DEF CanFlush, EditInv, FirstGeneration
<1>4. /\ m \in Seq(Copies) /\ Tidy(m) /\ Ops(m) = Ops(queue[d])
      /\ cur \in Seq(Copies) /\ stale \in Seq(Copies)
      /\ \A y \in Ops(cur) : y.epoch = 0 /\ \E x \in Ops(queue[d]) : Copied(y, x)
      /\ \A x \in Ops(queue[d]) : x.kind # "delete" => \E y \in Ops(cur) : Copied(y, x)
      /\ \A y \in Ops(stale) : y.kind = "delete" /\ \E x \in Ops(queue[d]) : Copied(y, x)
  BY <1>2, <1>3, Loaded
<1>5. /\ CreatesAhead(o) /\ Ops(o) \subseteq Ops(cur)
      /\ \A x \in Ops(cur) : x.kind = "create" => x \in Ops(o)
  BY <1>4, FlushOrderFacts
<1>6. A = Ops(stale)
  BY DEF ToSet, Ops
<1>7. /\ r.pc = p /\ r.acking = A /\ r.todo = o /\ r.flushed = {}
  BY DEF Idle
<1>8. p \in {"run", "ack"} /\ ~Asking(r)
  BY <1>7 DEF Asking
<1>9. ASSUME NEW y \in Ops(o), y.kind = "patch", Spared(y.card) PROVE Prepared(r, y)
  <2>1. PICK x \in Ops(queue[d]) : Copied(y, x)
    BY <1>4, <1>5
  <2>2. Known(d, y.card)
    BY <1>2, <1>9, <2>1 DEF Copied, EditInv, QueuesTidy
  <2>3. ASSUME NEW z \in Ops(queue[d]), IsCreateOf(z, y.card) PROVE Prepared(r, y)
    <3>1. PICK w \in Ops(cur) : Copied(w, z)
      BY <1>4, <2>3 DEF IsCreateOf
    <3>2. w \in Ops(o) /\ IsCreateOf(w, y.card)
      BY <1>5, <2>3, <3>1 DEF IsCreateOf, Copied
    <3> QED BY <1>7, <3>2 DEF Prepared
  <2> QED BY <2>2, <2>3 DEF Known, IsCreateOf, Prepared
<1>10. \A x \in A : Done(x)
  BY <1>4, <1>6 DEF Done
<1>11. Upright(r)
  BY <1>4, <1>5, <1>7, <1>8, <1>9, <1>10 DEF Upright, Asking
<1>12. Alike(Held(r), m)
  <2>1. Held(r) = Ops(o) \cup A
    BY <1>7, <1>8 DEF Held
  <2>2. ASSUME NEW h \in Held(r), NEW x \in Ops(m), h.id = x.id
        PROVE  x.mask = h.mask /\ x.val = h.val
    <3>1. PICK z \in Ops(queue[d]) : Copied(h, z)
      BY <1>4, <1>5, <1>6, <2>1
    <3>2. z = x
      <4>1. z \in Ops(m) /\ z.id = x.id /\ StagedOK
        BY <1>4, <2>2, <3>1 DEF Copied, SyncInv, CloudInv
      <4> QED BY <1>4, <4>1, TidyIds
    <3> QED BY <3>1, <3>2 DEF Copied
  <2> QED BY <2>2 DEF Alike
<1>13. \A u \in Tabs : known'[u] \in {Unverified, 0}
  <2>1. known \in [Tabs -> Int]
    BY DEF SyncInv, ClientInv, DeviceOK
  <2> QED BY <1>1, <1>3, <2>1
<1>14. ASSUME NEW b \in Devices, NEW c \in Cards, view'[b][c].shown
       PROVE  view[b][c].shown
  <2>1. view \in [Devices -> [Cards -> Versions]]
    BY DEF SyncInv, ClientInv, DeviceOK
  <2> QED BY <1>1, <1>14, <2>1 DEF DropOlder, Hidden
<1>15. ShowsKnown
  BY <1>1, <1>14, MirrorShrinks
<1> QED BY <1>1, <1>2, <1>4, <1>11, <1>12, <1>13, <1>15, QueueMoves

\* An acknowledgement takes from the queue as it is now only what is done, though
\* the queue may have changed since the flush loaded it.
LEMMA AckEdits ==
    ASSUME SyncInv, EditInv, NEW t \in Tabs, Ack(t) PROVE EditInv'
<1> PICK x : x = run[t]
  OBVIOUS
<1> PICK d : d = Dev(t)
  OBVIOUS
<1> PICK q : q = Acknowledged(queue[d], x.acking)
  OBVIOUS
<1> PICK none : none = {}
  OBVIOUS
<1> PICK r : r = [x EXCEPT !.pc = "load", !.acking = none]
  OBVIOUS
<1>1. /\ UNCHANGED <<serverVars, view, refresh, known, ops, saved>> /\ x.pc = "ack"
      /\ queue' = [queue EXCEPT ![Dev(t)] = Acknowledged(@, x.acking)]
      /\ run' = [run EXCEPT ![t].pc = "load", ![t].acking = none]
  BY DEF Ack, mirrorVars
<1>2. /\ x \in Runs /\ Upright(x) /\ Alike(Held(x), queue[d]) /\ d \in Devices
      /\ queue \in [Devices -> Seq(Copies)] /\ Tidy(queue[d]) /\ StagedOK
  BY DevIn DEF SyncInv, CloudInv, ClientInv, RunsOK, DeviceOK, EditInv, RunsUpright, QueuesTidy
<1>3. run' = [run EXCEPT ![t] = r]
  BY <1>1 DEF SyncInv, ClientInv, RunsOK
<1>4. queue' = [queue EXCEPT ![d] = q]
  BY <1>1, <1>2
<1>5. /\ q \in Seq(Copies) /\ Tidy(q)
      /\ Ops(q) = {y \in Ops(queue[d]) : \A o \in x.acking : o.id # y.id}
  BY <1>2, AckTidy DEF EditInv
<1>6. /\ r.pc = "load" /\ r.todo = x.todo /\ r.flushed = x.flushed /\ r.acking = {}
  BY <1>2 DEF Runs
<1>7. ~Asking(r) /\ ~Asking(x)
  BY <1>1, <1>6 DEF Asking
<1>8. Upright(r)
  <2>1. \A o \in Ops(r.todo) : o.kind = "patch" /\ Spared(o.card) => Prepared(r, o)
    BY <1>1, <1>2, <1>6 DEF Upright, Prepared
  <2> QED BY <1>2, <1>6, <1>7, <2>1 DEF Upright, Asking
<1>9. Alike(Held(r), q)
  <2>1. Held(r) \subseteq Held(x)
    BY <1>6, <1>7 DEF Held
  <2> QED BY <1>2, <1>5, <2>1 DEF Alike
<1>10. ASSUME NEW y \in Ops(queue[d]), y \notin Ops(q) PROVE Done(y)
  <2>1. PICK o \in x.acking : o.id = y.id
    BY <1>5, <1>10
  <2>2. o \in Copies /\ y \in Copies
    BY <1>2, <2>1, OpsIn DEF Runs
  <2>3. Done(o) /\ o.mask = y.mask /\ o.val = y.val
    BY <1>2, <2>1 DEF Upright, Alike, Held
  <2>4. o.kind = y.kind /\ o.card = y.card
    BY <2>1, <2>2 DEF Copies
  <2> QED BY <2>3, <2>4 DEF Done, AllSaved
<1>11. \A u \in Tabs : known'[u] \in {Unverified, 0}
  BY <1>1, KnownFacts
<1>12. /\ Ops(q) \subseteq Ops(queue[d])
       /\ \A y \in Ops(queue[d]) : y \in Ops(q) \/ Done(y)
       /\ ShowsKnown
  BY <1>1, <1>5, <1>10, MirrorShrinks
<1>13. /\ UNCHANGED <<serverVars, ops, saved>>
       /\ q \in Seq(Copies) /\ Tidy(q)
  BY <1>1, <1>5
<1> QED BY <1>3, <1>4, <1>8, <1>9, <1>11, <1>12, <1>13, QueueMoves

\* A load merges a queue, which holds the same commands after it.
LEMMA LoadEdits ==
    ASSUME SyncInv, EditInv, UNCHANGED <<serverVars, ops, saved, known>>,
           NEW t \in Tabs, LoadPending(Dev(t)),
           NEW r, run' = [run EXCEPT ![t] = r], Upright(r), Held(r) \subseteq Held(run[t]),
           ShowsKnown
    PROVE  EditInv'
<1> PICK d : d = Dev(t)
  OBVIOUS
<1> PICK q : q = Merge(queue[d])
  OBVIOUS
<1>1. d \in Devices /\ queue \in [Devices -> Seq(Copies)]
  BY DevIn DEF SyncInv, ClientInv, DeviceOK
<1>2. queue' = [queue EXCEPT ![d] = q]
  BY <1>1 DEF LoadPending
<1>3. q \in Seq(Copies) /\ Tidy(q) /\ Ops(q) = Ops(queue[d])
  BY <1>1, Loaded
<1>4. Alike(Held(r), q)
  BY <1>3 DEF EditInv, RunsUpright, Alike
<1>5. \A u \in Tabs : known'[u] \in {Unverified, 0}
  BY DEF EditInv, FirstGeneration
<1>6. Ops(q) \subseteq Ops(queue[d]) /\ \A x \in Ops(queue[d]) : x \in Ops(q) \/ Done(x)
  BY <1>3
<1> QED BY <1>2, <1>3, <1>4, <1>5, <1>6, QueueMoves

\* The load that follows an acknowledgement.
LEMMA RefreshPendingEdits ==
    ASSUME SyncInv, EditInv, NEW t \in Tabs, RefreshPending(t) PROVE EditInv'
<1> PICK x : x = run[t]
  OBVIOUS
<1> PICK r : r = [x EXCEPT !.pc = "run"]
  OBVIOUS
<1>1. /\ UNCHANGED <<serverVars, view, refresh, known, ops, saved>> /\ x.pc = "load"
      /\ LoadPending(Dev(t))
      /\ run' = [run EXCEPT ![t].pc = "run"]
  BY DEF RefreshPending, mirrorVars
<1>2. x \in Runs /\ Upright(x)
  BY DEF SyncInv, ClientInv, RunsOK, EditInv, RunsUpright
<1>3. run' = [run EXCEPT ![t] = r]
  BY <1>1 DEF SyncInv, ClientInv, RunsOK
<1>4. /\ r.pc = "run" /\ r.todo = x.todo /\ r.flushed = x.flushed
      /\ r.acking = x.acking
  BY <1>2 DEF Runs
<1>5. ~Asking(r) /\ ~Asking(x)
  BY <1>1, <1>4 DEF Asking
<1>6. Upright(r)
  <2>1. \A o \in Ops(r.todo) : o.kind = "patch" /\ Spared(o.card) => Prepared(r, o)
    BY <1>1, <1>2, <1>4 DEF Upright, Prepared
  <2> QED BY <1>2, <1>4, <1>5, <2>1 DEF Upright, Asking
<1>7. Held(r) \subseteq Held(x)
  BY <1>4, <1>5 DEF Held
<1>8. ShowsKnown
  BY <1>1, MirrorShrinks
<1> QED BY <1>1, <1>3, <1>6, <1>7, <1>8, LoadEdits

\* The load of a refresh, whose creates it brings into the mirror.
LEMMA LoadOverlayEdits ==
    ASSUME SyncInv, EditInv, NEW t \in Tabs, LoadOverlay(t) PROVE EditInv'
<1> PICK r : r = refresh[t]
  OBVIOUS
<1> PICK d : d = Dev(t)
  OBVIOUS
<1> PICK y : y = run[t]
  OBVIOUS
<1> PICK q : q = CurrentIn(Merge(queue[d]), r.epoch)
  OBVIOUS
<1> PICK x : x = [r EXCEPT !.pc = "overlay", !.todo = q]
  OBVIOUS
<1>1. /\ UNCHANGED <<serverVars, view, known, run, ops, saved>>
      /\ LoadPending(d)
      /\ Moves(t, x)
  BY DEF LoadOverlay
<1>2. r \in Refreshes /\ r.epoch = 0
  BY RefreshFacts DEF EditInv, FirstGeneration
<1>3. x.page = r.page /\ x.todo = q
  BY <1>2 DEF Refreshes
<1>4. \A w \in Ops(q) : \E z \in Ops(queue[d]) : Copied(w, z)
  BY <1>2, DevIn, Loaded
<1>5. ASSUME NEW c \in Cards, Brings(x, c) PROVE Brings(r, c) \/ Known(d, c)
  <2>1. CASE \E p \in r.page : p.card = c
    BY <2>1 DEF Brings
  <2>2. ASSUME NEW w \in Ops(q), IsCreateOf(w, c) PROVE Known(d, c)
    BY <1>4, <2>2 DEF Known, IsCreateOf, Copied
  <2> QED BY <1>3, <1>5, <2>1, <2>2 DEF Brings
<1>6. ShowsKnown
  BY <1>1, <1>5, MirrorMoves
<1>7. run' = [run EXCEPT ![t] = y] /\ Upright(y) /\ Held(y) \subseteq Held(run[t])
  BY <1>1 DEF SyncInv, ClientInv, RunsOK, EditInv, RunsUpright
<1> QED BY <1>1, <1>6, <1>7, LoadEdits

-----------------------------------------------------------------------------
(* Staging one more operation.                                             *)

\* What becomes of the commands S of a card when op joins them: an edit leaves
\* them there, save for an earlier edit it takes in, field by field.
Joins(S, op, N) ==
    /\ \A x \in N : \/ x \in S
                    \/ x.id = op.id /\ x.kind = op.kind /\ x.epoch = op.epoch
    /\ S = {} => N = {op}
    /\ op.kind = "patch" /\ (\A x \in S : x.kind # "delete") =>
          /\ \A x \in S : x.kind # "patch" => x \in N
          /\ \A x \in S : x.kind = "patch" => \A f \in x.mask :
                \/ f \in op.mask
                \/ \E y \in N : y.kind = "patch" /\ f \in y.mask /\ y.val[f] = x.val[f]
          /\ \A f \in op.mask :
                \E y \in N : y.kind = "patch" /\ f \in y.mask /\ y.val[f] = op.val[f]

\* An operation that is absorbed joins the commands of its card.
LEMMA AbsorbedJoins ==
    ASSUME NEW E, Patching(E),
           \A x, y \in E : FoldPatch(x, y).epoch = y.epoch,
           NEW S \in SUBSET E, NEW op \in E, NEW N,
           op.kind \in {"create", "patch", "delete"},
           \A x \in S : x.card = op.card /\ x.kind \in {"create", "patch", "delete"},
           Absorbed(S, op, N, Staging)
    PROVE  Joins(S, op, N)
<1>1. CASE S = {} /\ N = {op}
  BY <1>1 DEF Joins
<1>2. ASSUME NEW l \in S,
             \/ /\ l.kind = "delete" /\ ~(op.kind = "create" /\ op.at >= l.at)
                /\ N = S
             \/ /\ \/ l.kind = "delete" /\ op.kind = "create" /\ op.at >= l.at
                   \/ l.kind # "delete" /\ op.kind \in {"create", "delete"}
                /\ N = {op}
      PROVE  Joins(S, op, N)
  <2>1. ~(op.kind = "patch" /\ (\A x \in S : x.kind # "delete"))
    BY <1>2
  <2>2. S # {} /\ \A x \in N : x \in S \/ x = op
    BY <1>2
  <2> QED BY <2>1, <2>2 DEF Joins
<1>3. ASSUME NEW l \in S, op.kind \notin {"create", "delete"},
             FoldsWith(l, op), N = (S \ {l}) \cup {FoldPatch(l, op)}
      PROVE  Joins(S, op, N)
  <2> PICK n : n = FoldPatch(l, op)
    OBVIOUS
  <2>1. l.kind = "patch" /\ op.kind = "patch" /\ l \in E /\ l.card = op.card
    BY <1>3 DEF FoldsWith
  <2>2. /\ n.kind = "patch" /\ n.id = op.id /\ n.epoch = op.epoch
        /\ n.mask = l.mask \cup op.mask
        /\ \A f \in op.mask : n.val[f] = op.val[f]
        /\ \A f \in l.mask \ op.mask : n.val[f] = l.val[f]
    BY <2>1 DEF Patching
  <2>3. N = (S \ {l}) \cup {n}
    BY <1>3
  <2>4. \A x \in N : x \in S \/ (x.id = op.id /\ x.kind = op.kind /\ x.epoch = op.epoch)
    BY <2>1, <2>2, <2>3
  <2>5. \A x \in S : x.kind # "patch" => x \in N
    BY <2>1, <2>3
  <2>6. ASSUME NEW x \in S, x.kind = "patch", NEW f \in x.mask
        PROVE  \/ f \in op.mask
               \/ \E y \in N : y.kind = "patch" /\ f \in y.mask /\ y.val[f] = x.val[f]
    <3>1. CASE x = l
      BY <2>2, <2>3, <2>6, <3>1
    <3>2. CASE x # l
      BY <2>3, <2>6, <3>2
    <3> QED BY <3>1, <3>2
  <2>7. \A f \in op.mask :
           \E y \in N : y.kind = "patch" /\ f \in y.mask /\ y.val[f] = op.val[f]
    BY <2>2, <2>3
  <2> QED BY <2>4, <2>5, <2>6, <2>7 DEF Joins
<1>4. ASSUME NEW l \in S, op.kind \notin {"create", "delete"}, N = S \cup {op}
      PROVE  Joins(S, op, N)
  <2>1. op.kind = "patch" /\ op \in N
    BY <1>4
  <2> QED BY <1>4, <2>1 DEF Joins
<1> QED BY <1>1, <1>2, <1>3, <1>4 DEF Absorbed

\* What a merge makes of a tidy queue with one more operation behind it.
StagedWell(q, op, C) ==
    /\ Tidy(q)
    /\ op.kind \in {"create", "patch", "delete"}
    /\ \A x \in Ops(q) : /\ x.kind \in {"create", "patch", "delete"}
                         /\ x.at <= op.at /\ x.id < op.id
    => /\ Merge(Append(q, op)) \in Seq(C)
       /\ Tidy(Merge(Append(q, op)))
       /\ \E N : /\ \A x \in N : x.card = op.card
                 /\ Joins(OnCard(Ops(q), op.card), op, N)
                 /\ Ops(Merge(Append(q, op))) = OffCard(Ops(q), op.card) \cup N

StagesWell == \A q \in Seq(Copies), op \in Copies : StagedWell(q, op, Copies)

\* What a tab stages in a tidy queue joins the commands of its card.
LEMMA MergeStages == StagedOK => StagesWell
<1> SUFFICES ASSUME StagedOK, NEW q \in Seq(Copies), NEW op \in Copies, Tidy(q),
                    op.kind \in {"create", "patch", "delete"},
                    \A x \in Ops(q) : /\ x.kind \in {"create", "patch", "delete"}
                                      /\ x.at <= op.at /\ x.id < op.id
             PROVE  /\ Merge(Append(q, op)) \in Seq(Copies)
                    /\ Tidy(Merge(Append(q, op)))
                    /\ \E N : /\ \A x \in N : x.card = op.card
                              /\ Joins(OnCard(Ops(q), op.card), op, N)
                              /\ Ops(Merge(Append(q, op))) = OffCard(Ops(q), op.card) \cup N
  BY DEF StagesWell, StagedWell
<1>1. /\ Timed(Copies) /\ Foldable(Copies) /\ Identified(Copies)
      /\ Ranked(Copies, Staging) /\ Patching(Copies)
  BY CopiesFacts, StagingFacts
<1>2. Ops(q) \subseteq Copies /\ \A x \in Copies : x.id \in Nat
  BY OpsIn DEF Copies, Operation
<1>3. \A x \in Ops(q) : x.at <= op.at /\ Staging[x.id] < Staging[op.id]
  BY <1>2 DEF Staging
<1>4. /\ Merge(Append(q, op)) \in Seq(Copies)
      /\ Tidy(Merge(Append(q, op)))
      /\ \E N \in SUBSET Copies :
            /\ \A x \in N : x.card = op.card
            /\ Absorbed(OnCard(Ops(q), op.card), op, N, Staging)
            /\ Ops(Merge(Append(q, op))) = OffCard(Ops(q), op.card) \cup N
  BY <1>1, <1>3, AppendTidy
<1>5. ASSUME NEW x \in Copies, NEW y \in Copies PROVE FoldPatch(x, y).epoch = y.epoch
  <2>1. y \in Operation
    BY DEF Copies
  <2> QED BY <2>1 DEF FoldPatch, Operation
<1> PICK S : S = OnCard(Ops(q), op.card)
  OBVIOUS
<1>6. /\ S \in SUBSET Copies
      /\ \A x \in S : x.card = op.card /\ x.kind \in {"create", "patch", "delete"}
  BY <1>2 DEF OnCard
<1>7. \A N : Absorbed(S, op, N, Staging) => Joins(S, op, N)
  BY <1>1, <1>5, <1>6, AbsorbedJoins
<1> QED BY <1>4, <1>7

\* A new operation joins the queue of its device without losing an edit of a
\* card nobody deletes, or the create it needs.
LEMMA StageEdits ==
    ASSUME SyncInv, EditInv, FlushedEdits, NEW t \in Tabs, NEW s \in Staged[t], NEW c \in Cards,
           Stage(t, s, c)
    PROVE  EditInv'
<1> USE DEF EditInv
<1> PICK d : d = Dev(t)
  OBVIOUS
<1> PICK op : op = NewOp(t, s, c)
  OBVIOUS
<1> PICK n : n = Now + 1
  OBVIOUS
<1> PICK q : q = queue[d]
  OBVIOUS
<1> PICK m : m = Merge(Append(q, op))
  OBVIOUS
<1> PICK S : S = OnCard(Ops(q), c)
  OBVIOUS
<1>1. /\ UNCHANGED <<serverVars, known, saved, run, refresh>>
      /\ ops' = Append(ops, op)
      /\ queue' = [queue EXCEPT ![d] = m]
      /\ view' = [view EXCEPT ![d][c] = Intended(t, s.kind, view[d][c])]
      /\ view[d][c].shown <=> s.kind # "create"
      /\ s.kind = "create" /\ ~Recreates =>
            c \notin Given /\ \A i \in DOMAIN ops : ops[i].card # c
  BY DEF Stage, SeeCard, FlushedEdits
<1>2. UNCHANGED <<card, epoch, tomb>>
  BY <1>1 DEF serverVars
<1>3. /\ d \in Devices /\ op \in Operation /\ op.id = n /\ op.at = n
      /\ op.epoch <= epoch /\ (op.kind = "create" => op.base = 0)
  BY NewOpFacts, DevIn
<1>4. /\ op.kind = s.kind /\ op.card = c /\ op.mask \subseteq Fields
      /\ \A f \in Fields : op.val[f] = n
      /\ op.epoch = StagedEpoch(t, s.kind, c)
  <2>1. s.mask \in SUBSET Fields
    BY StagedAssumption
  <2> QED BY <2>1 DEF NewOp
<1>5. op.kind \in {"create", "patch", "delete"}
  BY <1>4, StagedAssumption DEF FlushedEdits, Kinds
<1>6. op.kind # "delete" => op.epoch \in {Unverified, 0}
  BY <1>4 DEF StagedEpoch, FirstGeneration
<1>7. /\ Now \in Nat /\ Now' = n /\ n \in Nat /\ 1 .. Now' = (1 .. Now) \cup {n} /\ n \notin 1 .. Now
      /\ \A i \in 1 .. Now : ops'[i] = ops[i]
      /\ ops'[n] = op
      /\ DOMAIN ops = 1 .. Now
  <2>1. ops \in Seq(Operation) /\ Now \in Nat
    BY StagedFacts DEF StagedOK, SyncInv, CloudInv
  <2> QED BY <1>1, <1>3, <2>1, AppendProperties, LenProperties DEF Now
<1>8. /\ \A i \in 1 .. Now : Kind(i)' = Kind(i)
      /\ Kind(n)' = op.kind
  BY <1>7 DEF Kind
<1>9. /\ \A a : Spared(a)' => Spared(a)
      /\ Spared(c)' => op.kind # "delete"
      /\ \A a : Live(a)' = Live(a)
  BY <1>2, <1>4, <1>7, <1>8 DEF Spared, Live, Present
<1>10. op.kind = "create" => \A i \in 1 .. Now : ops[i].card # c
  BY <1>1, <1>4, <1>7 DEF FlushedEdits
<1>11. CreatedFirst'
  <2>1. ASSUME NEW i \in 1 .. Now'
        PROVE  /\ Kind(i)' # "review"
               /\ Kind(i)' = "create" =>
                     /\ ops'[i].card \notin Given
                     /\ \A j \in 1 .. i - 1 : ops'[j].card # ops'[i].card
    <3>1. CASE i \in 1 .. Now
      <4>1. \A j \in 1 .. i - 1 : j \in 1 .. Now
        BY <1>7, <3>1
      <4> QED BY <1>7, <1>8, <3>1, <4>1 DEF CreatedFirst
    <3>2. CASE i = n
      <4>1. \A j \in 1 .. i - 1 : j \in 1 .. Now
        BY <1>7, <3>2
      <4> QED BY <1>1, <1>4, <1>5, <1>7, <1>8, <1>10, <3>2, <4>1 DEF FlushedEdits
    <3> QED BY <1>7, <3>1, <3>2
  <2> QED BY <2>1 DEF CreatedFirst
<1>12. FirstGeneration' /\ NoTombYet'
  BY <1>1, <1>2, <1>9 DEF FirstGeneration, NoTombYet
<1>13. /\ queue \in [Devices -> Seq(Copies)] /\ q \in Seq(Copies) /\ Tidy(q)
       /\ Copies \subseteq Copies' /\ Seq(Copies) \subseteq Seq(Copies')
       /\ op \in Copies' /\ StagedOK'
  <2>1. queue \in [Devices -> Seq(Copies)] /\ Tidy(q)
    BY <1>3 DEF SyncInv, ClientInv, DeviceOK, QueuesTidy
  <2>2. Grows
    BY <1>2, <1>7 DEF Grows, SyncInv, CloudInv, ServerOK
  <2>3. Copies \subseteq Copies' /\ Seq(Copies) \subseteq Seq(Copies')
    BY <2>2, Growth DEF SyncInv, CloudInv
  <2>4. StagedOK' /\ SyncInv'
    BY StageInv DEF SyncInv, CloudInv
  <2>5. op \in Copies'
    BY <1>2, <1>3, <1>4, <1>7 DEF Copies, OwnOrFolded
  <2> QED BY <1>3, <2>1, <2>3, <2>4, <2>5
<1>14. \A e \in Devices : \A x \in Ops(queue[e]) :
          /\ x \in Copies /\ x.id \in 1 .. Now /\ x.card = ops[x.id].card
          /\ x.kind = Kind(x.id) /\ x.kind \in {"create", "patch", "delete"}
          /\ x.card \in Cards
  <2>1. \A e \in Devices : Ops(queue[e]) \subseteq Copies
    BY <1>13, OpsIn
  <2>2. \A x \in Copies : x.kind \in {"create", "patch", "delete"}
    BY NoReviewCopies
  <2>3. \A x \in Copies : /\ x.id \in 1 .. Now /\ x.card = ops[x.id].card
                          /\ x.kind = Kind(x.id) /\ x.card \in Cards
    BY DEF Copies, Operation, Kind
  <2> QED BY <2>1, <2>2, <2>3
<1>15. \A x \in Ops(q) : x.at <= op.at /\ x.id < op.id
  <2>1. ASSUME NEW x \in Ops(q) PROVE x.at = x.id /\ x.id \in 1 .. Now
    <3>1. x \in Copies
      BY <1>3, <1>14
    <3> QED BY <3>1 DEF Copies, SyncInv, CloudInv, StagedOK
  <2> QED BY <1>3, <1>7, <2>1
<1>16. PICK N : /\ m \in Seq(Copies') /\ Tidy(m)
                /\ \A x \in N : x.card = c
                /\ Joins(S, op, N)
                /\ Ops(m) = OffCard(Ops(q), c) \cup N
  <2>1. (StagedOK => StagesWell)'
    BY MergeStages, PTL
  <2>2. StagesWell'
    BY <1>13, <2>1
  <2>3. StagedWell(q, op, Copies')
    BY <1>13, <2>2 DEF StagesWell
  <2>4. q \in Seq(Copies') /\ op \in Copies'
    BY <1>13
  <2>5. /\ m \in Seq(Copies') /\ Tidy(m)
        /\ \E N : /\ \A x \in N : x.card = op.card
                  /\ Joins(OnCard(Ops(q), op.card), op, N)
                  /\ Ops(m) = OffCard(Ops(q), op.card) \cup N
    BY <1>3, <1>5, <1>13, <1>14, <1>15, <2>3 DEF StagedWell
  <2> QED BY <1>4, <2>5
<1>17. /\ queue'[d] = m /\ \A e \in Devices : e # d => queue'[e] = queue[e]
  BY <1>1, <1>3, <1>13
<1>18. op.kind = "create" => S = {}
  <2> SUFFICES ASSUME op.kind = "create", NEW x \in S PROVE FALSE
    OBVIOUS
  <2>1. x \in Ops(q) /\ x.card = c
    BY DEF OnCard
  <2> QED BY <1>3, <1>10, <1>14, <2>1
<1>19. Spared(c) => \A x \in S : x.kind # "delete"
  BY <1>3, <1>14 DEF OnCard, Spared
<1>20. /\ op.kind = "create" => op \in Ops(m)
       /\ \A x \in Ops(m) : \/ x \in Ops(q)
                            \/ x.id = n /\ x.kind = op.kind /\ x.epoch = op.epoch /\ x.card = c
       /\ \A x \in Ops(q) : x.card # c => x \in Ops(m)
  BY <1>3, <1>16, <1>18 DEF Joins, OnCard, OffCard
\* A card that is known stays known.
<1>21. ASSUME NEW e \in Devices, NEW a \in Cards, Known(e, a), Spared(a)'
       PROVE  Known(e, a)'
  <2>1. ASSUME NEW y \in Ops(queue[e]), IsCreateOf(y, a) PROVE y \in Ops(queue'[e])
    <3>1. CASE e # d
      BY <1>17, <3>1
    <3>2. CASE e = d /\ a # c
      BY <1>17, <1>20, <2>1, <3>2 DEF IsCreateOf
    <3>3. CASE e = d /\ a = c
      <4>1. y \in S
        BY <2>1, <3>3 DEF IsCreateOf, OnCard
      <4>2. op.kind = "patch"
        BY <1>5, <1>9, <1>18, <1>21, <3>3, <4>1
      <4>3. y \in N
        BY <1>9, <1>16, <1>19, <1>21, <2>1, <3>3, <4>1, <4>2 DEF Joins, IsCreateOf
      <4> QED BY <1>16, <1>17, <3>3, <4>3
    <3> QED BY <3>1, <3>2, <3>3
  <2>2. CASE Live(a)
    BY <1>9, <2>2 DEF Known
  <2> QED BY <1>21, <2>1, <2>2 DEF Known, IsCreateOf
<1>22. op.kind = "patch" => view[d][c].shown
  BY <1>1, <1>4
<1>23. QueuesTidy'
  <2>1. ASSUME NEW e \in Devices
        PROVE  /\ Tidy(queue'[e])
               /\ \A x \in Ops(queue'[e]) : x.kind # "delete" => x.epoch \in {Unverified, 0}
               /\ \A x \in Ops(queue'[e]) :
                     x.kind = "patch" /\ Spared(x.card)' => Known(e, x.card)'
    <3>1. CASE e # d
      <4>1. \A x \in Ops(queue[e]) : x.kind = "patch" /\ Spared(x.card)' => Known(e, x.card)'
        BY <1>9, <1>14, <1>21 DEF QueuesTidy
      <4> QED BY <1>17, <3>1, <4>1 DEF QueuesTidy
    <3>2. CASE e = d
      <4>1. ASSUME NEW x \in Ops(m), x.kind # "delete" PROVE x.epoch \in {Unverified, 0}
        BY <1>3, <1>6, <1>20, <4>1 DEF QueuesTidy
      <4>2. ASSUME NEW x \in Ops(m), x.kind = "patch", Spared(x.card)' PROVE Known(d, x.card)'
        <5>1. CASE x \in Ops(q)
          BY <1>3, <1>9, <1>14, <1>21, <4>2, <5>1 DEF QueuesTidy
        <5>2. CASE x.kind = op.kind /\ x.card = c
          BY <1>3, <1>9, <1>21, <1>22, <4>2, <5>2 DEF MirrorsTrue
        <5> QED BY <1>20, <5>1, <5>2
      <4> QED BY <1>16, <1>17, <3>2, <4>1, <4>2
    <3> QED BY <3>1, <3>2
  <2>2. \A e \in Devices : Tidy(queue[e])' = Tidy(queue'[e])
    BY DEF Tidy, Staging, InRank, Proper, Reduced, Follows
  <2> QED BY <2>1, <2>2 DEF QueuesTidy
<1>24. MirrorsTrue'
  <2>1. view \in [Devices -> [Cards -> Versions]]
    BY DEF SyncInv, ClientInv, DeviceOK
  <2>2. ASSUME NEW e \in Devices, NEW a \in Cards, view'[e][a].shown, Spared(a)'
        PROVE  Known(e, a)'
    <3>1. CASE ~(e = d /\ a = c)
      <4>1. view'[e][a] = view[e][a]
        BY <1>1, <1>3, <2>1, <3>1
      <4> QED BY <1>9, <1>21, <2>2, <4>1 DEF MirrorsTrue
    <3>2. CASE e = d /\ a = c /\ op.kind = "create"
      <4>1. IsCreateOf(op, c) /\ op \in Ops(queue'[d])
        BY <1>4, <1>17, <1>20, <3>2 DEF IsCreateOf
      <4> QED BY <3>2, <4>1 DEF Known, IsCreateOf
    <3>3. CASE e = d /\ a = c /\ op.kind = "patch"
      BY <1>9, <1>21, <1>22, <2>2, <3>3 DEF MirrorsTrue
    <3> QED BY <1>5, <1>9, <2>2, <3>1, <3>2, <3>3
  <2>3. ASSUME NEW u \in Tabs, NEW a \in Cards, Brings(refresh'[u], a), Spared(a)'
        PROVE  Known(Dev(u), a)'
    BY <1>1, <1>9, <1>21, <2>3, DevIn DEF MirrorsTrue
  <2> QED BY <2>2, <2>3 DEF MirrorsTrue, Brings
<1>25. Onward
  BY <1>1, <1>9 DEF Onward
<1>26. RunsUpright'
  <2>1. ASSUME NEW u \in Tabs
        PROVE  Upright(run[u])' /\ Alike(Held(run[u]), queue[Dev(u)])'
    <3> PICK z : z = run[u]
      OBVIOUS
    <3>1. run'[u] = z /\ Sound(z) /\ Upright(z) /\ Alike(Held(z), queue[Dev(u)])
      BY <1>1 DEF RunsUpright, SyncInv, ClientInv, RunsOK
    <3>2. Upright(z)'
      BY <1>25, <3>1, UprightStays
    <3>3. Held(z) \subseteq Copies
      <4>1. Ops(z.todo) \subseteq Copies /\ z.flushed \subseteq Copies /\ z.acking \subseteq Copies
        BY <3>1, OpsIn DEF Sound, Runs
      <4>2. Asking(z) => z.call.op \in Copies
        BY <3>1 DEF Sound, Asking, Calls
      <4> QED BY <4>1, <4>2 DEF Held
    <3>4. \A o \in Held(z) : o.id \in 1 .. Now
      BY <3>3 DEF Copies
    <3>5. Alike(Held(z), queue'[Dev(u)])
      <4>1. CASE Dev(u) # d
        BY <1>17, <3>1, <4>1, DevIn
      <4>2. CASE Dev(u) = d
        BY <1>7, <1>17, <1>20, <3>1, <3>4, <4>2 DEF Alike
      <4> QED BY <4>1, <4>2
    <3> QED BY <3>1, <3>2, <3>5
  <2> QED BY <2>1 DEF RunsUpright
<1>27. NoEditLost'
  <2>1. ASSUME NEW i \in 1 .. Now', Kind(i)' = "patch", Spared(ops[i].card)',
               NEW f \in ops'[i].mask
        PROVE  \/ Overridden(i, f)'
               \/ i \in saved'
               \/ \E e \in Devices : \E x \in Ops(queue'[e]) : Carries(x, i, f)'
    <3> PICK a : a = ops'[i].card
      OBVIOUS
    <3>0. Spared(a)'
      BY <2>1 DEF Spared
    <3>1. CASE i \in 1 .. Now
      <4>1. /\ ops'[i] = ops[i] /\ Kind(i) = "patch" /\ f \in ops[i].mask
            /\ a = ops[i].card /\ Spared(a) /\ Spared(a)'
        BY <1>7, <1>8, <1>9, <2>1, <3>0, <3>1
      <4>2. CASE Overridden(i, f)
        <5>1. PICK j \in 1 .. Now : /\ j > i /\ Kind(j) = "patch"
                                    /\ ops[j].card = ops[i].card /\ f \in ops[j].mask
          BY <4>2 DEF Overridden
        <5> QED BY <1>7, <1>8, <4>1, <5>1 DEF Overridden
      <4>3. CASE i \in saved
        BY <1>1, <4>3
      <4>4. ASSUME NEW e \in Devices, NEW x \in Ops(queue[e]), Carries(x, i, f)
            PROVE  \/ Overridden(i, f)'
                   \/ \E y \in Ops(queue'[e]) : Carries(y, i, f)'
        <5>1. x.kind = "patch" /\ x.card = ops[i].card /\ f \in x.mask /\ x.val[f] = i
          BY <4>4 DEF Carries
        <5>2. CASE x \in Ops(queue'[e])
          BY <4>1, <5>1, <5>2 DEF Carries
        <5>3. CASE x \notin Ops(queue'[e])
          <6>1. e = d /\ x.card = c /\ x \in S
            BY <1>17, <1>20, <4>4, <5>3 DEF OnCard
          <6>2. op.kind = "patch"
            BY <1>5, <1>9, <1>18, <4>1, <5>1, <6>1
          <6>3. \/ f \in op.mask
                \/ \E y \in N : y.kind = "patch" /\ f \in y.mask /\ y.val[f] = i
            BY <1>16, <1>19, <4>1, <5>1, <6>1, <6>2 DEF Joins
          <6>4. CASE f \in op.mask
            <7>1. n > i /\ n \in 1 .. Now' /\ ops'[n].card = ops'[i].card /\ f \in ops'[n].mask
              BY <1>4, <1>7, <3>1, <4>1, <5>1, <6>1, <6>4
            <7> QED BY <1>8, <6>2, <7>1 DEF Overridden
          <6>5. ASSUME NEW y \in N, y.kind = "patch", f \in y.mask, y.val[f] = i
                PROVE  \E w \in Ops(queue'[e]) : Carries(w, i, f)'
            <7>1. y \in Ops(queue'[e]) /\ y.card = ops'[i].card
              BY <1>16, <1>17, <4>1, <5>1, <6>1
            <7> QED BY <6>5, <7>1 DEF Carries
          <6> QED BY <6>3, <6>4, <6>5
        <5> QED BY <5>2, <5>3
      <4> QED BY <3>1, <4>1, <4>2, <4>3, <4>4 DEF NoEditLost
    <3>2. CASE i = n
      <4>1. /\ op.kind = "patch" /\ f \in op.mask /\ f \in Fields
            /\ a = c /\ Spared(c) /\ op.val[f] = i
        BY <1>4, <1>7, <1>8, <1>9, <2>1, <3>0, <3>2
      <4>2. PICK y \in N : y.kind = "patch" /\ f \in y.mask /\ y.val[f] = i
        BY <1>16, <1>19, <4>1 DEF Joins
      <4>3. y \in Ops(queue'[d]) /\ Carries(y, i, f)'
        BY <1>16, <1>17, <4>1, <4>2 DEF Carries
      <4> QED BY <1>3, <4>3 DEF Carries
    <3> QED BY <1>7, <3>1, <3>2
  <2> QED BY <2>1 DEF NoEditLost
<1> QED BY <1>11, <1>12, <1>23, <1>24, <1>26, <1>27

-----------------------------------------------------------------------------
(* Every edit reaches the cloud.                                           *)

\* In the beginning nothing is staged, and the mirrors show the cloud.
LEMMA InitEdits == SyncInit => EditInv
<1> SUFFICES ASSUME SyncInit PROVE EditInv
  OBVIOUS
<1>1. /\ epoch = 0 /\ ops = <<>> /\ saved = {}
      /\ card = [c \in Cards |-> IF c \in Given THEN Seed ELSE NoCard]
      /\ \A c \in Cards : tomb[c].rev = 0
      /\ queue = [d \in Devices |-> <<>>]
      /\ view = [d \in Devices |->
                   [c \in Cards |-> IF c \in Given THEN Shown(0, 1) ELSE Hidden]]
      /\ known = [t \in Tabs |-> IF t \in VerifiedTabs THEN 0 ELSE Unverified]
      /\ run = [t \in Tabs |-> Idle]
      /\ refresh = [t \in Tabs |-> NoRefresh]
  BY DEF SyncInit
<1>2. Now = 0
  BY <1>1 DEF Now
<1>3. CreatedFirst /\ NoEditLost
  BY <1>2 DEF CreatedFirst, NoEditLost
<1>4. FirstGeneration /\ NoTombYet
  BY <1>1 DEF FirstGeneration, NoTombYet
<1>5. \A d \in Devices : queue[d] = <<>> /\ Ops(queue[d]) = {}
  BY <1>1, OpsOfEmpty
<1>6. QueuesTidy
  <2>1. ASSUME NEW d \in Devices PROVE Tidy(queue[d])
    <3>1. InRank(queue[d], Staging)
      BY <1>5 DEF InRank
    <3>2. Proper(Ops(queue[d]), Staging) /\ Reduced(Ops(queue[d]), Staging)
      BY <1>5 DEF Proper, Reduced
    <3> QED BY <3>1, <3>2 DEF Tidy
  <2> QED BY <1>5, <2>1 DEF QueuesTidy
<1>7. MirrorsTrue
  <2>1. ASSUME NEW d \in Devices, NEW c \in Cards, view[d][c].shown PROVE Live(c)
    <3>1. c \in Given
      BY <1>1, <2>1 DEF Hidden
    <3>2. card[c].rev = 1 /\ card[c].epoch = 0
      BY <1>1, <3>1 DEF Seed, NoCard
    <3> QED BY <1>1, <3>2 DEF Live, Present
  <2>2. \A t \in Tabs, c \in Cards : ~Brings(refresh[t], c)
    BY <1>1, NoRefreshBrings
  <2> QED BY <2>1, <2>2 DEF MirrorsTrue, Known
<1>8. RunsUpright
  <2>1. ASSUME NEW t \in Tabs PROVE Upright(run[t]) /\ Alike(Held(run[t]), queue[Dev(t)])
    <3>1. run[t] = Idle
      BY <1>1
    <3>2. Upright(Idle) /\ Held(Idle) = {}
      BY IdleUpright
    <3> QED BY <3>1, <3>2 DEF Alike
  <2> QED BY <2>1 DEF RunsUpright
<1> QED BY <1>3, <1>4, <1>6, <1>7, <1>8 DEF EditInv

\* A step that changes nothing.
LEMMA StutterEdits ==
    ASSUME SyncInv, EditInv, UNCHANGED syncVars PROVE EditInv'
<1>1. UNCHANGED <<serverVars, queue, view, refresh, known, run, ops, saved>>
  BY DEF syncVars, clientVars, mirrorVars, history
<1>2. \A u \in Tabs : known'[u] \in {Unverified, 0}
  BY <1>1 DEF EditInv, FirstGeneration
<1>3. ShowsKnown
  BY <1>1, MirrorShrinks
<1> QED BY <1>1, <1>2, <1>3, NoFlushMoves

\* Every step of such a library keeps the invariant.
LEMMA NextEdits ==
    ASSUME SyncInv, EditInv, FlushedEdits, [SyncNext]_syncVars PROVE EditInv'
<1>1. \A t \in Tabs : run[t].pc \notin {"direct", "clear-queue", "clear-cards"}
  BY DEF EditInv, RunsUpright, Upright
<1>2. ASSUME NEW t \in Tabs, NEW s \in Staged[t], NEW c \in Cards, Stage(t, s, c)
      PROVE  EditInv'
  BY <1>2, StageEdits
<1>3. ASSUME NEW t \in Tabs, StartFlush(t) PROVE EditInv'
  BY <1>3, StartFlushEdits
<1>4. ASSUME NEW t \in Tabs, Proceed(t) PROVE EditInv'
  <2>1. ASSUME HandleAnswer(t) PROVE EditInv'
    BY <2>1, HandleSettledEdits, HandleStaleEdits, NoReviewAnswers, HandleKeptEdits,
       HandleFailedEdits DEF HandleAnswer
  <2>2. ~StartDirect(t)
    BY <1>1 DEF StartDirect
  <2> QED BY <1>4, <2>1, <2>2, SendEdits, AssertFinalEdits, QuietEdits DEF Proceed
<1>5. ASSUME NEW t \in Tabs, Ack(t) \/ RefreshPending(t) PROVE EditInv'
  BY <1>5, AckEdits, RefreshPendingEdits
<1>6. ASSUME NEW t \in Tabs, Serve(t) PROVE EditInv'
  BY <1>6, ServeEdits
<1>7. ASSUME NEW t \in Tabs, ClearStart(t) \/ Clear(t) PROVE FALSE
  <2>1. ~ClearStart(t)
    BY DEF ClearStart, FlushedEdits, EditInv, FirstGeneration
  <2>2. ~Clear(t)
    BY <1>1 DEF Clear, ClearQueue, ClearCards, ClearView
  <2> QED BY <1>7, <2>1, <2>2
<1>8. ASSUME NEW t \in Tabs, Timeout(t) \/ Crash(t) \/ VerifyEpoch(t) PROVE EditInv'
  BY <1>8, QuietEdits
<1>9. ASSUME NEW d \in Devices, Expire(d) PROVE EditInv'
  BY <1>9, QuietEdits
<1>10. ASSUME NEW call \in late, LateServe(call) \/ LateDrop(call) PROVE EditInv'
  BY <1>10, QuietEdits, LateServeEdits
<1>11. ASSUME NEW t \in Tabs, RefreshMirror(t) PROVE EditInv'
  BY <1>11, RefreshEdits, LoadOverlayEdits
<1> QED BY <1>2, <1>3, <1>4, <1>5, <1>6, <1>7, <1>8, <1>9, <1>10, <1>11, StutterEdits
     DEF SyncNext

\* What the invariant says of a card nobody deletes, and deletes of the others.
LEMMA EditsArrived ==
    ASSUME SyncInv, EditInv PROVE EditsReachTheCloud
<1>1. Now \in Nat /\ DOMAIN ops = 1 .. Now
  BY StagedFacts, LenProperties DEF SyncInv, CloudInv, StagedOK, Now
<1>2. ASSUME NEW i \in 1 .. Now, Kind(i) = "patch", i \notin saved, ~Waiting(i)
      PROVE  Superseded(i)
  <2>1. ASSUME NEW j \in 1 .. Now, ops[j].card = ops[i].card, Kind(j) = "delete"
        PROVE  Superseded(i)
    <3>1. j \in StagedOn(ops[i].card) /\ j # i
      BY <1>1, <1>2, <2>1 DEF StagedOn
    <3>2. CASE j > i
      BY <2>1, <3>1, <3>2 DEF Superseded
    <3>3. CASE j < i
      <4>1. ASSUME NEW k \in StagedOn(ops[i].card), j < k, Kind(k) = "create" PROVE FALSE
        <5>1. k \in 1 .. Now /\ ops[k].card = ops[j].card /\ j \in 1 .. k - 1
          BY <1>1, <2>1, <4>1 DEF StagedOn
        <5> QED BY <4>1, <5>1 DEF EditInv, CreatedFirst
      <4>2. Doomed(i)
        BY <2>1, <3>1, <3>3, <4>1 DEF Doomed
      <4> QED BY <4>2 DEF Superseded
    <3> QED BY <3>1, <3>2, <3>3
  <2>2. CASE Spared(ops[i].card)
    <3>1. ASSUME NEW f \in ops[i].mask
          PROVE  \E j \in StagedOn(ops[i].card) :
                    j > i /\ Kind(j) = "patch" /\ f \in ops[j].mask
      <4>1. \/ Overridden(i, f)
            \/ \E d \in Devices : \E x \in Ops(queue[d]) : Carries(x, i, f)
        BY <1>2, <2>2 DEF EditInv, NoEditLost
      <4>2. ASSUME NEW d \in Devices, NEW x \in Ops(queue[d]), Carries(x, i, f)
            PROVE  Waiting(i)
        <5>1. PICK k \in DOMAIN queue[d] : queue[d][k] = x
          BY DEF Ops
        <5> QED BY <4>2, <5>1 DEF Waiting, Carries, IsPatch
      <4>3. Overridden(i, f)
        BY <1>2, <4>1, <4>2
      <4> QED BY <1>1, <4>3 DEF Overridden, StagedOn
    <3> QED BY <3>1 DEF Superseded
  <2> QED BY <2>1, <2>2 DEF Spared
<1> QED BY <1>1, <1>2 DEF EditsReachTheCloud

\* However many devices and tabs edit, create and delete cards, and whatever
\* times out, crashes or runs out of its lease between: an edit is never lost.
THEOREM EditsArrive == FlushedEdits => (SyncSpec => []EditsReachTheCloud)
<1> SUFFICES ASSUME FlushedEdits PROVE SyncSpec => []EditsReachTheCloud
  OBVIOUS
<1>1. SyncInit => EditInv
  BY InitEdits
<1>2. SyncInv /\ EditInv /\ [SyncNext]_syncVars => EditInv'
  BY NextEdits
<1>3. SyncInv /\ EditInv => EditsReachTheCloud
  BY EditsArrived
<1> QED BY <1>1, <1>2, <1>3, SyncInvariant, PTL DEF SyncSpec
=============================================================================
