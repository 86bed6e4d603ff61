---------------------------- MODULE PendingQueue ----------------------------
(***************************************************************************)
(* The pending-operation queue a device keeps for its owner, as a pure     *)
(* algorithm: how operations on a card merge, how a queue splits by        *)
(* library generation, in which order a flush sends it and what an         *)
(* acknowledgement removes.  An operation is a record                      *)
(*   [kind, card, id, at, base, epoch, mask, val]                          *)
(* whose at is the updatedAt stamp, whose mask names the fields it sets    *)
(* and whose val gives them.  An epoch of -1 is one the device could not   *)
(* verify when it staged the operation.                                    *)
(***************************************************************************)
EXTENDS Integers, Sequences, SequencesExt, Lists

Kinds == {"create", "patch", "review", "delete"}
Unverified == -1

\* Reviews travel as patches whose operation is "review".
IsPatch(op) == op.kind \in {"patch", "review"}

-----------------------------------------------------------------------------
(* mergePendingOperations                                                  *)

\* A stable sort by time stamp, one insertion at a time.
InsertByTime(q, op) == Keep(q, {x \in Ops(q) : x.at <= op.at})
                       \o <<op>>
                       \o Keep(q, {x \in Ops(q) : x.at > op.at})

SortByTime(q) ==
    LET sorted[n \in 0 .. Len(q)] ==
          IF n = 0 THEN <<>> ELSE InsertByTime(sorted[n - 1], q[n])
    IN  sorted[Len(q)]

CommandsOn(q, c) == Keep(q, {x \in Ops(q) : x.card = c})

\* The commands of the other cards: those of the cards met before c, and of
\* those met after it.
CommandsBefore(q, c) ==
    Keep(q, {q[k] : k \in {i \in DOMAIN q : \A j \in 1 .. i : q[j].card # c}})
CommandsAfter(q, c) ==
    Keep(q, {x \in Ops(q) : x.card # c} \ Ops(CommandsBefore(q, c)))

\* Mutant of FoldPatch: the earlier patch's values win.
FoldPatch_OldWins(old, new) ==
    [new EXCEPT !.mask = old.mask \cup @,
                !.val = [f \in DOMAIN @ |-> IF f \in old.mask THEN old.val[f]
                                                              ELSE @[f]]]

\* The later of two patches takes the fields of the earlier that it leaves
\* alone, and keeps its own id, stamp, base revision and epoch.
FoldPatch(old, new) ==
    [new EXCEPT !.mask = old.mask \cup @,
                !.val = [f \in DOMAIN @ |-> IF f \in new.mask THEN @[f]
                                                              ELSE old.val[f]]]

\* Mutant of FoldsWith: a review is folded like any patch.
FoldsWith_Reviews(old, new) == IsPatch(old) /\ IsPatch(new)

FoldsWith(old, new) == old.kind = "patch" /\ new.kind = "patch"

\* Mutant of Absorb: an operation staged after a delete is queued behind it.
Absorb_AfterDelete(cmds, op) ==
    IF cmds = <<>> THEN <<op>>
    ELSE IF op.kind \in {"create", "delete"} THEN <<op>>
    ELSE IF FoldsWith(Last(cmds), op)
         THEN Front(cmds) \o <<FoldPatch(Last(cmds), op)>>
    ELSE Append(cmds, op)

\* What one more operation makes of the commands queued for its card.
Absorb(cmds, op) ==
    IF cmds = <<>> THEN <<op>>
    ELSE IF Last(cmds).kind = "delete"
         THEN IF op.kind = "create" /\ op.at >= Last(cmds).at THEN <<op>>
              ELSE cmds
    ELSE IF op.kind \in {"create", "delete"} THEN <<op>>
    ELSE IF FoldsWith(Last(cmds), op)
         THEN Front(cmds) \o <<FoldPatch(Last(cmds), op)>>
    ELSE Append(cmds, op)

\* A card keeps its place among the cards (Map.set).
AbsorbInto(q, op) ==
    CommandsBefore(q, op.card) \o Absorb(CommandsOn(q, op.card), op)
                               \o CommandsAfter(q, op.card)

\* The operations of q, absorbed one after another.
AbsorbAll(q) ==
    LET absorbed[n \in 0 .. Len(q)] ==
          IF n = 0 THEN <<>> ELSE AbsorbInto(absorbed[n - 1], q[n])
    IN  absorbed[Len(q)]

Merge(q) == SortByTime(AbsorbAll(SortByTime(q)))

-----------------------------------------------------------------------------
(* Acknowledgement, generations, flush order.                              *)

\* Mutant of Acknowledged: a card's commands leave up to the acknowledged
\* stamp, the rule meant for operations without an id.
Acknowledged_ByStamp(q, done) ==
    Keep(Merge(q), {x \in Ops(Merge(q)) :
                      \A o \in done : o.card # x.card \/ x.at > o.at})

\* acknowledgeDevicePending removes by operation id, after a merge.
Acknowledged(q, done) ==
    Keep(Merge(q), {x \in Ops(Merge(q)) : \A o \in done : o.id # x.id})

\* Mutant of Rebound: an operation of any epoch joins the one being flushed.
Rebound_Any(op, e) == [op EXCEPT !.epoch = e]

\* An operation of an unverified epoch joins the one being flushed.
Rebound(op, e) == IF op.epoch = Unverified THEN [op EXCEPT !.epoch = e] ELSE op

BoundTo(q, e) == [k \in DOMAIN q |-> Rebound(q[k], e)]
StaleIn(q, e) == Keep(BoundTo(q, e), {x \in Ops(BoundTo(q, e)) : x.epoch < e})
CurrentIn(q, e) == Keep(BoundTo(q, e), {x \in Ops(BoundTo(q, e)) : x.epoch = e})
FutureIn(q, e) == Keep(BoundTo(q, e), {x \in Ops(BoundTo(q, e)) : x.epoch > e})

\* A flush sends creates, then deletes, then patches and reviews.
FlushOrder(q) == Keep(q, {x \in Ops(q) : x.kind = "create"})
                 \o Keep(q, {x \in Ops(q) : x.kind = "delete"})
                 \o Keep(q, {x \in Ops(q) : IsPatch(x)})
=============================================================================
