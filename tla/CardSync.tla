------------------------------ MODULE CardSync ------------------------------
(***************************************************************************)
(* One owner's library on several devices.  A device keeps a mirror of the *)
(* cards and a queue of pending operations, shared by its browser tabs.  A *)
(* tab stages an operation into the queue, and either a direct attempt of  *)
(* that operation or a flush of the whole queue carries it to the cloud    *)
(* under the device's flush lease:                                         *)
(*                                                                         *)
(*   idle -> direct -> run -> wait -> got -> run ... -> ack -> load -> idle *)
(*                                                                         *)
(* Beside it a tab refreshes the mirror from the cloud, page by page:      *)
(*                                                                         *)
(*   idle -> begin -> pages -> page -> pages ... -> load -> overlay ->     *)
(*   finish -> idle                                                        *)
(*                                                                         *)
(* A call whose caller timed out or crashed is not cancelled: it stays     *)
(* among the late calls until the cloud serves it or the network drops it. *)
(* The time of an operation is its position in the order of staging, all   *)
(* clocks being in step.                                                   *)
(***************************************************************************)
EXTENDS LibraryServer, PendingQueue

CONSTANTS
    Devices, Tabs,
    Home,         \* the device of each tab
    DirectTabs,   \* the tabs that try an operation as soon as it is staged
    VerifiedTabs, \* the tabs that start with a verified library epoch
    Refreshers,   \* the tabs that refresh their device's mirror
    Staged,       \* per tab: the [kind, mask] pairs it may stage
    Given,        \* the cards the library starts with
    Recreates,    \* whether a card may be created a second time
    Faults,       \* what may go wrong: "timeout", "crash", "freeze"
    MaxFaults,    \* bound on how often it does
    MaxOps,       \* bound on the operations staged
    MaxClears     \* bound on the clear-alls

ASSUME HomeAssumption == Home \in [Tabs -> Devices]
ASSUME TabsAssumption == \A S \in {DirectTabs, VerifiedTabs, Refreshers} : S \subseteq Tabs
ASSUME StagedAssumption == Staged \in [Tabs -> SUBSET [kind : Kinds, mask : SUBSET Fields]]

VARIABLES
    queue,        \* per device: the stored pending operations
    view,         \* per device and card: the version in the mirror, if any
    sync,         \* per device: the refresh its mirror takes writes of
    refresh,      \* per tab: its refresh
    lease,        \* per device: the tab whose flush lease is stored
    known,        \* per tab: the library epoch it last verified
    run,          \* per tab: its flush, direct attempt or clear-all
    late,         \* calls whose answer nobody awaits any more
    faults,       \* how many faults there were
    ops,          \* history: every operation staged, in that order
    writes,       \* history: the operations that changed a document
    saved,        \* history: the operations whose value a document showed
    decided,      \* history: the operations whose answer was final
    merged,       \* history: the operations a later one took up
    cleared,      \* history: how many were staged by the last clear-all
    revived,      \* history: per device, the cards a refresh showed too late
    rewarded      \* the reviews whose experience points were granted

clientVars == <<queue, view, lease, known, run, late, faults>>
mirrorVars == <<sync, refresh, revived>>
history == <<ops, writes, saved, decided, merged, cleared, rewarded>>
syncVars == <<serverVars, clientVars, mirrorVars, history>>

Nobody == "nobody"
Now == Len(ops)
Dev(t) == Home[t]

\* The mirror's version of a card; one it lacks is older than any.
Hidden == [shown |-> FALSE, epoch |-> 0, rev |-> 0]
Shown(e, r) == [shown |-> TRUE, epoch |-> e, rev |-> r]

NoOp == [kind |-> "create", card |-> CHOOSE c \in Cards : TRUE, id |-> 0,
         at |-> 0, base |-> 0, epoch |-> 0, mask |-> {}, val |-> Blank,
         last |-> 0]

\* A call carries an operation, the revision it is now based on, how often
\* it was tried, and whether the page that would try it again still runs.
NoCall == [op |-> NoOp, base |-> 0, try |-> 0, alive |-> FALSE]

Idle == [pc |-> "idle", direct |-> FALSE, todo |-> <<>>, call |-> NoCall,
         reply |-> "", rev |-> 0, flushed |-> {}, acking |-> {}]

\* The mirror takes the writes of one refresh (a generation): of which tab,
\* for which epoch, and which cards were written since it began.  A refresh
\* that was cut off or overtaken is not taken any more.
NoSync == [by |-> Nobody, epoch |-> 0, kept |-> {}]

\* A refresh holds the epoch it is for, the cards it has not passed, the page
\* it read and the pending operations it still has to lay over.
NoRefresh == [pc |-> "idle", epoch |-> 0, left |-> {}, page |-> {}, todo |-> <<>>]

-----------------------------------------------------------------------------
(* The mirror's conditional writes.  What they write or leave for newer    *)
(* joins the refresh under way.                                            *)

NotNewer(v, e, r) == v.epoch < e \/ (v.epoch = e /\ v.rev <= r)

\* upsertMirroredCardIfNotOlderThan
UpsertView(v, e, r) ==
    IF v.shown /\ ~NotNewer(v, e, r) THEN v ELSE Shown(e, r)

\* deleteMirroredCardIfNotNewerThan
DropView(v, e, r) == IF NotNewer(v, e, r) THEN Hidden ELSE v

\* deleteMirroredCardIfOlderThan
DropOlder(v, e) == IF v.epoch < e THEN Hidden ELSE v

\* patchMirroredCardBatch, which writes only a card it finds, if not newer.
PatchView(v, e, r) == IF v.shown /\ NotNewer(v, e, r) THEN Shown(e, r) ELSE v

\* Mutant of Joined: what is written beside a refresh does not join it.
Joined_Never(s, c) == s

\* Card c is written, or found newer, while the mirror takes refresh s.
Joined(s, c) == IF s.by = Nobody THEN s ELSE [s EXCEPT !.kept = @ \cup {c}]

\* A newer card of a later epoch than the refresh's ends the refresh.
JoinUpsert(s, c, v, e, r) ==
    IF /\ v.shown /\ ~NotNewer(v, e, r)
       /\ s.by # Nobody /\ v.epoch > s.epoch
    THEN NoSync ELSE Joined(s, c)

JoinPatch(s, c, v, e, r) ==
    IF v.shown /\ NotNewer(v, e, r) THEN Joined(s, c) ELSE s

SeeCard(d, c, v, s) ==
    /\ view' = [view EXCEPT ![d][c] = v]
    /\ sync' = [sync EXCEPT ![d] = s]
    /\ revived' = [revived EXCEPT ![d] = IF v.shown THEN @ ELSE @ \ {c}]
    /\ UNCHANGED refresh

-----------------------------------------------------------------------------
(* Staging                                                                 *)

StagedBase(t, kind, c) == IF kind = "create" THEN 0 ELSE view[Dev(t)][c].rev

StagedEpoch(t, kind, c) ==
    IF known[t] = Unverified THEN Unverified
    ELSE IF kind = "delete" THEN view[Dev(t)][c].epoch
    ELSE known[t]

\* What every field of an operation holds is the operation's own id.
NewOp(t, s, c) ==
    [kind |-> s.kind, card |-> c, id |-> Now + 1, at |-> Now + 1,
     base |-> StagedBase(t, s.kind, c), epoch |-> StagedEpoch(t, s.kind, c),
     mask |-> s.mask, val |-> [f \in Fields |-> Now + 1], last |-> 0]

IdsIn(q) == {q[i].id : i \in DOMAIN q}

\* The operations that the merge of a queue folds, replaces or absorbs.
TakenUp(q) == IdsIn(q) \ IdsIn(Merge(q))

\* The mirror shows what the operation intends.
Intended(t, kind, v) ==
    CASE kind = "create" ->
           Shown(IF known[t] = Unverified THEN 0 ELSE known[t], 0)
      [] kind = "delete" -> Hidden
      [] OTHER           -> v

\* A tab that tries an operation at once stages one at a time; it creates
\* cards through the queue only.
Stage(t, s, c) ==
    LET d    == Dev(t)
        kind == s.kind
        op   == NewOp(t, s, c)
    IN  /\ Now < MaxOps
        /\ run[t].pc # "direct"
        /\ view[d][c].shown <=> kind # "create"
        /\ kind = "create" /\ ~Recreates
             => c \notin Given /\ \A i \in DOMAIN ops : ops[i].card # c
        /\ queue' = [queue EXCEPT ![d] = Merge(Append(@, op))]
        /\ merged' = merged \cup TakenUp(Append(queue[d], op))
        /\ ops' = Append(ops, op)
        /\ SeeCard(d, c, Intended(t, kind, view[d][c]),
                   IF kind = "delete" THEN sync[d] ELSE Joined(sync[d], c))
        /\ run' = IF /\ t \in DirectTabs /\ kind # "create"
                     /\ known[t] # Unverified /\ run[t].pc = "idle"
                  THEN [run EXCEPT ![t] = [Idle EXCEPT !.pc = "direct",
                                                       !.direct = TRUE,
                                                       !.todo = <<op>>]]
                  ELSE run
        /\ UNCHANGED <<serverVars, lease, known, late, faults, writes, saved, decided,
                       cleared, rewarded>>

Release(t) == [lease EXCEPT ![Dev(t)] = IF @ = t THEN Nobody ELSE @]

\* A direct attempt takes the lease, or leaves the operation to a flush.
StartDirect(t) ==
    /\ run[t].pc = "direct"
    /\ IF lease[Dev(t)] = Nobody
       THEN /\ lease' = [lease EXCEPT ![Dev(t)] = t]
            /\ run' = [run EXCEPT ![t].pc = "run"]
       ELSE /\ run' = [run EXCEPT ![t] = Idle]
            /\ UNCHANGED lease
    /\ UNCHANGED <<serverVars, queue, view, known, late, faults, mirrorVars, history>>

-----------------------------------------------------------------------------
(* runFlush, up to its calls                                               *)

CanFlush(t) ==
    /\ run[t].pc = "idle"
    /\ known[t] # Unverified
    /\ lease[Dev(t)] = Nobody
    /\ queue[Dev(t)] # <<>>

\* The flush loads the queue and splits it by the epoch the tab verified,
\* which it reads again when an operation claims a later one.  What belongs
\* to an earlier generation is acknowledged first.
StartFlush(t) ==
    LET d     == Dev(t)
        q     == Merge(queue[d])
        e     == IF FutureIn(q, known[t]) = <<>> THEN known[t] ELSE epoch
        stale == StaleIn(q, e)
    IN  /\ CanFlush(t)
        /\ lease' = [lease EXCEPT ![d] = t]
        /\ known' = [known EXCEPT ![t] = e]
        /\ queue' = [queue EXCEPT ![d] = q]
        /\ view' = [view EXCEPT ![d] = [c \in Cards |->
                      IF CommandsOn(stale, c) # <<>>
                      THEN DropOlder(view[d][c], e) ELSE view[d][c]]]
        /\ run' = [run EXCEPT ![t] =
                     [Idle EXCEPT !.pc = IF stale = <<>> THEN "run" ELSE "ack",
                                  !.acking = ToSet(stale),
                                  !.todo = FlushOrder(CurrentIn(q, e))]]
        /\ decided' = decided \cup IdsIn(stale)
        /\ merged' = merged \cup TakenUp(queue[d])
        /\ UNCHANGED <<serverVars, late, faults, mirrorVars, ops, writes, saved, cleared,
                       rewarded>>

\* The next operation goes out after the tab checked that it owns the lease.
Send(t) ==
    /\ run[t].pc = "run"
    /\ run[t].todo # <<>>
    /\ lease[Dev(t)] = t
    /\ LET op == Head(run[t].todo) IN
       run' = [run EXCEPT ![t].pc = "wait",
                          ![t].todo = Tail(@),
                          ![t].call = [op |-> op, base |-> op.base, try |-> 1,
                                       alive |-> TRUE]]
    /\ UNCHANGED <<serverVars, queue, view, lease, known, late, faults, mirrorVars,
                   history>>

-----------------------------------------------------------------------------
(* The cloud's side of a call                                              *)

Request(call) == [call.op EXCEPT !.base = call.base]

Reply(op) ==
    CASE op.kind = "create" -> CreateReply(op)
      [] op.kind = "patch"  -> PatchReply(op)
      [] op.kind = "delete" -> DeleteReply(op)
      [] op.kind = "review" -> ReviewReply(op, Now)

Writes(op) == \/ op.kind = "create" /\ Reply(op) = "created"
              \/ op.kind = "delete" /\ Reply(op) = "deleted"
              \/ IsPatch(op) /\ Reply(op) = "applied"

\* One transaction serves the call.
Execute(op) ==
    /\ \/ op.kind = "create" /\ CreateCard(op)
       \/ op.kind = "patch"  /\ PatchCard(op)
       \/ op.kind = "delete" /\ DeleteCard(op, Now)
       \/ op.kind = "review" /\ ReviewCard(op, Now)
       \/ ~Writes(op) /\ UNCHANGED serverVars
    /\ writes' = IF Writes(op) THEN Append(writes, op.id) ELSE writes
    /\ saved' = saved \cup {card'[op.card].val[f] : f \in Fields}

\* A refused review that is not later than the last one the card shows is
\* stale; it is not tried again.
StaleReview(call) == /\ call.op.kind = "review"
                     /\ call.op.at <= card[call.op.card].last

Retried(call) ==
    /\ Reply(Request(call)) = "revision-conflict"
    /\ call.try = 1
    /\ ~StaleReview(call)

Rebased(call) == [call EXCEPT !.base = card[call.op.card].rev,
                                !.try = @ + 1]

\* The answer the caller sees, and the revision that comes with it.
Answer(call) ==
    IF /\ Reply(Request(call)) = "revision-conflict"
       /\ call.try = 1 /\ StaleReview(call)
    THEN "stale-review" ELSE Reply(Request(call))

AnsweredRev(op) ==
    CASE Reply(op) = "nothing-to-delete" -> op.base + 1
      [] op.kind = "delete" /\ Reply(op) # "nothing-to-delete" ->
            tomb'[op.card].rev
      [] Reply(op) = "duplicate" -> (CHOOSE r \in ValidReceipt(op) : TRUE).rev
      [] OTHER -> card'[op.card].rev

Serve(t) ==
    LET call == run[t].call IN
    /\ run[t].pc = "wait"
    /\ IF Retried(call)
       THEN /\ run' = [run EXCEPT ![t].call = Rebased(call)]
            /\ UNCHANGED <<serverVars, writes, saved>>
       ELSE /\ Execute(Request(call))
            /\ run' = [run EXCEPT ![t].pc = "got",
                                  ![t].reply = Answer(call),
                                  ![t].rev = AnsweredRev(Request(call))]
    /\ UNCHANGED <<queue, view, lease, known, late, faults, mirrorVars, ops, decided,
                   merged, cleared, rewarded>>

-----------------------------------------------------------------------------
(* runFlush and the direct attempts, on an answer                          *)

Got(t, kinds, replies) == /\ run[t].pc = "got"
                          /\ run[t].call.op.kind \in kinds
                          /\ run[t].reply \in replies

Anything == Kinds
RejectedReview == {"stale-review", "future-review-clock-skew",
                   "receipt-fingerprint-conflict", "stale-library-epoch",
                   "future-library-epoch"}

\* Before it uses the answer, a direct attempt asserts the lease again; so
\* does a flush that is about to restore or reconcile a card.
NeedsLease(t) ==
    \/ run[t].pc = "run"
    \/ run[t].pc = "got" /\ \/ run[t].direct
                            \/ Got(t, {"create"}, {"created", "exists"})
                            \/ Got(t, {"review"}, RejectedReview)

Sure(t) == NeedsLease(t) => lease[Dev(t)] = t

\* The run goes on; the operations in done wait for the acknowledgement that
\* ends it, those in now are acknowledged next.
Continue(t, done, now) ==
    run' = [run EXCEPT ![t].pc = IF now = {} THEN "run" ELSE "ack",
                       ![t].call = NoCall, ![t].reply = "", ![t].rev = 0,
                       ![t].flushed = @ \cup done, ![t].acking = now]

\* The run ends early and releases the lease if it still owns it.
Abort(t) == /\ run' = [run EXCEPT ![t] = Idle]
            /\ lease' = Release(t)

\* Mutant of Settled: an edit of a card the cloud lacks stays undecided.
Settled_NotMissing(t) ==
    \/ Got(t, {"create"}, {"created", "exists", "deleted"})
    \/ Got(t, {"patch"}, {"applied", "already-applied"})
    \/ Got(t, {"delete"}, {"deleted", "replayed", "nothing-to-delete"})
    \/ Got(t, {"review"}, {"missing"})

\* The answers that settle an operation and leave its acknowledgement to the
\* end of the run.
Settled(t) ==
    \/ Got(t, {"create"}, {"created", "exists", "deleted"})
    \/ Got(t, {"patch"}, {"applied", "already-applied"})
    \/ Got(t, {"delete"}, {"deleted", "replayed", "nothing-to-delete"})
    \/ Got(t, {"patch", "review"}, {"missing"})

\* What the mirror makes of such an answer.
SettledView(v, op, reply, r) ==
    CASE reply \in {"created", "exists"}          -> UpsertView(v, op.epoch, r)
      [] reply \in {"applied", "already-applied"} -> PatchView(v, op.epoch, r)
      [] op.kind = "delete"                       -> DropView(v, op.epoch, r - 1)
      [] OTHER -> DropView(v, op.epoch, op.base)

SettledSync(s, v, op, reply, r) ==
    CASE reply \in {"created", "exists"} -> JoinUpsert(s, op.card, v, op.epoch, r)
      [] reply \in {"applied", "already-applied"} ->
            JoinPatch(s, op.card, v, op.epoch, r)
      [] OTHER -> s

HandleSettled(t) ==
    LET op == run[t].call.op
        d  == Dev(t)
    IN  /\ Settled(t)
        /\ Sure(t)
        /\ SeeCard(d, op.card,
                   SettledView(view[d][op.card], op, run[t].reply, run[t].rev),
                   SettledSync(sync[d], view[d][op.card], op, run[t].reply, run[t].rev))
        /\ decided' = decided \cup {op.id}
        /\ Continue(t, {op}, {})
        /\ UNCHANGED <<serverVars, queue, lease, known, late, faults, ops, writes, saved,
                       merged, cleared, rewarded>>

\* A patch or delete of an earlier generation: the tab reads the epoch again.
HandleStale(t) ==
    LET op == run[t].call.op
        d  == Dev(t)
    IN  /\ Got(t, {"patch", "delete"}, {"stale-library-epoch"})
        /\ Sure(t)
        /\ known' = [known EXCEPT ![t] = epoch]
        /\ SeeCard(d, op.card, DropOlder(view[d][op.card], epoch), sync[d])
        /\ decided' = decided \cup {op.id}
        /\ Continue(t, {op}, {})
        /\ UNCHANGED <<serverVars, queue, lease, late, faults, ops, writes, saved, merged,
                       cleared, rewarded>>

\* Mutant of ReviewDone: a review refused as stale counts too.
ReviewDone_Stale(t) ==
    Got(t, {"review"}, {"applied", "duplicate", "stale-review"})

ReviewDone(t) == Got(t, {"review"}, {"applied", "duplicate"})

\* An applied review is rewarded, then acknowledged if the lease still holds.
HandleReviewed(t) ==
    LET op == run[t].call.op
        d  == Dev(t)
    IN  /\ ReviewDone(t)
        /\ Sure(t)
        /\ SeeCard(d, op.card, PatchView(view[d][op.card], op.epoch, run[t].rev),
                   JoinPatch(sync[d], op.card, view[d][op.card], op.epoch, run[t].rev))
        /\ rewarded' = rewarded \cup {op.id}
        /\ decided' = decided \cup {op.id}
        /\ \/ lease[d] = t /\ Continue(t, {}, {op}) /\ UNCHANGED lease
           \/ lease[d] # t /\ Abort(t)
        /\ UNCHANGED <<serverVars, queue, known, late, faults, ops, writes, saved, merged,
                       cleared>>

\* A review refused for good: the mirror takes the card the cloud shows now,
\* and a direct attempt its epoch too.
HandleRejected(t) ==
    LET op  == run[t].call.op
        d   == Dev(t)
        doc == card[op.card]
    IN  /\ Got(t, {"review"}, RejectedReview)
        /\ Sure(t)
        /\ SeeCard(d, op.card,
                   IF Present(doc)
                   THEN UpsertView(view[d][op.card], doc.epoch, doc.rev)
                   ELSE DropView(view[d][op.card], op.epoch, op.base),
                   IF Present(doc)
                   THEN JoinUpsert(sync[d], op.card, view[d][op.card], doc.epoch, doc.rev)
                   ELSE sync[d])
        /\ known' = IF run[t].direct
                    THEN [known EXCEPT ![t] = Later(@, doc.epoch)] ELSE known
        /\ decided' = decided \cup {op.id}
        /\ Continue(t, {}, {op})
        /\ UNCHANGED <<serverVars, queue, lease, late, faults, ops, writes, saved,
                       merged, cleared, rewarded>>

\* The card changed again, or the cloud is behind: the operation stays queued.
HandleKept(t) ==
    /\ \/ Got(t, Anything, {"revision-conflict"})
       \/ Got(t, {"patch", "delete"}, {"future-library-epoch"})
    /\ Sure(t)
    /\ Continue(t, {}, {})
    /\ UNCHANGED <<serverVars, queue, view, lease, known, late, faults, mirrorVars,
                   history>>

\* Any other refusal of a create, and a counter at its limit, end the flush.
HandleFailed(t) ==
    /\ \/ Got(t, {"create"}, {"stale-library-epoch", "future-library-epoch"})
       \/ Got(t, Anything, {"counter-exhausted"})
    /\ Abort(t)
    /\ known' = IF run[t].reply = "stale-library-epoch"
                THEN [known EXCEPT ![t] = epoch] ELSE known
    /\ UNCHANGED <<serverVars, queue, view, late, faults, mirrorVars, history>>

\* The last assertion of the run, before it acknowledges what is settled.
AssertFinal(t) ==
    /\ run[t].pc = "run"
    /\ run[t].todo = <<>>
    /\ run[t].flushed # {}
    /\ lease[Dev(t)] = t
    /\ run' = [run EXCEPT ![t].pc = "ack", ![t].acking = run[t].flushed,
                          ![t].flushed = {}]
    /\ UNCHANGED <<serverVars, queue, view, lease, known, late, faults, mirrorVars,
                   history>>

\* acknowledgeDevicePending, a transaction of its own: the lease is not
\* looked at again.
Ack(t) ==
    /\ run[t].pc = "ack"
    /\ queue' = [queue EXCEPT ![Dev(t)] = Acknowledged(@, run[t].acking)]
    /\ run' = [run EXCEPT ![t].pc = "load", ![t].acking = {}]
    /\ merged' = merged \cup TakenUp(queue[Dev(t)])
    /\ UNCHANGED <<serverVars, view, lease, known, late, faults, mirrorVars, ops, writes,
                   saved, decided, cleared, rewarded>>

\* A load merges what is left and writes it back.
LoadPending(d) == /\ queue' = [queue EXCEPT ![d] = Merge(@)]
                  /\ merged' = merged \cup TakenUp(queue[d])

\* refreshPending, which follows every acknowledgement.
RefreshPending(t) ==
    /\ run[t].pc = "load"
    /\ LoadPending(Dev(t))
    /\ run' = [run EXCEPT ![t].pc = "run"]
    /\ UNCHANGED <<serverVars, view, lease, known, late, faults, mirrorVars, ops, writes,
                   saved, decided, cleared, rewarded>>

\* Nothing is left to send or to acknowledge, or the lease was lost: then
\* what the run sent is not acknowledged.
Finish(t) ==
    /\ \/ run[t].pc = "run" /\ run[t].todo = <<>> /\ run[t].flushed = {}
       \/ ~Sure(t)
    /\ Abort(t)
    /\ UNCHANGED <<serverVars, queue, view, known, late, faults, mirrorVars, history>>

-----------------------------------------------------------------------------
(* Faults: timeouts, crashes, leases that run out.                         *)

Fault(f) == /\ f \in Faults
            /\ faults < MaxFaults
            /\ faults' = faults + 1

\* A flush stops waiting for its call, and the call goes on without it; a
\* direct attempt has no timeout of its own, its connection breaks.
Timeout(t) ==
    /\ Fault("timeout")
    /\ run[t].pc = "wait"
    /\ late' = late \cup {[run[t].call EXCEPT !.alive = ~run[t].direct]}
    /\ Abort(t)
    /\ UNCHANGED <<serverVars, queue, view, known, mirrorVars, history>>

LateServe(call) ==
    /\ IF Retried(call) /\ call.alive
       THEN /\ late' = (late \ {call}) \cup {Rebased(call)}
            /\ UNCHANGED <<serverVars, writes, saved>>
       ELSE /\ Execute(Request(call))
            /\ late' = late \ {call}
    /\ UNCHANGED <<queue, view, lease, known, run, faults, mirrorVars, ops, decided,
                   merged, cleared, rewarded>>

LateDrop(call) ==
    /\ late' = late \ {call}
    /\ UNCHANGED <<serverVars, queue, view, lease, known, run, faults, mirrorVars,
                   history>>

\* Nothing the mirror is sent by tab t's refresh counts any more.
Ended(t) == [sync EXCEPT ![Dev(t)] = IF @.by = t THEN NoSync ELSE @]

\* The page is gone and loads again: its memory is lost, its lease stays.
Crash(t) ==
    /\ Fault("crash")
    /\ run[t].pc # "idle" \/ refresh[t].pc # "idle"
    /\ late' = IF run[t].pc = "wait"
               THEN late \cup {[run[t].call EXCEPT !.alive = FALSE]} ELSE late
    /\ run' = [run EXCEPT ![t] = Idle]
    /\ known' = [known EXCEPT ![t] = Unverified]
    /\ refresh' = [refresh EXCEPT ![t] = NoRefresh]
    /\ sync' = Ended(t)
    /\ UNCHANGED <<serverVars, queue, view, lease, revived, history>>

\* A lease runs out unless the heartbeat of its owner renews it: the owner is
\* gone or, without Web Locks, frozen in the background.
Expire(d) ==
    /\ lease[d] # Nobody
    /\ \/ run[lease[d]].pc = "idle" /\ UNCHANGED faults
       \/ run[lease[d]].pc # "idle" /\ Fault("freeze")
    /\ lease' = [lease EXCEPT ![d] = Nobody]
    /\ UNCHANGED <<serverVars, queue, view, known, run, late, mirrorVars, history>>

-----------------------------------------------------------------------------
(* What a tab learns from the cloud, and clear-all                         *)

VerifyEpoch(t) ==
    /\ known[t] # epoch
    /\ known' = [known EXCEPT ![t] = epoch]
    /\ UNCHANGED <<serverVars, queue, view, lease, run, late, faults, mirrorVars, history>>

\* The user clears the library: under the lease, the epoch advances first.
ClearStart(t) ==
    /\ run[t].pc = "idle"
    /\ known[t] # Unverified
    /\ lease[Dev(t)] = Nobody
    /\ epoch < MaxClears
    /\ AdvanceEpoch
    /\ lease' = [lease EXCEPT ![Dev(t)] = t]
    /\ known' = [known EXCEPT ![t] = epoch + 1]
    /\ run' = [run EXCEPT ![t].pc = "clear-queue"]
    /\ cleared' = Now
    /\ UNCHANGED <<queue, view, late, faults, mirrorVars, ops, writes, saved, decided,
                   merged, rewarded>>

ClearQueue(t) ==
    /\ run[t].pc = "clear-queue"
    /\ queue' = [queue EXCEPT ![Dev(t)] = <<>>]
    /\ decided' = decided \cup IdsIn(queue[Dev(t)])
    /\ run' = [run EXCEPT ![t].pc = "clear-cards"]
    /\ UNCHANGED <<serverVars, view, lease, known, late, faults, mirrorVars, ops, writes,
                   saved, merged, cleared, rewarded>>

\* One page after another, until no card of an earlier generation is left.
ClearCards(t) ==
    /\ run[t].pc = "clear-cards"
    /\ \E page \in SUBSET Cards : PurgePage(known[t], page)
    /\ UNCHANGED <<clientVars, mirrorVars, history>>

ClearView(t) ==
    /\ run[t].pc = "clear-cards"
    /\ \A c \in Cards : Present(card[c]) => card[c].epoch >= known[t]
    /\ LET d == Dev(t) IN
       IF lease[d] = t
       THEN /\ view' = [view EXCEPT ![d] = [c \in Cards |-> Hidden]]
            /\ sync' = [sync EXCEPT ![d] = NoSync]
            /\ revived' = [revived EXCEPT ![d] = {}]
       ELSE UNCHANGED <<view, sync, revived>>
    /\ Abort(t)
    /\ UNCHANGED <<serverVars, queue, known, refresh, late, faults, history>>

-----------------------------------------------------------------------------
(* runMirrorRefresh, one step per await.  Each tab runs one at a time, and *)
(* beside its flush.                                                       *)

Moves(t, r) == refresh' = [refresh EXCEPT ![t] = r]

\* The cloud's epoch is read first.  (A mirror that is fresh enough ends the
\* refresh here, as if it had not begun.)
CaptureEpoch(t) ==
    /\ t \in Refreshers
    /\ refresh[t].pc = "idle"
    /\ Moves(t, [NoRefresh EXCEPT !.pc = "begin", !.epoch = epoch])
    /\ UNCHANGED <<serverVars, clientVars, sync, revived, history>>

\* beginCardMirrorSync: from now on the mirror takes this refresh's writes.
BeginSync(t) ==
    /\ refresh[t].pc = "begin"
    /\ Moves(t, [refresh[t] EXCEPT !.pc = "pages", !.left = Cards])
    /\ sync' = [sync EXCEPT ![Dev(t)] =
                  [by |-> t, epoch |-> refresh[t].epoch, kept |-> {}]]
    /\ UNCHANGED <<serverVars, clientVars, revived, history>>

\* The cloud's next page, whichever part of the cards left it covers.
ReadPage(t) ==
    LET r == refresh[t] IN
    /\ r.pc = "pages"
    /\ \E part \in SUBSET r.left \ {{}} :
          Moves(t, [r EXCEPT !.pc = "page", !.left = @ \ part,
                             !.page = {[card |-> c, rev |-> card[c].rev] : c \in
                                         {x \in part : Present(card[x])
                                                        /\ card[x].epoch = r.epoch}}])
    /\ UNCHANGED <<serverVars, clientVars, sync, revived, history>>

\* The card is in the cloud, or its create is on its way there.
Known(d, c) == Live(c) \/ \E o \in Ops(queue[d]) : o.kind = "create" /\ o.card = c

\* upsertMirroredCardBatch, ignored unless the mirror takes this refresh.  A
\* card deleted since it was read comes back: the mirror has no tombstones.
PutCards(t, page) ==
    LET d      == Dev(t)
        e      == refresh[t].epoch
        put(c) == {p \in page : p.card = c}
        next(c) == IF put(c) = {} THEN view[d][c]
                   ELSE UpsertView(view[d][c], e, (CHOOSE p \in put(c) : TRUE).rev)
        blocked(p) == LET v == view[d][p.card] IN
                      v.shown /\ ~NotNewer(v, e, p.rev) /\ v.epoch > e
    IN  IF sync[d].by # t THEN UNCHANGED <<view, sync, revived>>
        ELSE /\ view' = [view EXCEPT ![d] = [c \in Cards |-> next(c)]]
             /\ sync' = [sync EXCEPT ![d] =
                           IF \E p \in page : blocked(p) THEN NoSync
                           ELSE [@ EXCEPT !.kept = @ \cup {p.card : p \in page}]]
             /\ revived' = [revived EXCEPT ![d] =
                              @ \cup {p.card : p \in {x \in page : ~Known(d, x.card)}}]

PutPage(t) ==
    /\ refresh[t].pc = "page"
    /\ PutCards(t, refresh[t].page)
    /\ Moves(t, [refresh[t] EXCEPT !.pc = "pages", !.page = {}])
    /\ UNCHANGED <<serverVars, queue, lease, known, run, late, faults, history>>

Passed(t) == refresh[t].pc = "pages" /\ refresh[t].left = {}
Overlaid(t) == refresh[t].pc = "overlay" /\ refresh[t].todo = <<>>

\* After the pages, and after the overlay, the epoch must still be the same.
ConfirmEpoch(t) ==
    /\ Passed(t) \/ Overlaid(t)
    /\ epoch = refresh[t].epoch
    /\ Moves(t, [refresh[t] EXCEPT !.pc = IF Passed(t) THEN "load" ELSE "finish"])
    /\ UNCHANGED <<serverVars, clientVars, sync, revived, history>>

LoadOverlay(t) ==
    LET d == Dev(t)
        r == refresh[t]
    IN  /\ r.pc = "load"
        /\ LoadPending(d)
        /\ Moves(t, [r EXCEPT !.pc = "overlay",
                              !.todo = CurrentIn(Merge(queue[d]), r.epoch)])
        /\ UNCHANGED <<serverVars, view, sync, revived, lease, known, run, late, faults,
                       ops, writes, saved, decided, cleared, rewarded>>

\* The pending operations are laid over the pages one at a time.
OverlayNext(t) ==
    LET d == Dev(t)
        r == refresh[t]
    IN  /\ r.pc = "overlay"
        /\ r.todo # <<>>
        /\ LET op == Head(r.todo) IN
           \/ op.kind = "create" /\ PutCards(t, {[card |-> op.card, rev |-> 0]})
           \/ /\ IsPatch(op)
              /\ sync' = [sync EXCEPT ![d] = IF @.by = t /\ view[d][op.card].shown
                                             THEN Joined(@, op.card) ELSE @]
              /\ UNCHANGED <<view, revived>>
           \/ /\ op.kind = "delete"
              /\ view' = [view EXCEPT ![d][op.card] =
                            IF sync[d].by = t THEN Hidden ELSE @]
              /\ UNCHANGED <<sync, revived>>
        /\ Moves(t, [r EXCEPT !.todo = Tail(@)])
        /\ UNCHANGED <<serverVars, queue, lease, known, run, late, faults, history>>

\* finishCardMirrorSync: the cards nobody wrote since the refresh began go,
\* but for those of a later epoch.
FinishSync(t) ==
    LET d == Dev(t)
        s == sync[d]
    IN  /\ refresh[t].pc = "finish"
        /\ s.by = t
        /\ view' = [view EXCEPT ![d] = [c \in Cards |->
                      IF c \in s.kept \/ @[c].epoch > s.epoch THEN @[c] ELSE Hidden]]
        /\ sync' = [sync EXCEPT ![d] = NoSync]
        /\ revived' = [revived EXCEPT ![d] = @ \cap s.kept]
        /\ Moves(t, NoRefresh)
        /\ UNCHANGED <<serverVars, queue, lease, known, run, late, faults, history>>

\* A page cannot be read, the epoch has changed or cannot be confirmed, or the
\* mirror takes another refresh by now: what it took so far stays, and is not
\* complete.
AbandonRefresh(t) ==
    /\ \/ refresh[t].pc = "pages" \/ Overlaid(t)
       \/ refresh[t].pc = "finish" /\ sync[Dev(t)].by # t
    /\ sync' = Ended(t)
    /\ Moves(t, NoRefresh)
    /\ UNCHANGED <<serverVars, clientVars, revived, history>>

RefreshMirror(t) ==
    \/ CaptureEpoch(t) \/ BeginSync(t) \/ ReadPage(t) \/ PutPage(t) \/ ConfirmEpoch(t)
    \/ LoadOverlay(t) \/ OverlayNext(t) \/ FinishSync(t) \/ AbandonRefresh(t)

-----------------------------------------------------------------------------

Seed == [NoCard EXCEPT !.rev = 1]

SyncInit ==
    /\ epoch = 0
    /\ card = [c \in Cards |-> IF c \in Given THEN Seed ELSE NoCard]
    /\ tomb = [c \in Cards |-> [epoch |-> 0, rev |-> 0,
                                op |-> CHOOSE o \in OpIds : TRUE, at |-> 0]]
    /\ receipt = {}
    /\ queue = [d \in Devices |-> <<>>]
    /\ view = [d \in Devices |->
                 [c \in Cards |-> IF c \in Given THEN Shown(0, 1) ELSE Hidden]]
    /\ sync = [d \in Devices |-> NoSync]
    /\ refresh = [t \in Tabs |-> NoRefresh]
    /\ revived = [d \in Devices |-> {}]
    /\ lease = [d \in Devices |-> Nobody]
    /\ known = [t \in Tabs |-> IF t \in VerifiedTabs THEN 0 ELSE Unverified]
    /\ run = [t \in Tabs |-> Idle]
    /\ late = {}
    /\ faults = 0
    /\ ops = <<>>
    /\ writes = <<>>
    /\ saved = {}
    /\ decided = {}
    /\ merged = {}
    /\ cleared = 0
    /\ rewarded = {}

HandleAnswer(t) == \/ HandleSettled(t)
                   \/ HandleStale(t)
                   \/ HandleReviewed(t)
                   \/ HandleRejected(t)
                   \/ HandleKept(t)
                   \/ HandleFailed(t)

\* The steps of a flush or a direct attempt, once it runs.
Proceed(t) == \/ StartDirect(t)
              \/ Send(t)
              \/ HandleAnswer(t)
              \/ AssertFinal(t)
              \/ Finish(t)

Clear(t) == ClearQueue(t) \/ ClearCards(t) \/ ClearView(t)

SyncNext ==
    \/ \E t \in Tabs :
          \/ \E s \in Staged[t], c \in Cards : Stage(t, s, c)
          \/ StartFlush(t) \/ Proceed(t) \/ Ack(t) \/ RefreshPending(t) \/ Serve(t)
          \/ ClearStart(t) \/ Clear(t) \/ RefreshMirror(t)
          \/ Timeout(t) \/ Crash(t) \/ VerifyEpoch(t)
    \/ \E d \in Devices : Expire(d)
    \/ \E call \in late : LateServe(call) \/ LateDrop(call)

SyncSpec == SyncInit /\ [][SyncNext]_syncVars

\* A tab flushes every minute while operations are pending, its runs go on,
\* the cloud answers, and an epoch it cannot tell is read before the flush.
\* (Weak fairness of StartFlush, Ack and RefreshPending, with what enables them
\* spelled out.)
SyncFairness ==
    /\ \A t \in Tabs :
          /\ WF_syncVars(VerifyEpoch(t))
          /\ <>[]CanFlush(t) => []<><<StartFlush(t)>>_syncVars
          /\ WF_syncVars(Proceed(t) \/ Clear(t) \/ Serve(t))
          /\ <>[](run[t].pc = "ack") => []<><<Ack(t)>>_syncVars
          /\ <>[](run[t].pc = "load") => []<><<RefreshPending(t)>>_syncVars
    /\ \A d \in Devices : WF_syncVars(Expire(d))

FairSyncSpec == SyncSpec /\ SyncFairness

-----------------------------------------------------------------------------
(* Properties.                                                             *)

StagedOn(c) == {i \in DOMAIN ops : ops[i].card = c}
Kind(i) == ops[i].kind
Queued(i) == \E d \in Devices : i \in IdsIn(queue[d])
AllIdle == late = {} /\ \A t \in Tabs : run[t].pc = "idle"
Settling == AllIdle /\ \A d \in Devices : queue[d] = <<>>

\* However often an operation is sent, timed out, answered late, sent again by
\* another tab or rebased, and whatever other devices do to the card between,
\* the cloud changes the card for it once.  A review always; a create or a
\* delete as long as its tab knew its epoch, and a delete only until another
\* one is applied to the card, for a tombstone names its last delete alone.
\* Patches are the exception.
AppliedOnce ==
    \A i, j \in DOMAIN writes :
        i < j /\ writes[i] = writes[j] =>
            LET w == writes[i] IN
            \/ Kind(w) = "patch"
            \/ Kind(w) # "review" /\ ops[w].epoch = Unverified
            \/ Kind(w) = "delete" /\ \E k \in DOMAIN writes :
                  /\ i < k /\ k < j
                  /\ Kind(writes[k]) = "delete"
                  /\ ops[writes[k]].card = ops[w].card

\* Experience points are granted only for reviews the cloud committed.
RewardBacked == rewarded \subseteq ToSet(writes)

\* What may take up operation i: a later create, a later patch if i is one, and
\* a delete, which also keeps out what is staged after it.
TakesUp(j, i) ==
    /\ j # i
    /\ ops[j].card = ops[i].card
    /\ \/ Kind(j) = "delete"
       \/ j > i /\ Kind(j) = "create"
       \/ j > i /\ Kind(j) = "patch" /\ Kind(i) = "patch"

\* An operation leaves the queue of its device only because the cloud gave a
\* final answer to it, because a merge let another operation of its card take
\* it up, which for a review only a create or a delete can, or because a
\* clear-all took it: never because another one was acknowledged, by whichever
\* tab, at a time when the queue had changed since it was loaded.
NothingDropped ==
    \A i \in 1 .. Now :
        \/ Queued(i)
        \/ i \in decided
        \/ i \in merged /\ \E j \in 1 .. Now : TakesUp(j, i)

\* The value operation i set is still on its way, in a queued patch.
Waiting(i) == \E d \in Devices : \E k \in DOMAIN queue[d] :
                 LET op == queue[d][k] IN
                 \/ op.id = i
                 \/ IsPatch(op) /\ \E f \in op.mask : op.val[f] = i

\* A delete with no create since takes along what is staged on its card: the
\* mirror can show such a card again when the answer to its create arrives.
Doomed(i) == \E j \in StagedOn(ops[i].card) :
    /\ j < i /\ Kind(j) = "delete"
    /\ \A k \in StagedOn(ops[i].card) : j < k /\ k <= i => Kind(k) # "create"

Intents(c) == {i \in StagedOn(c) : ~Doomed(i)}

\* A delete or later operations leave nothing of operation i to save, whole or
\* field by field.
Superseded(i) ==
    \/ i <= cleared
    \/ Doomed(i)
    \/ \E j \in StagedOn(ops[i].card) : j > i /\ Kind(j) \in {"create", "delete"}
    \/ \A f \in ops[i].mask : \E j \in StagedOn(ops[i].card) :
          j > i /\ Kind(j) = "patch" /\ f \in ops[j].mask

\* An edit waits in the queue until the cloud's document shows it, though the
\* patches it folds into, creates and other tabs' flushes are acknowledged
\* meanwhile.
EditsReachTheCloud ==
    \A i \in DOMAIN ops : Kind(i) = "patch" =>
        i \in saved \/ Waiting(i) \/ Superseded(i)

Sets(i, f) == Kind(i) = "create" \/ (Kind(i) = "patch" /\ f \in ops[i].mask)

\* The operation whose value a field of a card should end with.
LastSetter(c, f) == {i \in Intents(c) :
    Sets(i, f) /\ \A j \in Intents(c) : j > i => ~Sets(j, f)}

\* One device, however many tabs: once everything is flushed, a card whose
\* last word was a delete is gone and any other shows, field by field, what
\* was staged last.
LastIntentHolds ==
    Settling => \A c \in Cards : Intents(c) # {} =>
        IF \E i \in Intents(c) : Kind(i) = "delete" /\ \A j \in Intents(c) : j <= i
        THEN ~Live(c)
        ELSE /\ Live(c)
             /\ \A f \in Fields : \A i \in LastSetter(c, f) :
                   card[c].val[f] = i

\* One device: once everything is flushed and no refresh is under way, the
\* mirror shows every card of the cloud as it is there: a refresh takes away
\* nothing that was staged or flushed beside it.  It shows no other card, but
\* one that a refresh read before its delete and put back after it, and no
\* refresh finished since.
MirrorSettles ==
    Settling /\ (\A t \in Tabs : refresh[t].pc = "idle") =>
        \A d \in Devices, c \in Cards :
            /\ view[d][c].shown => Live(c) \/ c \in revived[d]
            /\ Live(c) => view[d][c] = Shown(epoch, card[c].rev)

\* Staged after the last clear-all, or by a tab that did not know its epoch:
\* such an operation joins the generation of the flush that finds it.
Fresh(i) == i > cleared \/ ops[i].epoch = Unverified

\* Edits of one card, which a merge folds into one.
EditsOfOne(i, j) == /\ Kind(i) = "patch" /\ Kind(j) = "patch"
                   /\ ops[i].card = ops[j].card

\* What was staged on any device before a clear-all changes nothing in the
\* cloud after it: the cloud writes no such operation, and no document gets a
\* value from one.  The exception is an edit that still waits when a later one
\* of its card is staged on its device: the merge folds the two, and what the
\* earlier one set goes out under the id and the epoch of the later.
NoWriteFromBeforeClear ==
    [][Len(writes') > Len(writes) =>
         LET w == Last(writes')
             c == ops[w].card
         IN  /\ Fresh(w)
             /\ \A f \in Fields : LET i == card'[c].val[f] IN
                   Present(card'[c]) /\ i # card[c].val[f] /\ i \in 1 .. Now
                      => Fresh(i) \/ EditsOfOne(i, w)]_syncVars

\* Every queue is empty in the end: no refusal of the cloud leaves an
\* operation that is sent and refused for ever.
QueueDrains == <>[](\A d \in Devices : queue[d] = <<>>)
=============================================================================
