---------------------------- MODULE DeviceQueue -----------------------------
(***************************************************************************)
(* The queue of one owner on one device, shared by the tabs of a browser:  *)
(* each tab stamps an operation and then persists it in an IndexedDB       *)
(* transaction, so two tabs can persist in the other order than they       *)
(* stamped; a flush loads a snapshot, and acknowledges some of it after    *)
(* other operations may have been persisted; the device learns that the    *)
(* library epoch moved, and its own clear-all empties the queue.           *)
(***************************************************************************)
EXTENDS PendingQueue, FiniteSets

CONSTANTS
    Cards,
    Fields,       \* the patchable fields of a card
    Tabs,         \* the tabs that stage operations
    Staged,       \* the [kind, mask] pairs a tab may stage
    MaxOps,       \* bound on the operations staged
    MaxDrafts,    \* bound on the operations a tab has in flight to the store
    MaxClock,     \* bound on the clock
    MaxEpoch      \* bound on the clear-alls

ASSUME StagedAssumption == Staged \subseteq [kind : Kinds, mask : SUBSET Fields]

VARIABLES
    queue,        \* the stored pending operations
    draft,        \* per tab: operations stamped and not yet persisted
    snapshot,     \* the operations the running flush loaded
    clock,        \* the device's clock
    known,        \* the library epoch the device's tabs last verified
    arrived,      \* history: every operation persisted, in that order
    past,         \* history: what was settled when each of them arrived
    settled       \* history: the acknowledged operations, and what was
                  \* queued when a clear-all emptied the queue

dqVars == <<queue, draft, snapshot, clock, known, arrived, past,
          settled>>

Ids == 1 .. MaxOps
IdsUsed == {arrived[i].id : i \in DOMAIN arrived}
           \cup {o.id : o \in UNION {ToSet(draft[t]) : t \in Tabs}}

\* Every field of an operation holds the operation's own id, so a value
\* names the operation that wrote it.
Stamped(i, c, s) == [kind |-> s.kind, card |-> c, id |-> i, at |-> clock,
                     base |-> 0, epoch |-> known, mask |-> s.mask,
                     val |-> [f \in Fields |-> i]]

DQInit ==
    /\ queue = <<>>
    /\ draft = [t \in Tabs |-> <<>>]
    /\ snapshot = <<>>
    /\ clock = 0
    /\ known = 0
    /\ arrived = <<>>
    /\ past = <<>>
    /\ settled = {}

\* A tab builds an operation: its stamp is read before the transaction.
StampOp(t) ==
    /\ Cardinality(IdsUsed) < MaxOps
    /\ Len(draft[t]) < MaxDrafts
    /\ \E c \in Cards, s \in Staged :
          draft' = [draft EXCEPT
                      ![t] = Append(@, Stamped(Cardinality(IdsUsed) + 1, c, s))]
    /\ UNCHANGED <<queue, snapshot, clock, known, arrived, past,
                   settled>>

\* persistDevicePending: one transaction merges the operation in.
Persist(t) ==
    /\ draft[t] # <<>>
    /\ queue' = Merge(Append(queue, Head(draft[t])))
    /\ arrived' = Append(arrived, Head(draft[t]))
    /\ past' = Append(past, settled)
    /\ draft' = [draft EXCEPT ![t] = Tail(@)]
    /\ UNCHANGED <<snapshot, clock, known, settled>>

Tick ==
    /\ clock < MaxClock
    /\ clock' = clock + 1
    /\ UNCHANGED <<queue, draft, snapshot, known, arrived, past, settled>>

\* A flush loads the queue, which writes the merged queue back.
LoadPending ==
    /\ snapshot = <<>>
    /\ queue # <<>>
    /\ queue' = Merge(queue)
    /\ snapshot' = Merge(queue)
    /\ UNCHANGED <<draft, clock, known, arrived, past, settled>>

\* The stamp order of two persisted operations, by arrival where they tie.
Before(i, j) == \/ arrived[i].at < arrived[j].at
                \/ arrived[i].at = arrived[j].at /\ i < j

\* History: a delete that another one of these absorbed leaves with it.
AbsorbedBy(done) ==
    {arrived[i].id : i \in {j \in DOMAIN arrived :
        /\ arrived[j].kind = "delete"
        /\ \E d \in DOMAIN arrived :
              /\ arrived[d].id \in done /\ arrived[d].kind = "delete"
              /\ arrived[d].card = arrived[j].card /\ Before(d, j)
              /\ arrived[d].id \notin past[j]
              /\ ~\E k \in DOMAIN arrived : /\ arrived[k].kind = "create"
                                            /\ arrived[k].card = arrived[j].card
                                            /\ Before(d, k) /\ Before(k, j)}}

\* The flush acknowledges those of its operations that the cloud decided.
Acknowledge ==
    /\ snapshot # <<>>
    /\ \E done \in SUBSET ToSet(snapshot) :
          /\ queue' = Acknowledged(queue, done)
          /\ settled' = settled \cup {o.id : o \in done}
                              \cup AbsorbedBy({o.id : o \in done})
    /\ snapshot' = <<>>
    /\ UNCHANGED <<draft, clock, known, arrived, past>>

\* The device verifies a later epoch: its own clear-all or another's moved it.
VerifyEpoch ==
    /\ known < MaxEpoch
    /\ known' = known + 1
    /\ UNCHANGED <<queue, draft, snapshot, clock, arrived, past, settled>>

\* clearDevicePending, once the device's own clear-all has moved the epoch.
ClearQueue ==
    /\ known > 0
    /\ queue # <<>>
    /\ queue' = <<>>
    /\ settled' = settled \cup {arrived[i].id : i \in DOMAIN arrived}
    /\ UNCHANGED <<draft, snapshot, clock, known, arrived, past>>

DQNext ==
    \/ \E t \in Tabs : StampOp(t) \/ Persist(t)
    \/ Tick
    \/ LoadPending
    \/ Acknowledge
    \/ VerifyEpoch
    \/ ClearQueue

DQSpec == DQInit /\ [][DQNext]_dqVars

-----------------------------------------------------------------------------
(* Properties.                                                             *)

\* The value a queue will write last to a field of a card.
LastWrite(q, c, f) ==
    LET writers == {k \in DOMAIN q : /\ q[k].card = c /\ q[k].kind = "patch"
                                     /\ f \in q[k].mask}
    IN  {q[k].val[f] : k \in {w \in writers : \A v \in writers : v <= w}}

\* The merge that every load writes back leaves alone what the queue will do
\* to each card, and merging once is merging for good.  (Card by card: between
\* cards, a second merge may swap operations of the same stamp.)  The stored
\* queue need not be merged: the acknowledgement of a review lets the patches
\* it kept apart meet, and they fold on the next merge.
WriteBackHarmless ==
    LET kept == Merge(queue)
        Plain(q, c) == {x \in Ops(q) : x.card = c /\ x.kind # "patch"}
    IN  \A c \in Cards :
            /\ CommandsOn(Merge(kept), c) = CommandsOn(kept, c)
            /\ Keep(kept, Plain(kept, c)) = Keep(queue, Plain(queue, c))
            /\ \A f \in Fields : LastWrite(kept, c, f) = LastWrite(queue, c, f)

Outstanding(c) ==
    {i \in DOMAIN arrived :
        /\ arrived[i].card = c
        /\ \A j \in DOMAIN arrived :
              arrived[j].card = c /\ arrived[j].id \in settled => Before(j, i)}

\* The latest create or delete among them, if any.
Barrier(c) == {i \in Outstanding(c) :
                 /\ arrived[i].kind \in {"create", "delete"}
                 /\ \A j \in Outstanding(c) :
                       arrived[j].kind \in {"create", "delete"} => ~Before(i, j)}

InStampOrder ==
    \A i, j \in DOMAIN arrived : i < j => arrived[i].at <= arrived[j].at

\* A card whose latest create or delete is a delete waits in the queue as
\* one delete and nothing else, whatever was acknowledged while it arrived:
\* a second delete is absorbed by the first.  (A create persisted late, under
\* a stamp between the two deletes', replaces them both: hence the order.)
DeleteStands ==
    InStampOrder => \A c \in Cards :
        (\E i \in Barrier(c) : arrived[i].kind = "delete") =>
            /\ Len(CommandsOn(queue, c)) = 1
            /\ Head(CommandsOn(queue, c)).kind = "delete"

\* A delete still unsettled when i arrived, with no create between the two,
\* takes i with it: the card i would change is to be gone.
Doomed(i) ==
    \E j \in DOMAIN arrived :
        /\ arrived[j].card = arrived[i].card /\ arrived[j].kind = "delete"
        /\ Before(j, i)
        /\ arrived[j].id \notin past[i]
        /\ ~\E k \in DOMAIN arrived :
              /\ arrived[k].card = arrived[i].card
              /\ arrived[k].kind = "create"
              /\ Before(j, k) /\ (k = i \/ Before(k, i))

\* The operations that came after the barrier of their card, and live.
Standing(c) == {i \in Outstanding(c) :
                  /\ \A b \in Barrier(c) : ~Before(i, b)
                  /\ ~Doomed(i)}

DeletePending(c) == \E b \in Barrier(c) : arrived[b].kind = "delete"

\* A review after its card's latest create is in the queue under its own id,
\* and so is that create: neither is folded, replaced nor acknowledged away
\* while operations are persisted in the order of their stamps.
ReviewsAndCreatesKept ==
    InStampOrder => \A c \in Cards : ~DeletePending(c) =>
        \A i \in Standing(c) : arrived[i].kind \in {"create", "review"}
                                 => \E k \in DOMAIN queue : queue[k] = arrived[i]

\* As long as the operations were persisted in the order of their stamps,
\* the queue ends by writing the latest value staged for each field, though
\* patches were folded, snapshots acknowledged and the queue cleared between.
LatestEditWins ==
    InStampOrder => \A c \in Cards, f \in Fields : ~DeletePending(c) =>
        \A i \in Standing(c) :
            /\ arrived[i].kind = "patch" /\ f \in arrived[i].mask
            /\ \A j \in Standing(c) : (arrived[j].kind = "patch"
                                       /\ f \in arrived[j].mask) => ~Before(i, j)
            => LastWrite(queue, c, f) = {arrived[i].id}
=============================================================================
