----------------------------- MODULE XpStreams ------------------------------
(***************************************************************************)
(* The experience points of one owner, earned in several tabs of a browser *)
(* that share a stored snapshot, and the transaction that credits them.    *)
(*                                                                         *)
(* An award is an operation.  A plain one has the name its caller gave it  *)
(* for an id ("review:..."); any other has a place in a stream, a client   *)
(* id with a sequence number, and one that was plain before it got its     *)
(* place remembers that name (legacyId).  The transaction knows an         *)
(* operation again by a bounded ledger of ids and by a watermark for each  *)
(* stream.                                                                 *)
(*                                                                         *)
(* The points and their history are kept as the number of times each       *)
(* award is in them; streaks and days are left out.                        *)
(***************************************************************************)
EXTENDS Naturals, FiniteSets, FiniteSetsExt, Sequences, Lists

CONSTANTS
    Tabs, Awards,
    Named,        \* the awards made under a name of their own
    Repeated,     \* the named awards that may be made twice
    Readers,      \* the tabs whose first read of the cloud may succeed
    Reloaders,    \* the tabs that may be loaded again
    PerSave,      \* operations in one save
    LedgerSize,   \* ids the ledger keeps
    MaxStreams,   \* streams the cloud keeps
    MaxClients,   \* bound on the client ids drawn
    MaxSaves,     \* bound on the saves of one tab under way
    MaxReloads,   \* bound on the loads after the first
    MaxFaults     \* bound on lost calls and lost answers

ASSUME NamedAssumption == Repeated \subseteq Named /\ Named \subseteq Awards
ASSUME TabAssumption == Readers \subseteq Tabs /\ Reloaders \subseteq Tabs
ASSUME SizeAssumption == {PerSave, LedgerSize, MaxStreams, MaxClients} \subseteq Nat \ {0}

VARIABLES
    stats,    \* the cloud: whether it exists, the points, ledger and watermarks
    store,    \* the stored snapshot: points and pending operations
    mem,      \* per tab: its snapshot, with the ids it knows to be applied
    stream,   \* per tab: its session's stream
    clients,  \* how many client ids were drawn
    load,     \* per tab: its first read of the cloud
    due,      \* per tab: whether a save is scheduled
    saves,    \* per tab: its saves, first come first served
    late,     \* requests whose tab no longer waits
    made,     \* history: how many times each award was made
    reloads, faults

tabVars == <<mem, stream, clients, load, due, saves>>
xpVars == <<stats, store, mem, stream, clients, load, due, saves, late, made, reloads, faults>>

Clients == 1..MaxClients
None == [a \in Awards |-> 0]
NoMarks == [c \in Clients |-> 0]

-----------------------------------------------------------------------------
(* Operations.  Client 0 stands for no stream.                             *)

Plain(a) == [award |-> a, client |-> 0, seq |-> 0]
Placed(a, c, n) == [award |-> a, client |-> c, seq |-> n]
InStream(op) == op.client # 0

\* An id set names an operation by its own id or by its legacyId.
Listed(op, ids) == op \in ids \/ Plain(op.award) \in ids

\* The points after some operations.
Plus(points, s) ==
    [a \in Awards |-> points[a] + Cardinality({i \in DOMAIN s : s[i].award = a})]

Without(s, ids) == Keep(s, {op \in Ops(s) : ~ Listed(op, ids)})

\* Mutant of MergeOps: the second list is forgotten.
MergeOps_OwnOnly(s, r, ids) == Without(s, ids)

\* Two lists of pending operations as one, without those the ids name.
MergeOps(s, r, ids) ==
    Without(s, ids) \o Keep(Without(r, ids), Ops(r) \ Ops(s))

FirstOps(s) == IF Len(s) <= PerSave THEN s ELSE SubSeq(s, 1, PerSave)

-----------------------------------------------------------------------------
(* Streams.  A document that was navigated to may share its session        *)
(* storage with the page it was opened from, and starts its own stream.    *)

NoStream == [client |-> 0, seq |-> 0, fork |-> FALSE]

Current(s) ==
    IF s.client = 0 \/ s.fork
    THEN [client |-> clients + 1, seq |-> 0, fork |-> FALSE]
    ELSE s

\* The plain operations that need a place, when some known ones have theirs.
Unplaced(s, known) ==
    {i \in DOMAIN s :
        ~ InStream(s[i]) /\ \A j \in DOMAIN known :
                                InStream(known[j]) => known[j].award # s[i].award}

Advanced(st, n) == [st EXCEPT !.seq = @ + n]

\* Plain operations get places, in their order, after the stream's last.
Upgrade(s, known, st) ==
    LET unplaced == Unplaced(s, known) IN
    [i \in DOMAIN s |->
        IF InStream(s[i]) THEN s[i]
        ELSE IF i \in unplaced
             THEN Placed(s[i].award, st.client, st.seq + Cardinality({j \in unplaced : j <= i}))
             ELSE CHOOSE op \in Ops(known) : InStream(op) /\ op.award = s[i].award]

\* What a tab has before it awards or acknowledges: the stored operations and
\* its own, all of them with places, and the stream after that.
Synced(t) ==
    LET st == Current(stream[t])
        stored == Upgrade(store.pending, <<>>, st)
        st1 == Advanced(st, Cardinality(Unplaced(store.pending, <<>>)))
        own == Upgrade(mem[t].pending, stored, st1)
    IN [stored |-> stored, own |-> own,
        next |-> Advanced(st1, Cardinality(Unplaced(mem[t].pending, stored)))]

\* The stream is written only when a place of it was taken.
TakeStream(t, old, st) ==
    IF st.seq = Current(old).seq
    THEN stream' = [stream EXCEPT ![t] = old] /\ UNCHANGED clients
    ELSE /\ st.client \in Clients
         /\ stream' = [stream EXCEPT ![t] = st]
         /\ clients' = IF st.client > clients THEN st.client ELSE clients

-----------------------------------------------------------------------------
(* The transaction.                                                        *)

Streams == {c \in Clients : stats.mark[c] > 0}
ClientsOf(s) == {op.client : op \in Ops(s)} \ {0}

\* Mutant of Classify: an operation is judged by the ledger alone.
Classify_LedgerOnly(acc, op) ==
    LET unknown == IF Listed(op, Ops(stats.ledger)) THEN <<>> ELSE <<op>>
    IN [acc EXCEPT !.acked = Append(@, op), !.fresh = @ \o unknown]

\* One operation of a save to an account that exists.
Classify(acc, op) ==
    LET unknown == IF Listed(op, Ops(stats.ledger)) THEN <<>> ELSE <<op>>
        acked == Append(acc.acked, op)
        mark == acc.mark[op.client]
    IN IF ~ InStream(op)
       THEN [acc EXCEPT !.acked = acked, !.fresh = @ \o unknown]
       ELSE IF op.seq <= mark THEN [acc EXCEPT !.acked = acked]
       ELSE IF op.seq # mark + 1 THEN acc
       ELSE [mark |-> [acc.mark EXCEPT ![op.client] = op.seq],
             acked |-> acked, fresh |-> acc.fresh \o unknown]

\* The operations of a save, one after the other.
Classified(req) ==
    LET upTo[i \in 0..Len(req.ops)] ==
            IF i = 0
            THEN [mark |-> stats.mark, acked |-> <<>>, fresh |-> <<>>]
            ELSE Classify(upTo[i - 1], req.ops[i])
    IN upTo[Len(req.ops)]

\* The first save brings its whole list, whose streams must start at one.
BootstrapGap(req) ==
    \E op \in Ops(req.pending) :
        op.seq > 1 /\ \A o \in Ops(req.pending) : <<o.client, o.seq>> # <<op.client, op.seq - 1>>

\* The order of places; a client's id sorts as its number.
Before(l, r) == l.client < r.client \/ (l.client = r.client /\ l.seq < r.seq)

InPlaces(s) ==
    LET sorted[n \in 0 .. Len(s)] ==
            IF n = 0 THEN <<>>
            ELSE Keep(sorted[n - 1], {op \in Ops(s) : ~ Before(s[n], op)}) \o <<s[n]>>
                 \o Keep(sorted[n - 1], {op \in Ops(s) : Before(s[n], op)})
    IN sorted[Len(s)]

\* The operations of its streams in order, then the rest.
Bootstrapped(s) ==
    LET placed == {op \in Ops(s) : InStream(op)}
    IN InPlaces(Keep(s, placed)) \o Keep(s, Ops(s) \ placed)

LastPlace(s, c) == Max({0} \cup {op.seq : op \in {o \in Ops(s) : o.client = c}})

Outcome(req) ==
    IF stats.exists
    THEN LET k == Classified(req) IN
         [points |-> Plus(stats.points, k.fresh), mark |-> k.mark, acked |-> k.acked]
    ELSE [points |-> req.points, acked |-> Bootstrapped(req.pending),
          mark |-> [c \in Clients |-> LastPlace(req.pending, c)]]

Refused(req) ==
    \/ ~ stats.exists /\ BootstrapGap(req)
    \/ LET mark == Outcome(req).mark
           added == {c \in Clients : mark[c] > 0} \ Streams
       IN added # {} /\ Cardinality(Streams) + Cardinality(added) > MaxStreams

\* The ledger's latest ids, each at its last occurrence.
Recent(acked) ==
    LET ids == Keep(stats.ledger, Ops(stats.ledger) \ Ops(acked)) \o acked
    IN IF Len(ids) <= LedgerSize THEN ids
       ELSE SubSeq(ids, Len(ids) - LedgerSize + 1, Len(ids))

Saved(req) ==
    LET o == Outcome(req) IN
    [exists |-> TRUE, points |-> o.points, mark |-> o.mark,
     ledger |-> Recent(o.acked)]

\* The answer shows the watermarks of the streams of the request only.
Answer(req) ==
    LET o == Outcome(req)
        asked == ClientsOf(IF stats.exists THEN req.ops ELSE req.pending)
    IN [points |-> o.points, acked |-> Ops(o.acked), ids |-> Ops(Saved(req).ledger),
        mark |-> [c \in Clients |-> IF c \in asked THEN o.mark[c] ELSE 0]]

-----------------------------------------------------------------------------
(* The tabs.                                                               *)

\* Operations the cloud's account shows as applied are no longer pending.
Applied(op, cloud) ==
    op \in cloud.ids \/ (InStream(op) /\ op.seq <= cloud.mark[op.client])

Rebase(pending, cloud) ==
    LET left == Keep(pending, {op \in Ops(pending) : ~ Applied(op, cloud)})
    IN [points |-> Plus(cloud.points, left), pending |-> left, ids |-> cloud.ids]

Kept(m) == [points |-> m.points, pending |-> m.pending]

Disowned(s) == [i \in DOMAIN s |-> [s[i] EXCEPT !.live = FALSE]]

\* A tab's first read, by the clients it asked about; a tab that is done
\* with it has hydrated.
Reading(asked) == [pc |-> "reading", asked |-> asked]
Done == [pc |-> "done"]

\* Mutant of Restart: a save under way keeps the next one from being scheduled.
Restart_Unscheduled(t, queued) ==
    /\ saves' = [saves EXCEPT ![t] = Disowned(queued)]
    /\ due' = [due EXCEPT ![t] = load[t] = Done /\ queued = <<>>]

\* A new snapshot restarts the save effect: what was under way is not
\* awaited any more, and a save is scheduled once the tab has hydrated.
Restart(t, queued) ==
    /\ saves' = [saves EXCEPT ![t] = Disowned(queued)]
    /\ due' = [due EXCEPT ![t] = load[t] = Done]

\* An award is added to the tab's and to the stored operations, unless its
\* name is pending or known to be applied.
Award(t, a) ==
    /\ made[a] < (IF a \in Repeated THEN 2 ELSE 1)
    /\ LET y == Synced(t)
           own == MergeOps(y.own, <<>>, mem[t].ids)
           pending == MergeOps(own, y.stored, mem[t].ids)
           others == Keep(pending, Ops(pending) \ Ops(own))
           points == Plus(mem[t].points, others)
           again == a \in Named /\ Plain(a) \in Ops(pending) \cup mem[t].ids
           st == IF a \in Named THEN y.next ELSE Advanced(y.next, 1)
           op == IF a \in Named THEN Plain(a) ELSE Placed(a, st.client, st.seq)
           new == IF again THEN <<>> ELSE <<op>>
       IN /\ mem' = [mem EXCEPT ![t] = [points |-> Plus(points, new),
                                         pending |-> pending \o new, ids |-> @.ids]]
          /\ store' = Kept(mem'[t])
          /\ TakeStream(t, stream[t], st)
    /\ made' = [made EXCEPT ![a] = @ + 1]
    /\ Restart(t, saves[t])
    /\ UNCHANGED <<stats, load, late, reloads, faults>>

\* The first read of the cloud: the account, and the streams of the
\* operations that were pending when the tab was loaded.
ReadCloud(t) ==
    /\ load[t].pc = "reading" /\ t \in Readers
    /\ load' = [load EXCEPT ![t] =
          [pc |-> "read", exists |-> stats.exists,
           cloud |-> [points |-> stats.points, ids |-> Ops(stats.ledger),
                      mark |-> [c \in Clients |-> IF c \in @.asked THEN stats.mark[c] ELSE 0]]]]
    /\ UNCHANGED <<stats, store, mem, stream, clients, due, saves, late, made, reloads, faults>>

\* The read arrives: the tab's operations over the account, written over the
\* stored snapshot without looking at it.
Publish(t) ==
    /\ load[t].pc = "read"
    /\ mem' = IF load[t].exists
              THEN [mem EXCEPT ![t] = Rebase(@.pending, load[t].cloud)]
              ELSE mem
    /\ store' = Kept(mem'[t])
    /\ load' = [load EXCEPT ![t] = Done]
    /\ due' = [due EXCEPT ![t] = TRUE]
    /\ UNCHANGED <<stats, stream, clients, saves, late, made, reloads, faults>>

\* The read fails, and the tab goes on with what it has.
ReadFails(t) ==
    /\ load[t].pc = "reading"
    /\ load' = [load EXCEPT ![t] = Done]
    /\ due' = [due EXCEPT ![t] = TRUE]
    /\ UNCHANGED <<stats, store, mem, stream, clients, saves, late, made, reloads, faults>>

\* The save's timer: the snapshot is captured and queued behind the others.
Schedule(t) ==
    /\ due[t] /\ Len(saves[t]) < MaxSaves
    /\ saves' = [saves EXCEPT ![t] = Append(@,
          [req |-> [points |-> mem[t].points, pending |-> mem[t].pending,
                    ops |-> FirstOps(mem[t].pending)],
           live |-> TRUE, answer |-> {}])]
    /\ due' = [due EXCEPT ![t] = FALSE]
    /\ UNCHANGED <<stats, store, mem, stream, clients, load, late, made, reloads, faults>>

Open(t) == saves[t] # <<>> /\ Head(saves[t]).answer = {}
Answered(t) == saves[t] # <<>> /\ Head(saves[t]).answer # {}

\* A save the tab still wants is sent again as it was; any other is dropped.
Failed(t) ==
    IF Head(saves[t]).live THEN [saves[t] EXCEPT ![1].answer = {}] ELSE Tail(saves[t])

\* The transaction of the save at the head; a refusal leaves all as it is.
Save(t) ==
    /\ Open(t)
    /\ LET req == Head(saves[t]).req IN
       IF Refused(req)
       THEN saves' = [saves EXCEPT ![t] = Failed(t)] /\ UNCHANGED stats
       ELSE /\ stats' = Saved(req)
            /\ saves' = [saves EXCEPT ![t][1].answer = {Answer(req)}]
    /\ UNCHANGED <<store, mem, stream, clients, load, due, late, made, reloads, faults>>

\* The answer to a save that a newer one has replaced is ignored.
Ignore(t) ==
    /\ Answered(t) /\ ~ Head(saves[t]).live
    /\ saves' = [saves EXCEPT ![t] = Tail(@)]
    /\ UNCHANGED <<stats, store, mem, stream, clients, load, due, late, made, reloads, faults>>

\* The acknowledged operations leave the stored snapshot, and the tab's if
\* that changes what it shows.
Acknowledge(t) ==
    /\ Answered(t) /\ Head(saves[t]).live
    /\ \E reply \in Head(saves[t]).answer :
         LET y == Synced(t)
             m == Rebase(MergeOps(y.own, y.stored, reply.acked), reply)
         IN /\ store' = Kept(m)
            /\ TakeStream(t, stream[t], y.next)
            /\ IF Kept(m) = Kept(mem[t])
               THEN /\ saves' = [saves EXCEPT ![t] = Tail(@)]
                    /\ UNCHANGED <<mem, due>>
               ELSE /\ mem' = [mem EXCEPT ![t] = m]
                    /\ Restart(t, Tail(saves[t]))
    /\ UNCHANGED <<stats, load, late, made, reloads, faults>>

\* The call fails for the tab: the request is still on its way, or the
\* answer is lost.
Fault(t) ==
    /\ faults < MaxFaults /\ faults' = faults + 1
    /\ saves[t] # <<>>
    /\ saves' = [saves EXCEPT ![t] = Failed(t)]
    /\ late' = IF Open(t) THEN late \cup {Head(saves[t]).req} ELSE late
    /\ UNCHANGED <<stats, store, mem, stream, clients, load, due, made, reloads>>

LateSave(req) ==
    /\ stats' = IF Refused(req) THEN stats ELSE Saved(req)
    /\ late' = late \ {req}
    /\ UNCHANGED <<store, tabVars, made, reloads, faults>>

\* The tab is loaded again: the stored snapshot is all it has, the plain
\* operations get their places, and what was sent goes on without it.
Reload(t, navigated) ==
    /\ t \in Reloaders /\ reloads < MaxReloads /\ reloads' = reloads + 1
    /\ LET old == [stream[t] EXCEPT !.fork = navigated]
           pending == Upgrade(store.pending, <<>>, Current(old))
           placed == Cardinality(Unplaced(store.pending, <<>>))
       IN /\ store' = [store EXCEPT !.pending = pending]
          /\ mem' = [mem EXCEPT ![t] = [points |-> store.points, pending |-> pending, ids |-> {}]]
          /\ TakeStream(t, old, Advanced(Current(old), placed))
          /\ load' = [load EXCEPT ![t] = Reading(ClientsOf(FirstOps(pending)))]
    /\ late' = IF Open(t) THEN late \cup {Head(saves[t]).req} ELSE late
    /\ saves' = [saves EXCEPT ![t] = <<>>]
    /\ due' = [due EXCEPT ![t] = FALSE]
    /\ UNCHANGED <<stats, made, faults>>

-----------------------------------------------------------------------------

XpInit ==
    /\ stats = [exists |-> FALSE, points |-> None, mark |-> NoMarks, ledger |-> <<>>]
    /\ store = [points |-> None, pending |-> <<>>]
    /\ mem = [t \in Tabs |-> [points |-> None, pending |-> <<>>, ids |-> {}]]
    /\ stream = [t \in Tabs |-> NoStream]
    /\ clients = 0
    /\ load = [t \in Tabs |-> Reading({})]
    /\ due = [t \in Tabs |-> FALSE]
    /\ saves = [t \in Tabs |-> <<>>]
    /\ late = {}
    /\ made = None
    /\ reloads = 0 /\ faults = 0

Proceed(t) ==
    ReadCloud(t) \/ Publish(t) \/ ReadFails(t) \/ Schedule(t) \/ Save(t) \/ Ignore(t) \/ Acknowledge(t)

XpNext ==
    \/ \E t \in Tabs : Proceed(t) \/ Fault(t)
    \/ \E t \in Tabs, a \in Awards : Award(t, a)
    \/ \E t \in Tabs, navigated \in BOOLEAN : Reload(t, navigated)
    \/ \E req \in late : LateSave(req)

XpSpec == XpInit /\ [][XpNext]_xpVars

-----------------------------------------------------------------------------
(* Properties.                                                             *)

\* The awards whose operation has a place from the start.
Unnamed == Awards \ Named

Account == INSTANCE XpAccount WITH
    Awards <- Unnamed,
    earned <- {a \in Unnamed : made[a] > 0},
    credit <- [a \in Unnamed |-> stats.points[a]]

\* However many tabs send it, and however often, the cloud counts an award
\* once, and only an award that was made (applyGamificationForOwner).
ImplementsXpAccount == Account!AccountSpec

\* The transaction passes over an operation that is not the next of its
\* stream (gamificationPersistence.ts:483), so a tab that holds one must hold
\* all that are missing before it, and send them first.
NoStreamGap ==
    \A t \in Tabs : \A i \in DOMAIN mem[t].pending :
        LET op == mem[t].pending[i] IN
        InStream(op) =>
            \A n \in stats.mark[op.client] + 1 .. op.seq - 1 :
                \E j \in 1..i - 1 :
                    /\ mem[t].pending[j].client = op.client
                    /\ mem[t].pending[j].seq = n

AtRest(t) == load[t] = Done /\ ~ due[t] /\ saves[t] = <<>>

\* When every tab has saved what it scheduled and heard the answers, every
\* award is in the account: no answer, stale save or reload makes a tab stop
\* with points it still owes (useGamification.ts:176, the save effect).
CreditedAtRest ==
    (\A t \in Tabs : AtRest(t)) => \A a \in Awards : made[a] > 0 => stats.points[a] > 0
=============================================================================
