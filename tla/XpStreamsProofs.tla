-------------------------- MODULE XpStreamsProofs ---------------------------
(***************************************************************************)
(* For every number of tabs, awards, streams and faults: the account       *)
(* counts an award that has a place once; and where no award has a name    *)
(* and no tab reads the cloud while another is loaded again, no stream has *)
(* a gap and tabs at rest owe nothing.                                     *)
(*                                                                         *)
(* The argument: an operation's place is its alone, for no two tabs share  *)
(* a stream and a tab takes the next place of its own (XpInv), so what the *)
(* watermark of its stream has not reached is not in the account.  An      *)
(* operation leaves a tab only when the watermark has passed it, and a tab *)
(* has all that the cloud misses of its stream (GapInv): a save therefore  *)
(* brings the next of each stream, its first operation is taken, and a tab *)
(* that owes something goes on saving (RestInv).  A first read is written  *)
(* over the stored snapshot (Publish); what another tab had stored there   *)
(* is lost with that tab's page, which the theorems' condition excludes.   *)
(***************************************************************************)
EXTENDS XpStreams, PendingQueueProofs, FiniteSetTheorems

-----------------------------------------------------------------------------
(* What holds of every set of awards, with names or without.               *)

OpDoc == [award : Awards, client : Nat, seq : Nat]
Points == [Awards -> Nat]
Marks == [Clients -> Nat]
Snapshot == [points : Points, pending : Seq(OpDoc)]
Request == [points : Points, pending : Seq(OpDoc), ops : Seq(OpDoc)]
CloudDoc == [points : Points, ids : SUBSET OpDoc, mark : Marks]
AnswerDoc == [points : Points, acked : SUBSET OpDoc, ids : SUBSET OpDoc, mark : Marks]
SaveDoc == [req : Request, live : BOOLEAN, answer : SUBSET AnswerDoc]
StreamDoc == [client : Nat, seq : Nat, fork : BOOLEAN]

XpShape ==
    /\ stats \in [exists : BOOLEAN, points : Points, mark : Marks, ledger : Seq(OpDoc)]
    /\ store \in Snapshot
    /\ mem \in [Tabs -> [points : Points, pending : Seq(OpDoc), ids : SUBSET OpDoc]]
    /\ stream \in [Tabs -> StreamDoc]
    /\ clients \in 0 .. MaxClients
    /\ saves \in [Tabs -> Seq(SaveDoc)]
    /\ late \subseteq Request
    /\ made \in [Awards -> Nat]
\* A tab's first read, its answer on the way, or done with it.
LoadShape ==
    /\ DOMAIN load = Tabs /\ due \in [Tabs -> BOOLEAN]
    /\ \A t \in Tabs :
          /\ load[t].pc \in {"reading", "read", "done"}
          /\ load[t].pc = "read" => /\ t \in Readers /\ load[t].exists \in BOOLEAN
                                    /\ load[t].cloud \in CloudDoc
          /\ load[t].pc = "done" => load[t] = Done
          /\ load[t].pc # "done" => saves[t] = <<>> /\ ~ due[t]

Requests == late \cup UNION {{saves[t][i].req : i \in DOMAIN saves[t]} : t \in Tabs}
Pendings == {store.pending} \cup {mem[t].pending : t \in Tabs} \cup {r.pending : r \in Requests}
\* The operations that are stored, in a tab or on their way.
Around == UNION {Ops(s) : s \in Pendings}

ReqShape == \A r \in Requests : r.ops = FirstOps(r.pending)

\* No two tabs share a stream.
StreamsApart ==
    \A t \in Tabs :
        /\ stream[t].client <= clients
        /\ \A u \in Tabs \ {t} : stream[u].client = stream[t].client => stream[t].client = 0
\* A place was taken from a stream, and an award without a name has one.
Places ==
    \A op \in Around :
        /\ op.award \in Unnamed => InStream(op) /\ made[op.award] > 0
        /\ InStream(op) =>
              /\ op.client <= clients
              /\ \A t \in Tabs : stream[t].client = op.client => op.seq <= stream[t].seq
\* An award without a name has one place, which is its alone.
OnePlace ==
    \A op, o \in Around :
        /\ op.award \in Unnamed
        /\ o.award = op.award \/ (o.client = op.client /\ o.seq = op.seq)
        => o = op

Credits ==
    \A a \in Unnamed : /\ made[a] \in {0, 1} /\ stats.points[a] \in {0, 1}
                       /\ stats.points[a] = 1 => made[a] = 1
\* What the watermark of its stream has not reached is not in the account.
Uncredited ==
    \A op \in Around :
        op.award \in Unnamed /\ op.seq > stats.mark[op.client] => stats.points[op.award] = 0

Single(s, a) == \A i, j \in DOMAIN s : s[i].award = a /\ s[j].award = a => i = j
AwardsOf(s) == {op.award : op \in Ops(s)}
\* A snapshot whose points are those of its pending operations.
Counted(m) ==
    \A a \in Unnamed : /\ Single(m.pending, a)
                       /\ m.points[a] = IF a \in AwardsOf(m.pending) THEN 1 ELSE 0
\* Before the first save nobody knows of an account.
Unborn ==
    ~ stats.exists =>
        /\ stats.points = None /\ stats.mark = NoMarks /\ stats.ledger = <<>>
        /\ \A t \in Tabs : /\ mem[t].ids = {} /\ Counted(mem[t])
                           /\ load[t].pc = "read" => ~ load[t].exists
                           /\ \A i \in DOMAIN saves[t] : saves[t][i].answer = {}
        /\ Counted(store)
        /\ \A r \in Requests : Counted(r)

XpInv == /\ XpShape /\ LoadShape /\ ReqShape
         /\ StreamsApart /\ Places /\ OnePlace /\ Credits /\ Uncredited /\ Unborn

-----------------------------------------------------------------------------
(* What holds more when no award has a name and no tab reads the cloud     *)
(* while another is loaded again.                                          *)

Marked(op) == op.client \in Clients /\ op.seq <= stats.mark[op.client]
Below(mark) == \A c \in Clients : mark[c] <= stats.mark[c]
\* Whatever the cloud has told, it stands by.
Told ==
    /\ \A op \in Ops(stats.ledger) : Marked(op)
    /\ \A t \in Tabs :
          /\ \A op \in mem[t].ids : Marked(op)
          /\ load[t].pc = "read" => /\ \A op \in load[t].cloud.ids : Marked(op)
                                    /\ Below(load[t].cloud.mark)
          /\ \A i \in DOMAIN saves[t] : \A reply \in saves[t][i].answer :
                /\ \A op \in reply.acked \cup reply.ids : Marked(op)
                /\ Below(reply.mark)
\* The cloud is not ahead of a stream.
NotAhead ==
    \A c \in Clients : /\ c > clients => stats.mark[c] = 0
                       /\ \A t \in Tabs : stream[t].client = c => stats.mark[c] <= stream[t].seq
\* A list has, before each operation, what the cloud misses of its stream.
NoGap(s, mark) ==
    \A i \in DOMAIN s : \A n \in mark[s[i].client] + 1 .. s[i].seq - 1 :
        \E j \in 1 .. i - 1 : s[j].client = s[i].client /\ s[j].seq = n
NoGaps == NoGap(store.pending, stats.mark) /\ \A t \in Tabs : NoGap(mem[t].pending, stats.mark)
\* A tab has all that the cloud misses of its stream.
HasItsOwn ==
    \A t \in Tabs : stream[t].client \in Clients =>
        \A n \in stats.mark[stream[t].client] + 1 .. stream[t].seq :
            \E op \in Ops(mem[t].pending) : op.client = stream[t].client /\ op.seq = n
\* What a tab that may be loaded again still owes is in the store.
StoreHas ==
    \A t \in Reloaders : \A op \in Ops(mem[t].pending) :
        Marked(op) \/ op \in Ops(store.pending)

GapInv == Told /\ NotAhead /\ NoGaps /\ HasItsOwn /\ StoreHas

Counting == \A op \in Around : Marked(op) => stats.points[op.award] = 1
\* What is not in the account is in a tab.
Owed ==
    \A a \in Awards : made[a] > 0 /\ stats.points[a] = 0 =>
        \E t \in Tabs : a \in AwardsOf(mem[t].pending)
\* A save that is awaited is of the tab's operations, and brings the first.
Awaited ==
    \A t \in Tabs : \A i \in DOMAIN saves[t] : saves[t][i].live =>
        /\ saves[t][i].req.pending = mem[t].pending
        /\ \A reply \in saves[t][i].answer :
              mem[t].pending # <<>> => mem[t].pending[1] \in reply.acked
\* A tab that owes something saves it, or is about to.
Saving ==
    \A t \in Tabs : load[t] = Done /\ mem[t].pending # <<>> =>
        due[t] \/ \E i \in DOMAIN saves[t] : saves[t][i].live

RestInv == Counting /\ Owed /\ Awaited /\ Saving

-----------------------------------------------------------------------------
(* Lists.                                                                  *)

\* Keep(q, S) is q at the positions of S, in their order.
Picks(h, q, S, p) ==
    /\ h \in [1 .. Len(p) -> DOMAIN q]
    /\ \A i, j \in 1 .. Len(p) : i < j => h[i] < h[j]
    /\ \A i \in 1 .. Len(p) : p[i] = q[h[i]] /\ p[i] \in S
    /\ \A j \in DOMAIN q : q[j] \in S => \E i \in 1 .. Len(p) : h[i] = j

LEMMA KeepPicks ==
    ASSUME NEW E, NEW q \in Seq(E), NEW S
    PROVE  /\ Keep(q, S) \in Seq(E)
           /\ \E h : Picks(h, q, S, Keep(q, S))
<1>1. PICK f : Keeps(f, q, S, Len(q)) /\ Keep(q, S) = f[Len(q)]
  BY KeepIs
<1>2. \A n \in 0 .. Len(q) : f[n] = IF n = 0 THEN <<>>
                                    ELSE IF q[n] \in S THEN Append(f[n - 1], q[n])
                                    ELSE f[n - 1]
  BY <1>1, Zenon DEF Keeps
<1> DEFINE Right(k, h) ==
             /\ f[k] \in Seq(E)
             /\ h \in [1 .. Len(f[k]) -> 1 .. k]
             /\ \A i, j \in 1 .. Len(f[k]) : i < j => h[i] < h[j]
             /\ \A i \in 1 .. Len(f[k]) : f[k][i] = q[h[i]] /\ f[k][i] \in S
             /\ \A j \in 1 .. k : q[j] \in S => \E i \in 1 .. Len(f[k]) : h[i] = j
           T == {k \in Nat : k <= Len(q) => \E h : Right(k, h)}
<1>3. 0 \in T
  <2>1. f[0] = <<>>
    BY <1>2
  <2> DEFINE h == [i \in 1 .. 0 |-> 0]
  <2>2. Right(0, h)
    <3>1. f[0] \in Seq(E) /\ Len(f[0]) = 0 /\ 1 .. 0 = {}
      BY <2>1
    <3> QED BY <3>1
  <2> QED BY <2>2
<1>4. ASSUME NEW k \in Nat, k \in T PROVE k + 1 \in T
  <2>1. SUFFICES ASSUME k + 1 <= Len(q) PROVE \E h : Right(k + 1, h)
    OBVIOUS
  <2>2. PICK h : Right(k, h)
    <3>1. k <= Len(q)
      BY <2>1
    <3> HIDE DEF Right
    <3> QED BY <1>4, <3>1
  <2>3. k + 1 \in 0 .. Len(q) /\ k + 1 # 0 /\ q[k + 1] \in E /\ (k + 1) - 1 = k
    BY <2>1
  <2>4. CASE q[k + 1] \in S
    <3> DEFINE m == Len(f[k])
               g == [i \in 1 .. m + 1 |-> IF i = m + 1 THEN k + 1 ELSE h[i]]
    <3>1. f[k + 1] = Append(f[k], q[k + 1])
      BY <1>2, <2>3, <2>4
    <3>2. /\ f[k + 1] \in Seq(E) /\ Len(f[k + 1]) = m + 1 /\ m \in Nat
          /\ f[k + 1][m + 1] = q[k + 1]
          /\ \A i \in 1 .. m : f[k + 1][i] = f[k][i]
      BY <2>2, <2>3, <3>1
    <3>8. /\ h \in [1 .. m -> 1 .. k]
          /\ \A i, j \in 1 .. m : i < j => h[i] < h[j]
          /\ \A i \in 1 .. m : f[k][i] = q[h[i]] /\ f[k][i] \in S
          /\ \A j \in 1 .. k : q[j] \in S => \E i \in 1 .. m : h[i] = j
      BY <2>2
    <3> HIDE DEF m
    <3>3. g \in [1 .. m + 1 -> 1 .. k + 1]
      BY <3>2, <3>8
    <3>4. \A i, j \in 1 .. m + 1 : i < j => g[i] < g[j]
      <4> SUFFICES ASSUME NEW i \in 1 .. m + 1, NEW j \in 1 .. m + 1, i < j
                   PROVE  g[i] < g[j]
        OBVIOUS
      <4>1. i \in 1 .. m /\ g[i] = h[i] /\ h[i] \in 1 .. k
        BY <3>2, <3>8
      <4>2. CASE j = m + 1
        BY <4>1, <4>2
      <4>3. CASE j # m + 1
        <5>1. j \in 1 .. m /\ g[j] = h[j]
          BY <3>2, <4>3
        <5> QED BY <3>8, <4>1, <5>1
      <4> QED BY <4>2, <4>3
    <3>5. \A i \in 1 .. m + 1 : f[k + 1][i] = q[g[i]] /\ f[k + 1][i] \in S
      <4> SUFFICES ASSUME NEW i \in 1 .. m + 1
                   PROVE  f[k + 1][i] = q[g[i]] /\ f[k + 1][i] \in S
        OBVIOUS
      <4>1. CASE i = m + 1
        BY <2>4, <3>2, <4>1
      <4>2. CASE i # m + 1
        <5>1. i \in 1 .. m /\ g[i] = h[i]
          BY <3>2, <4>2
        <5>2. f[k][i] = q[h[i]] /\ f[k][i] \in S
          BY <3>8, <5>1
        <5>3. f[k + 1][i] = f[k][i]
          BY <3>2, <5>1
        <5> HIDE DEF g
        <5> QED BY <5>1, <5>2, <5>3
      <4> QED BY <4>1, <4>2
    <3>6. \A j \in 1 .. k + 1 : q[j] \in S => \E i \in 1 .. m + 1 : g[i] = j
      <4> SUFFICES ASSUME NEW j \in 1 .. k + 1, q[j] \in S
                   PROVE  \E i \in 1 .. m + 1 : g[i] = j
        OBVIOUS
      <4>1. CASE j = k + 1
        BY <3>2, <4>1
      <4>2. CASE j # k + 1
        <5>1. PICK i \in 1 .. m : h[i] = j
          <6>1. j \in 1 .. k
            BY <4>2
          <6> QED BY <3>8, <6>1
        <5>2. i \in 1 .. m + 1 /\ g[i] = j
          BY <3>2, <5>1
        <5> QED BY <5>2
      <4> QED BY <4>1, <4>2
    <3> HIDE DEF g
    <3>7. Right(k + 1, g)
      <4>1. Len(f[k + 1]) = m + 1
        BY <3>2
      <4> QED BY <3>2, <3>3, <3>4, <3>5, <3>6, <4>1
    <3> QED BY <3>7
  <2>5. CASE q[k + 1] \notin S
    <3>1. f[k + 1] = f[k]
      BY <1>2, <2>3, <2>5
    <3>2. Right(k + 1, h)
      <4>1. h \in [1 .. Len(f[k]) -> 1 .. k + 1]
        BY <2>2
      <4>2. \A j \in 1 .. k + 1 : q[j] \in S => j \in 1 .. k
        BY <2>5
      <4> QED BY <2>2, <3>1, <4>1, <4>2
    <3> QED BY <3>2
  <2> QED BY <2>4, <2>5
<1> HIDE DEF T
<1>5. Len(q) \in T
  BY <1>3, <1>4, SetInduction
<1>6. PICK h : Right(Len(q), h)
  BY <1>5 DEF T
<1>7. Picks(h, q, S, f[Len(q)])
  BY <1>6 DEF Picks
<1> QED BY <1>1, <1>6, <1>7

LEMMA KeepOps ==
    ASSUME NEW E, NEW q \in Seq(E), NEW S
    PROVE  Keep(q, S) \in Seq(E) /\ Ops(Keep(q, S)) = Ops(q) \cap S
BY KeepFacts

LEMMA OpIn ==
    ASSUME NEW E, NEW s \in Seq(E)
    PROVE  /\ \A i \in DOMAIN s : s[i] \in Ops(s) /\ s[i] \in E
           /\ \A op \in Ops(s) : op \in E /\ \E i \in DOMAIN s : op = s[i]
           /\ DOMAIN s = 1 .. Len(s) /\ Len(s) \in Nat
BY DEF Ops

LEMMA ConcatIs ==
    ASSUME NEW E, NEW s \in Seq(E), NEW r \in Seq(E)
    PROVE  /\ s \o r \in Seq(E) /\ Ops(s \o r) = Ops(s) \cup Ops(r)
           /\ DOMAIN (s \o r) = 1 .. Len(s) + Len(r)
           /\ \A i \in 1 .. Len(s) : (s \o r)[i] = s[i]
           /\ \A i \in 1 .. Len(r) : (s \o r)[Len(s) + i] = r[i]
           /\ \A i \in DOMAIN (s \o r) :
                 i \in 1 .. Len(s) \/ \E j \in 1 .. Len(r) : i = Len(s) + j
<1>1. \A i \in 1 .. Len(s) + Len(r) : i \in 1 .. Len(s) \/ i - Len(s) \in 1 .. Len(r)
  OBVIOUS
<1>2. \A i \in 1 .. Len(s) + Len(r) : i = Len(s) + (i - Len(s))
  OBVIOUS
<1>3. DOMAIN (s \o r) = 1 .. Len(s) + Len(r)
  OBVIOUS
<1>4. \A i \in DOMAIN (s \o r) :
                 i \in 1 .. Len(s) \/ \E j \in 1 .. Len(r) : i = Len(s) + j
  BY <1>1, <1>2, <1>3
<1> QED BY <1>3, <1>4, OpsOfConcat

\* The operations two lists merge into.
LEMMA MergedOps ==
    ASSUME NEW s \in Seq(OpDoc), NEW r \in Seq(OpDoc), NEW ids
    PROVE  /\ Without(s, ids) \in Seq(OpDoc)
           /\ Ops(Without(s, ids)) = {op \in Ops(s) : ~ Listed(op, ids)}
           /\ MergeOps(s, r, ids) \in Seq(OpDoc)
           /\ Ops(MergeOps(s, r, ids)) = {op \in Ops(s) \cup Ops(r) : ~ Listed(op, ids)}
<1>1. ASSUME NEW q \in Seq(OpDoc)
      PROVE  /\ Without(q, ids) \in Seq(OpDoc)
             /\ Ops(Without(q, ids)) = {op \in Ops(q) : ~ Listed(op, ids)}
  <2>1. Ops(q) \cap {op \in Ops(q) : ~ Listed(op, ids)} = {op \in Ops(q) : ~ Listed(op, ids)}
    OBVIOUS
  <2> QED BY <1>1, <2>1, KeepOps DEF Without
<1> DEFINE k == Keep(Without(r, ids), Ops(r) \ Ops(s))
<1>2. k \in Seq(OpDoc) /\ Ops(k) = Ops(Without(r, ids)) \cap (Ops(r) \ Ops(s))
  BY <1>1, KeepOps
<1> HIDE DEF k
<1>3. Without(s, ids) \o k \in Seq(OpDoc) /\ Ops(Without(s, ids) \o k) = Ops(Without(s, ids)) \cup Ops(k)
  BY <1>1, <1>2, ConcatIs
<1>4. MergeOps(s, r, ids) = Without(s, ids) \o k
  BY DEF MergeOps, k
<1> QED BY <1>1, <1>2, <1>3, <1>4

\* What is left of a list without gaps has none if only marked operations left.
Fine(s, mark, ids) ==
    \A op \in Ops(s) : Listed(op, ids) => op.seq <= mark[op.client]

LEMMA MergedNoGap ==
    ASSUME NEW s \in Seq(OpDoc), NEW r \in Seq(OpDoc), NEW ids, NEW mark,
           \A op \in Ops(s) \cup Ops(r) : op.client \in Clients /\ mark[op.client] \in Nat,
           NoGap(s, mark), NoGap(r, mark), Fine(s, mark, ids), Fine(r, mark, ids)
    PROVE  NoGap(MergeOps(s, r, ids), mark)
<1> DEFINE a == Without(s, ids)
           b == Keep(Without(r, ids), Ops(r) \ Ops(s))
<1>1. /\ a \in Seq(OpDoc) /\ Ops(a) = {op \in Ops(s) : ~ Listed(op, ids)}
      /\ Without(r, ids) \in Seq(OpDoc)
      /\ Ops(Without(r, ids)) = {op \in Ops(r) : ~ Listed(op, ids)}
  BY MergedOps
<1>2. b \in Seq(OpDoc) /\ MergeOps(s, r, ids) = a \o b
  BY <1>1, KeepOps DEF MergeOps
<1>3. PICK f : Picks(f, s, {op \in Ops(s) : ~ Listed(op, ids)}, a)
  BY KeepPicks DEF Without
<1>4. PICK g : Picks(g, r, {op \in Ops(r) : ~ Listed(op, ids)}, Without(r, ids))
  BY KeepPicks DEF Without
<1>5. PICK h : Picks(h, Without(r, ids), Ops(r) \ Ops(s), b)
  BY <1>1, KeepPicks
<1> HIDE DEF a, b
<1>6. /\ DOMAIN (a \o b) = 1 .. Len(a) + Len(b)
      /\ \A i \in 1 .. Len(a) : (a \o b)[i] = a[i]
      /\ \A i \in 1 .. Len(b) : (a \o b)[Len(a) + i] = b[i]
      /\ \A i \in DOMAIN (a \o b) :
            i \in 1 .. Len(a) \/ \E j \in 1 .. Len(b) : i = Len(a) + j
      /\ Len(a) \in Nat /\ Len(b) \in Nat
  BY <1>1, <1>2, ConcatIs
<1>7. \A op \in Ops(s) \cup Ops(r) : \A n \in mark[op.client] + 1 .. op.seq - 1 :
        \A x \in Ops(s) \cup Ops(r) :
          x.client = op.client /\ x.seq = n => ~ Listed(x, ids)
  <2> SUFFICES ASSUME NEW op \in Ops(s) \cup Ops(r),
                      NEW n \in mark[op.client] + 1 .. op.seq - 1,
                      NEW x \in Ops(s) \cup Ops(r), x.client = op.client, x.seq = n
               PROVE  ~ (x.seq <= mark[x.client])
    BY DEF Fine
  <2>1. op \in OpDoc
    BY OpIn
  <2>2. mark[op.client] \in Nat /\ op.seq \in Nat
    BY <2>1 DEF OpDoc
  <2> QED BY <2>2
<1>8. ASSUME NEW i \in 1 .. Len(a), NEW n \in mark[a[i].client] + 1 .. a[i].seq - 1
      PROVE  \E j \in 1 .. i - 1 : a[j].client = a[i].client /\ a[j].seq = n
  <2>1. f[i] \in DOMAIN s /\ a[i] = s[f[i]]
    BY <1>3 DEF Picks
  <2>2. PICK k \in 1 .. f[i] - 1 : s[k].client = a[i].client /\ s[k].seq = n
    BY <1>8, <2>1 DEF NoGap
  <2>3. k \in DOMAIN s /\ s[k] \in Ops(s) /\ a[i] \in Ops(s)
    BY <2>1, <2>2, OpIn
  <2>4. ~ Listed(s[k], ids)
    BY <1>7, <1>8, <2>2, <2>3
  <2>5. PICK j \in 1 .. Len(a) : f[j] = k
    BY <1>3, <2>3, <2>4 DEF Picks
  <2>6. j < i
    <3>1. f[j] < f[i] /\ f[i] \in Nat /\ f[j] \in Nat
      BY <2>1, <2>2, <2>5, OpIn
    <3>2. i < j => f[i] < f[j]
      BY <1>3, <2>5 DEF Picks
    <3> QED BY <3>1, <3>2, <1>6, <2>5
  <2>7. a[j] = s[k]
    BY <1>3, <2>5 DEF Picks
  <2> QED BY <1>6, <2>2, <2>5, <2>6, <2>7
<1>9. ASSUME NEW i \in 1 .. Len(b), NEW n \in mark[b[i].client] + 1 .. b[i].seq - 1
      PROVE  \/ \E j \in 1 .. Len(a) : a[j].client = b[i].client /\ a[j].seq = n
             \/ \E j \in 1 .. i - 1 : b[j].client = b[i].client /\ b[j].seq = n
  <2> DEFINE w == Without(r, ids)
  <2>1. h[i] \in DOMAIN w /\ b[i] = w[h[i]] /\ DOMAIN w = 1 .. Len(w) /\ Len(w) \in Nat
    BY <1>1, <1>5, OpIn DEF Picks
  <2>2. g[h[i]] \in DOMAIN r /\ b[i] = r[g[h[i]]]
    BY <1>4, <2>1 DEF Picks
  <2>3. PICK k \in 1 .. g[h[i]] - 1 : r[k].client = b[i].client /\ r[k].seq = n
    BY <1>9, <2>2 DEF NoGap
  <2>4. k \in DOMAIN r /\ r[k] \in Ops(r) /\ b[i] \in Ops(r)
    BY <2>2, <2>3, OpIn
  <2>5. ~ Listed(r[k], ids)
    BY <1>7, <1>9, <2>3, <2>4
  <2>6. CASE r[k] \in Ops(s)
    <3>1. r[k] \in Ops(a)
      BY <1>1, <2>5, <2>6
    <3>2. PICK j \in 1 .. Len(a) : a[j] = r[k]
      <4>1. \A op \in Ops(a) : \E j \in DOMAIN a : op = a[j]
        BY <1>1, OpIn
      <4>2. DOMAIN a = 1 .. Len(a)
        BY <1>1, OpIn
      <4> QED BY <3>1, <4>1, <4>2
    <3> QED BY <2>3, <3>2
  <2>7. CASE r[k] \notin Ops(s)
    <3>1. PICK l \in 1 .. Len(w) : g[l] = k /\ w[l] = r[k]
      BY <1>4, <2>4, <2>5 DEF Picks
    <3>2. l < h[i]
      <4>1. g[l] < g[h[i]] /\ g[l] \in Nat /\ g[h[i]] \in Nat
        <5>1. DOMAIN r = 1 .. Len(r) /\ Len(r) \in Nat
          OBVIOUS
        <5>2. g[l] = k /\ g[h[i]] \in 1 .. Len(r) /\ k \in 1 .. g[h[i]] - 1
          BY <2>2, <2>3, <3>1, <5>1
        <5> HIDE DEF w
        <5> QED BY <5>2
      <4>2. h[i] < l => g[h[i]] < g[l]
        BY <1>4, <2>1, <3>1 DEF Picks
      <4> QED BY <2>1, <3>1, <4>1, <4>2
    <3>3. PICK j \in 1 .. Len(b) : h[j] = l /\ b[j] = r[k]
      <4>1. w[l] \in Ops(r) \ Ops(s) /\ l \in DOMAIN w
        BY <2>1, <2>4, <2>7, <3>1
      <4> QED BY <1>5, <3>1, <4>1 DEF Picks
    <3>4. j < i
      <4>1. i < j => h[i] < h[j]
        BY <1>5, <3>3 DEF Picks
      <4> QED BY <1>6, <2>1, <3>1, <3>2, <3>3, <4>1
    <3> QED BY <1>6, <2>3, <3>3, <3>4
  <2> QED BY <2>6, <2>7
<1>10. ASSUME NEW x \in DOMAIN (a \o b),
              NEW n \in mark[(a \o b)[x].client] + 1 .. (a \o b)[x].seq - 1
       PROVE  \E y \in 1 .. x - 1 : (a \o b)[y].client = (a \o b)[x].client /\ (a \o b)[y].seq = n
  <2> DEFINE m == a \o b
  <2>1. CASE x \in 1 .. Len(a)
    <3>1. m[x] = a[x]
      BY <1>6, <2>1
    <3>2. PICK j \in 1 .. x - 1 : a[j].client = a[x].client /\ a[j].seq = n
      BY <1>8, <1>10, <2>1, <3>1
    <3>3. m[j] = a[j]
      BY <1>6, <2>1, <3>2
    <3> QED BY <3>1, <3>2, <3>3
  <2>2. ASSUME NEW i \in 1 .. Len(b), x = Len(a) + i
        PROVE  \E y \in 1 .. x - 1 : m[y].client = m[x].client /\ m[y].seq = n
    <3>1. m[x] = b[i]
      BY <1>6, <2>2
    <3>2. CASE \E j \in 1 .. Len(a) : a[j].client = b[i].client /\ a[j].seq = n
      <4>1. PICK j \in 1 .. Len(a) : a[j].client = b[i].client /\ a[j].seq = n
        BY <3>2
      <4>2. j \in 1 .. x - 1 /\ m[j] = a[j]
        BY <1>6, <2>2, <4>1
      <4> HIDE DEF m
      <4> QED BY <3>1, <4>1, <4>2
    <3>3. CASE \E j \in 1 .. i - 1 : b[j].client = b[i].client /\ b[j].seq = n
      <4>1. PICK j \in 1 .. i - 1 : b[j].client = b[i].client /\ b[j].seq = n
        BY <3>3
      <4>2. j \in 1 .. Len(b) /\ Len(a) + j \in 1 .. x - 1
        <5>1. Len(a) \in Nat /\ Len(b) \in Nat
          BY <1>6
        <5> QED BY <2>2, <4>1, <5>1
      <4>3. m[Len(a) + j] = b[j]
        BY <1>6, <4>2
      <4> HIDE DEF m
      <4> QED BY <3>1, <4>1, <4>2, <4>3
    <3>4. n \in mark[b[i].client] + 1 .. b[i].seq - 1
      BY <1>10, <3>1
    <3> QED BY <1>9, <3>2, <3>3, <3>4
  <2> QED BY <1>6, <2>1, <2>2
<1>11. NoGap(a \o b, mark)
  BY <1>10 DEF NoGap
<1> QED BY <1>2, <1>11

LEMMA KeepNoGap ==
    ASSUME NEW s \in Seq(OpDoc), NEW S, NEW mark,
           \A op \in Ops(s) : op.client \in Clients /\ mark[op.client] \in Nat,
           NoGap(s, mark), \A op \in Ops(s) \ S : op.seq <= mark[op.client]
    PROVE  NoGap(Keep(s, S), mark)
<1> DEFINE a == Keep(s, S)
<1>1. PICK f : Picks(f, s, S, a)
  BY KeepPicks
<1>2. a \in Seq(OpDoc)
  BY KeepOps
<1> HIDE DEF a
<1>3. ASSUME NEW i \in 1 .. Len(a), NEW n \in mark[a[i].client] + 1 .. a[i].seq - 1
      PROVE  \E j \in 1 .. i - 1 : a[j].client = a[i].client /\ a[j].seq = n
  <2>1. f[i] \in DOMAIN s /\ a[i] = s[f[i]]
    BY <1>1 DEF Picks
  <2>2. PICK k \in 1 .. f[i] - 1 : s[k].client = a[i].client /\ s[k].seq = n
    BY <1>3, <2>1 DEF NoGap
  <2>3. k \in DOMAIN s /\ s[k] \in Ops(s) /\ a[i] \in Ops(s) /\ a[i] \in OpDoc
    BY <2>1, <2>2, OpIn
  <2>4. s[k] \in S
    <3>1. mark[a[i].client] \in Nat /\ a[i].seq \in Nat
      BY <2>3 DEF OpDoc
    <3> QED BY <1>3, <2>2, <2>3, <3>1
  <2>5. PICK j \in 1 .. Len(a) : f[j] = k
    BY <1>1, <2>3, <2>4 DEF Picks
  <2>6. j < i
    <3>1. f[j] < f[i] /\ f[i] \in Nat /\ f[j] \in Nat
      BY <2>1, <2>2, <2>5, OpIn
    <3>2. i < j => f[i] < f[j]
      BY <1>1, <2>5 DEF Picks
    <3> QED BY <3>1, <3>2, <1>2, <2>5
  <2>7. a[j] = s[k]
    BY <1>1, <2>5 DEF Picks
  <2> QED BY <1>2, <2>2, <2>5, <2>6, <2>7
<1> QED BY <1>2, <1>3, OpIn DEF NoGap, a

-----------------------------------------------------------------------------
(* Counting an award.                                                      *)

\* An award that a list has once adds one to its points, and no other does.
LEMMA PlusIs ==
    ASSUME NEW points \in Points, NEW s \in Seq(OpDoc)
    PROVE  /\ Plus(points, s) \in Points
           /\ \A a \in Awards : a \notin AwardsOf(s) => Plus(points, s)[a] = points[a]
           /\ \A a \in Awards : a \in AwardsOf(s) /\ Single(s, a) => Plus(points, s)[a] = points[a] + 1
<1> DEFINE At(a) == {i \in DOMAIN s : s[i].award = a}
<1>1. \A a : Cardinality(At(a)) \in Nat
  <2> SUFFICES ASSUME NEW a PROVE Cardinality(At(a)) \in Nat
    OBVIOUS
  <2>1. IsFiniteSet(1 .. Len(s)) /\ At(a) \subseteq 1 .. Len(s)
    BY FS_Interval
  <2> HIDE DEF At
  <2> QED BY <2>1, FS_Subset, FS_CardinalityType
<1>2. Plus(points, s) = [a \in Awards |-> points[a] + Cardinality(At(a))]
  BY DEF Plus
<1>3. ASSUME NEW a \in Awards, a \notin AwardsOf(s) PROVE Cardinality(At(a)) = 0
  <2>1. At(a) = {}
    BY <1>3 DEF AwardsOf, Ops
  <2> QED BY <2>1, FS_EmptySet
<1>4. ASSUME NEW a \in Awards, a \in AwardsOf(s), Single(s, a) PROVE Cardinality(At(a)) = 1
  <2>1. PICK i \in DOMAIN s : s[i].award = a
    BY <1>4 DEF AwardsOf, Ops
  <2>2. At(a) = {i}
    BY <1>4, <2>1 DEF Single
  <2> QED BY <2>2, FS_Singleton
<1> HIDE DEF At
<1> QED BY <1>1, <1>2, <1>3, <1>4 DEF Points

LEMMA KeepSingle ==
    ASSUME NEW s \in Seq(OpDoc), NEW S, NEW a, Single(s, a)
    PROVE  Single(Keep(s, S), a)
<1>1. PICK h : Picks(h, s, S, Keep(s, S))
  BY KeepPicks
<1>2. Keep(s, S) \in Seq(OpDoc)
  BY KeepOps
<1> DEFINE k == Keep(s, S)
<1> HIDE DEF k
<1>3. Picks(h, s, S, k) /\ DOMAIN k = 1 .. Len(k) /\ Len(k) \in Nat
  BY <1>1, <1>2 DEF k
<1>4. ASSUME NEW i \in DOMAIN k, NEW j \in DOMAIN k, k[i].award = a, k[j].award = a
      PROVE  i = j
  <2>1. h[i] \in DOMAIN s /\ h[j] \in DOMAIN s /\ s[h[i]].award = a /\ s[h[j]].award = a
    BY <1>3, <1>4 DEF Picks
  <2>2. h[i] = h[j] /\ h[i] \in Nat
    BY <2>1 DEF Single
  <2>3. ~ (h[i] < h[j]) /\ ~ (h[j] < h[i])
    BY <2>2
  <2> QED BY <1>3, <1>4, <2>3 DEF Picks
<1> QED BY <1>4 DEF Single, k

LEMMA ConcatSingle ==
    ASSUME NEW s \in Seq(OpDoc), NEW r \in Seq(OpDoc), NEW a, Single(s, a), Single(r, a),
           a \notin AwardsOf(s) \/ a \notin AwardsOf(r)
    PROVE  Single(s \o r, a)
<1> DEFINE q == s \o r
<1>1. /\ \A i \in 1 .. Len(s) : q[i] = s[i] /\ i \in DOMAIN s
      /\ \A i \in 1 .. Len(r) : q[Len(s) + i] = r[i] /\ i \in DOMAIN r
      /\ \A i \in DOMAIN q : i \in 1 .. Len(s) \/ \E j \in 1 .. Len(r) : i = Len(s) + j
  BY ConcatIs
<1> HIDE DEF q
<1>2. ASSUME NEW i \in DOMAIN q, NEW j \in DOMAIN q, q[i].award = a, q[j].award = a
      PROVE  i = j
  <2>1. CASE i \in 1 .. Len(s) /\ j \in 1 .. Len(s)
    BY <1>1, <1>2, <2>1 DEF Single
  <2>2. ASSUME NEW x \in 1 .. Len(s), NEW y \in 1 .. Len(r), q[x].award = a,
               q[Len(s) + y].award = a
        PROVE  FALSE
    <3>1. s[x].award = a /\ r[y].award = a /\ s[x] \in Ops(s) /\ r[y] \in Ops(r)
      BY <1>1, <2>2 DEF Ops
    <3> QED BY <3>1 DEF AwardsOf
  <2>3. ASSUME NEW x \in 1 .. Len(r), NEW y \in 1 .. Len(r), i = Len(s) + x, j = Len(s) + y
        PROVE  i = j
    BY <1>1, <1>2, <2>3 DEF Single
  <2> QED BY <1>1, <1>2, <2>1, <2>2, <2>3
<1> QED BY <1>2 DEF Single, q

LEMMA MergedSingle ==
    ASSUME NEW s \in Seq(OpDoc), NEW r \in Seq(OpDoc), NEW ids, NEW a,
           Single(s, a), Single(r, a),
           \A op \in Ops(s), o \in Ops(r) : op.award = a /\ o.award = a => o = op
    PROVE  Single(MergeOps(s, r, ids), a)
<1> DEFINE k == Without(s, ids)
           l == Keep(Without(r, ids), Ops(r) \ Ops(s))
<1>1. /\ k \in Seq(OpDoc) /\ Ops(k) \subseteq Ops(s)
      /\ Without(r, ids) \in Seq(OpDoc) /\ Ops(Without(r, ids)) \subseteq Ops(r)
  BY MergedOps
<1>2. Single(k, a) /\ Single(Without(r, ids), a)
  BY KeepSingle DEF Without
<1>3. l \in Seq(OpDoc) /\ Ops(l) = Ops(Without(r, ids)) \cap (Ops(r) \ Ops(s)) /\ Single(l, a)
  BY <1>1, <1>2, KeepOps, KeepSingle
<1>4. MergeOps(s, r, ids) = k \o l
  BY DEF MergeOps
<1> HIDE DEF k, l
<1>5. a \notin AwardsOf(k) \/ a \notin AwardsOf(l)
  BY <1>1, <1>3 DEF AwardsOf
<1> QED BY <1>1, <1>2, <1>3, <1>4, <1>5, ConcatSingle

-----------------------------------------------------------------------------
(* Places.                                                                 *)

\* Upgrade gives every operation a place, its own or a new one of the stream or
\* that of a known operation with its award.
NewPlace(op, st, n) == /\ op.client = st.client /\ st.seq < op.seq /\ op.seq <= st.seq + n
                       /\ op.seq \in Nat

LEMMA UpgradeIs ==
    ASSUME NEW s \in Seq(OpDoc), NEW known \in Seq(OpDoc), NEW st \in StreamDoc, st.client # 0
    PROVE  LET u == Upgrade(s, known, st)
               n == Cardinality(Unplaced(s, known)) IN
           /\ n \in Nat
           /\ u \in Seq(OpDoc) /\ DOMAIN u = DOMAIN s
           /\ \A i \in DOMAIN s :
                 /\ InStream(u[i]) /\ u[i].award = s[i].award
                 /\ InStream(s[i]) => u[i] = s[i]
                 /\ ~ InStream(s[i]) => u[i] \in Ops(known) \/ NewPlace(u[i], st, n)
<1> DEFINE u == Upgrade(s, known, st)
           un == Unplaced(s, known)
           n == Cardinality(un)
           upTo(i) == {j \in un : j <= i}
<1>1. IsFiniteSet(un) /\ un \subseteq DOMAIN s /\ DOMAIN s = 1 .. Len(s) /\ Len(s) \in Nat
  <2>1. DOMAIN s = 1 .. Len(s) /\ Len(s) \in Nat
    OBVIOUS
  <2>2. un \subseteq 1 .. Len(s)
    BY <2>1 DEF Unplaced
  <2> HIDE DEF un
  <2>3. IsFiniteSet(1 .. Len(s))
    BY <2>1, FS_Interval
  <2> QED BY <2>1, <2>2, <2>3, FS_Subset
<1>2. \A i \in DOMAIN s : i \in un <=> ~ InStream(s[i]) /\ \A j \in DOMAIN known :
                                InStream(known[j]) => known[j].award # s[i].award
  BY DEF Unplaced
<1> HIDE DEF un
<1>3. n \in Nat
  BY <1>1, FS_CardinalityType
<1>4. ASSUME NEW i \in un PROVE Cardinality(upTo(i)) \in 1 .. n
  <2>1. upTo(i) \subseteq un /\ i \in upTo(i)
    BY <1>1
  <2> HIDE DEF upTo
  <2>2. IsFiniteSet(upTo(i)) /\ Cardinality(upTo(i)) <= n
    BY <1>1, <2>1, FS_Subset
  <2>3. Cardinality(upTo(i)) \in Nat /\ Cardinality(upTo(i)) # 0
    BY <2>1, <2>2, FS_CardinalityType, FS_EmptySet
  <2> QED BY <1>3, <2>2, <2>3
<1>5. u = [i \in DOMAIN s |->
            IF InStream(s[i]) THEN s[i]
            ELSE IF i \in un THEN Placed(s[i].award, st.client, st.seq + Cardinality(upTo(i)))
            ELSE CHOOSE op \in Ops(known) : InStream(op) /\ op.award = s[i].award]
  BY DEF Upgrade, un
<1> HIDE DEF u, n, upTo
<1>6. ASSUME NEW i \in DOMAIN s
      PROVE  /\ InStream(u[i]) /\ u[i].award = s[i].award
             /\ InStream(s[i]) => u[i] = s[i]
             /\ ~ InStream(s[i]) => u[i] \in Ops(known) \/ NewPlace(u[i], st, n)
             /\ u[i] \in OpDoc
  <2>1. s[i] \in OpDoc /\ s[i].award \in Awards
    <3>1. s[i] \in OpDoc
      BY OpIn
    <3> QED BY <3>1 DEF OpDoc
  <2>2. CASE InStream(s[i])
    BY <1>5, <2>1, <2>2
  <2>3. CASE ~ InStream(s[i]) /\ i \in un
    <3>1. u[i] = Placed(s[i].award, st.client, st.seq + Cardinality(upTo(i)))
      BY <1>5, <2>3
    <3>2. Cardinality(upTo(i)) \in Nat /\ Cardinality(upTo(i)) >= 1 /\ Cardinality(upTo(i)) <= n
      BY <1>3, <1>4, <2>3
    <3>3. st.client \in Nat /\ st.seq \in Nat /\ n \in Nat
      BY <1>3 DEF StreamDoc
    <3>4. PICK k : k = Cardinality(upTo(i))
      OBVIOUS
    <3>5. u[i] = [award |-> s[i].award, client |-> st.client, seq |-> st.seq + k]
      BY <3>1, <3>4 DEF Placed
    <3>6. NewPlace(u[i], st, n) /\ InStream(u[i]) /\ u[i].award = s[i].award
      BY <3>2, <3>3, <3>4, <3>5 DEF NewPlace, InStream
    <3>7. u[i] \in OpDoc
      BY <2>1, <3>2, <3>3, <3>4, <3>5 DEF OpDoc
    <3> QED BY <2>3, <3>6, <3>7
  <2>4. CASE ~ InStream(s[i]) /\ i \notin un
    <3>1. \E op \in Ops(known) : InStream(op) /\ op.award = s[i].award
      BY <1>2, <2>4 DEF Ops
    <3>2. u[i] = CHOOSE op \in Ops(known) : InStream(op) /\ op.award = s[i].award
      BY <1>5, <2>4
    <3>3. u[i] \in Ops(known) /\ InStream(u[i]) /\ u[i].award = s[i].award
      BY <3>1, <3>2
    <3> QED BY <2>4, <3>3, OpIn
  <2> QED BY <2>2, <2>3, <2>4
<1>7. u \in Seq(OpDoc) /\ DOMAIN u = DOMAIN s
  <2>1. u \in [1 .. Len(s) -> OpDoc]
    BY <1>1, <1>5, <1>6
  <2> QED BY <1>1, <2>1
<1> QED BY <1>3, <1>6, <1>7 DEF u, n, un

-----------------------------------------------------------------------------
(* The transaction on an account that exists.                              *)

AccDoc == [mark : Marks, acked : Seq(OpDoc), fresh : Seq(OpDoc)]
Inside(op) == InStream(op) => op.client \in Clients
Unknown(op) == IF Listed(op, Ops(stats.ledger)) THEN <<>> ELSE <<op>>

LEMMA ClassifyIs ==
    ASSUME NEW acc \in AccDoc, NEW op \in OpDoc, Inside(op)
    PROVE  LET r == Classify(acc, op) IN
           /\ r \in AccDoc
           /\ \/ /\ InStream(op) /\ op.seq <= acc.mark[op.client]
                 /\ r.mark = acc.mark /\ r.acked = Append(acc.acked, op) /\ r.fresh = acc.fresh
              \/ InStream(op) /\ op.seq > acc.mark[op.client] + 1 /\ r = acc
              \/ /\ ~ InStream(op)
                 /\ r.mark = acc.mark /\ r.acked = Append(acc.acked, op)
                 /\ r.fresh = acc.fresh \o Unknown(op)
              \/ /\ InStream(op) /\ op.seq = acc.mark[op.client] + 1
                 /\ r.mark = [acc.mark EXCEPT ![op.client] = op.seq]
                 /\ r.acked = Append(acc.acked, op)
                 /\ r.fresh = acc.fresh \o Unknown(op)
<1> DEFINE r == Classify(acc, op)
<1>1. /\ acc.mark \in Marks /\ acc.acked \in Seq(OpDoc) /\ acc.fresh \in Seq(OpDoc)
      /\ DOMAIN acc = {"mark", "acked", "fresh"}
  BY DEF AccDoc
<1>2. Append(acc.acked, op) \in Seq(OpDoc)
  BY <1>1
<1>3. acc.fresh \o Unknown(op) \in Seq(OpDoc)
  <2>1. Unknown(op) \in Seq(OpDoc)
    BY DEF Unknown
  <2> QED BY <1>1, <2>1, ConcatIs
<1>4. op.seq \in Nat
  BY DEF OpDoc
<1>5. CASE ~ InStream(op)
  <2>1. r = [acc EXCEPT !.acked = Append(acc.acked, op), !.fresh = acc.fresh \o Unknown(op)]
    BY <1>5 DEF Classify, Unknown
  <2> QED BY <1>1, <1>2, <1>3, <1>5, <2>1 DEF AccDoc
<1>6. CASE InStream(op)
  <2>1. op.client \in Clients /\ acc.mark[op.client] \in Nat
    BY <1>1, <1>6 DEF Inside, Marks
  <2>2. CASE op.seq <= acc.mark[op.client]
    <3>1. r = [acc EXCEPT !.acked = Append(acc.acked, op)]
      BY <1>6, <2>2 DEF Classify
    <3> QED BY <1>1, <1>2, <1>6, <2>2, <3>1 DEF AccDoc
  <2>3. CASE ~ (op.seq <= acc.mark[op.client]) /\ op.seq # acc.mark[op.client] + 1
    <3>1. r = acc
      BY <1>6, <2>3 DEF Classify
    <3> QED BY <1>4, <1>6, <2>1, <2>3, <3>1
  <2>4. CASE ~ (op.seq <= acc.mark[op.client]) /\ op.seq = acc.mark[op.client] + 1
    <3>1. r = [mark |-> [acc.mark EXCEPT ![op.client] = op.seq],
               acked |-> Append(acc.acked, op), fresh |-> acc.fresh \o Unknown(op)]
      BY <1>6, <2>4 DEF Classify, Unknown
    <3>2. [acc.mark EXCEPT ![op.client] = op.seq] \in Marks
      BY <1>1, <1>4 DEF Marks
    <3> QED BY <1>2, <1>3, <1>6, <2>4, <3>1, <3>2 DEF AccDoc
  <2> QED BY <2>2, <2>3, <2>4
<1> QED BY <1>5, <1>6

\* An award that a list names by one operation, with a place.
OneOf(s, a) == \A i, j \in DOMAIN s : s[i].award = a /\ s[j].award = a =>
                                          InStream(s[i]) /\ s[i] = s[j]
\* The places a watermark has passed.
Gained(acc) ==
    \A c \in Clients : \A n \in stats.mark[c] + 1 .. acc.mark[c] :
        \E op \in Ops(acc.acked) : /\ op.client = c /\ op.seq = n
                                   /\ Listed(op, Ops(stats.ledger)) \/ op \in Ops(acc.fresh)
AccKept(acc) ==
    /\ acc \in AccDoc
    /\ Ops(acc.fresh) \subseteq Ops(acc.acked)
    /\ \A c \in Clients : stats.mark[c] <= acc.mark[c]
    /\ \A op \in Ops(acc.acked) : Inside(op) /\ (InStream(op) => op.seq <= acc.mark[op.client])
    /\ \A op \in Ops(acc.fresh) : InStream(op) => stats.mark[op.client] < op.seq
\* What holds of the first k operations of s, judged.
Judged(acc, s, k) ==
    /\ AccKept(acc)
    /\ Ops(acc.acked) \subseteq First(s, k)
    /\ Gained(acc)
    /\ \A a \in Awards : OneOf(s, a) => Single(acc.fresh, a)
    /\ k >= 1 /\ InStream(s[1]) /\ s[1].seq <= stats.mark[s[1].client] + 1 => s[1] \in Ops(acc.acked)

LEMMA UnknownIs ==
    ASSUME NEW acc \in AccDoc, NEW op \in OpDoc
    PROVE  /\ Ops(Append(acc.acked, op)) = Ops(acc.acked) \cup {op}
           /\ Ops(acc.fresh \o Unknown(op)) \subseteq Ops(acc.fresh) \cup {op}
           /\ Ops(acc.fresh) \subseteq Ops(acc.fresh \o Unknown(op))
           /\ Listed(op, Ops(stats.ledger)) \/ op \in Ops(acc.fresh \o Unknown(op))
<1>1. acc.acked \in Seq(OpDoc) /\ acc.fresh \in Seq(OpDoc)
  BY DEF AccDoc
<1>2. /\ Unknown(op) \in Seq(OpDoc) /\ Ops(Unknown(op)) \subseteq {op}
      /\ Listed(op, Ops(stats.ledger)) \/ Ops(Unknown(op)) = {op}
  BY OpsOfOne, OpsOfEmpty DEF Unknown
<1>3. Ops(acc.fresh \o Unknown(op)) = Ops(acc.fresh) \cup Ops(Unknown(op))
  BY <1>1, <1>2, ConcatIs
<1>4. Ops(Append(acc.acked, op)) = Ops(acc.acked) \cup {op}
  BY <1>1, OpsOfAppend
<1> QED BY <1>2, <1>3, <1>4

LEMMA JudgedKept ==
    ASSUME NEW acc, AccKept(acc), NEW op \in OpDoc, Inside(op), stats.mark \in Marks
    PROVE  AccKept(Classify(acc, op)) /\ (Gained(acc) => Gained(Classify(acc, op)))
<1> DEFINE r == Classify(acc, op)
<1>1. acc \in AccDoc /\ acc.mark \in Marks /\ op.seq \in Nat
  BY DEF AccKept, AccDoc, OpDoc
<1>2. /\ r \in AccDoc
      /\ \/ /\ InStream(op) /\ op.seq <= acc.mark[op.client]
            /\ r.mark = acc.mark /\ r.acked = Append(acc.acked, op) /\ r.fresh = acc.fresh
         \/ InStream(op) /\ op.seq > acc.mark[op.client] + 1 /\ r = acc
         \/ /\ ~ InStream(op)
            /\ r.mark = acc.mark /\ r.acked = Append(acc.acked, op)
            /\ r.fresh = acc.fresh \o Unknown(op)
         \/ /\ InStream(op) /\ op.seq = acc.mark[op.client] + 1
            /\ r.mark = [acc.mark EXCEPT ![op.client] = op.seq]
            /\ r.acked = Append(acc.acked, op)
            /\ r.fresh = acc.fresh \o Unknown(op)
  BY <1>1, ClassifyIs
<1> HIDE DEF r
<1>3. /\ Ops(Append(acc.acked, op)) = Ops(acc.acked) \cup {op}
      /\ Ops(acc.fresh \o Unknown(op)) \subseteq Ops(acc.fresh) \cup {op}
      /\ Ops(acc.fresh) \subseteq Ops(acc.fresh \o Unknown(op))
      /\ Listed(op, Ops(stats.ledger)) \/ op \in Ops(acc.fresh \o Unknown(op))
  BY <1>1, UnknownIs
<1>4. \A c \in Clients : stats.mark[c] \in Nat /\ acc.mark[c] \in Nat /\ stats.mark[c] <= acc.mark[c]
  BY <1>1 DEF AccKept, Marks
<1>5. CASE r.mark = acc.mark
  <2>1. /\ Ops(acc.acked) \subseteq Ops(r.acked) /\ Ops(r.acked) \subseteq Ops(acc.acked) \cup {op}
        /\ Ops(acc.fresh) \subseteq Ops(r.fresh) /\ Ops(r.fresh) \subseteq Ops(acc.fresh) \cup {op}
        /\ op \in Ops(r.acked) => (InStream(op) => op.seq <= acc.mark[op.client])
        /\ op \in Ops(r.fresh) => op \in Ops(acc.fresh) \/ ~ InStream(op)
        /\ op \in Ops(r.fresh) => op \in Ops(r.acked)
    <3>1. CASE r.mark = [acc.mark EXCEPT ![op.client] = op.seq] /\ InStream(op)
               /\ op.seq = acc.mark[op.client] + 1
      <4>1. op.client \in Clients
        BY <3>1 DEF Inside
      <4>2. r.mark[op.client] = op.seq
        BY <1>1, <3>1, <4>1 DEF Marks
      <4> QED BY <1>4, <1>5, <3>1, <4>1, <4>2
    <3>2. CASE InStream(op) /\ op.seq > acc.mark[op.client] + 1 /\ r = acc
      <4>1. op \notin Ops(acc.acked)
        BY <1>1, <1>4, <3>2 DEF AccKept, Inside
      <4> QED BY <3>2, <4>1 DEF AccKept
    <3>3. CASE r.acked = Append(acc.acked, op) /\ r.fresh = acc.fresh
               /\ InStream(op) /\ op.seq <= acc.mark[op.client]
      BY <1>3, <3>3
    <3>4. CASE r.acked = Append(acc.acked, op) /\ r.fresh = acc.fresh \o Unknown(op)
               /\ ~ InStream(op)
      BY <1>3, <3>4
    <3> QED BY <1>2, <3>1, <3>2, <3>3, <3>4
  <2>2. AccKept(r)
    BY <1>2, <1>5, <2>1 DEF AccKept
  <2>3. ASSUME Gained(acc) PROVE Gained(r)
    BY <1>5, <2>1, <2>3 DEF Gained
  <2> QED BY <2>2, <2>3 DEF r
<1>6. CASE /\ InStream(op) /\ op.seq = acc.mark[op.client] + 1
           /\ r.mark = [acc.mark EXCEPT ![op.client] = op.seq]
           /\ r.acked = Append(acc.acked, op)
           /\ r.fresh = acc.fresh \o Unknown(op)
  <2>1. /\ op.client \in Clients /\ r.mark[op.client] = op.seq
        /\ \A c \in Clients : c # op.client => r.mark[c] = acc.mark[c]
    BY <1>1, <1>6 DEF Inside, Marks
  <2>2. \A c \in Clients : acc.mark[c] <= r.mark[c] /\ r.mark[c] \in Nat
    BY <1>1, <1>4, <1>6, <2>1
  <2>3. /\ Ops(r.acked) = Ops(acc.acked) \cup {op}
        /\ Ops(acc.fresh) \subseteq Ops(r.fresh) /\ Ops(r.fresh) \subseteq Ops(acc.fresh) \cup {op}
        /\ Listed(op, Ops(stats.ledger)) \/ op \in Ops(r.fresh)
    BY <1>3, <1>6
  <2>4. \A o \in Ops(acc.acked) : InStream(o) => o.client \in Clients /\ o.seq <= acc.mark[o.client]
                                                 /\ o.seq \in Nat
    <3>1. \A o \in Ops(acc.acked) : o \in OpDoc
      <4>1. acc.acked \in Seq(OpDoc)
        BY <1>1 DEF AccDoc
      <4> QED BY <4>1, OpsIn
    <3> QED BY <3>1 DEF AccKept, Inside, OpDoc
  <2>5. AccKept(r)
    <3>1. Ops(r.fresh) \subseteq Ops(r.acked)
      BY <2>3 DEF AccKept
    <3>2. \A c \in Clients : stats.mark[c] <= r.mark[c]
      BY <1>4, <2>2
    <3>3. ASSUME NEW o \in Ops(r.acked) PROVE Inside(o) /\ (InStream(o) => o.seq <= r.mark[o.client])
      <4>1. CASE o = op
        BY <1>1, <2>1, <4>1
      <4>2. CASE o \in Ops(acc.acked)
        <5>1. Inside(o)
          BY <4>2 DEF AccKept
        <5>2. InStream(o) => o.client \in Clients /\ o.seq <= acc.mark[o.client] /\ o.seq \in Nat
          BY <2>4, <4>2
        <5>3. ASSUME InStream(o) PROVE o.seq <= r.mark[o.client]
          BY <1>4, <2>2, <5>2, <5>3
        <5> QED BY <5>1, <5>3
      <4> QED BY <2>3, <4>1, <4>2
    <3>4. \A o \in Ops(r.fresh) : InStream(o) => stats.mark[o.client] < o.seq
      BY <1>1, <1>4, <1>6, <2>1, <2>3 DEF AccKept
    <3> QED BY <1>2, <3>1, <3>2, <3>3, <3>4 DEF AccKept
  <2>6. ASSUME Gained(acc) PROVE Gained(r)
    <3>1. ASSUME NEW c \in Clients, NEW n \in stats.mark[c] + 1 .. r.mark[c]
          PROVE  \E o \in Ops(r.acked) : /\ o.client = c /\ o.seq = n
                                         /\ Listed(o, Ops(stats.ledger)) \/ o \in Ops(r.fresh)
      <4>1. CASE n \in stats.mark[c] + 1 .. acc.mark[c]
        BY <2>3, <2>6, <4>1 DEF Gained
      <4>2. CASE n \notin stats.mark[c] + 1 .. acc.mark[c]
        <5>1. c = op.client /\ n = op.seq
          BY <1>1, <1>4, <1>6, <2>1, <2>2, <3>1, <4>2
        <5> QED BY <2>3, <5>1
      <4> QED BY <4>1, <4>2
    <3> QED BY <3>1, Zenon DEF Gained
  <2> QED BY <2>5, <2>6 DEF r
<1> QED BY <1>2, <1>5, <1>6

\* f judges, for every n up to m, the first n operations of s.
Classes(f, s, m) ==
    f = [n \in 0 .. m |->
           IF n = 0 THEN [mark |-> stats.mark, acked |-> <<>>, fresh |-> <<>>]
           ELSE Classify(f[n - 1], s[n])]

LEMMA ClassesExists ==
    ASSUME NEW s, NEW m \in Nat
    PROVE  \E f : Classes(f, s, m)
<1> DEFINE start == [mark |-> stats.mark, acked |-> <<>>, fresh |-> <<>>]
           T == {k \in Nat : \E f : Classes(f, s, k)}
<1>1. 0 \in T
  <2> DEFINE f == [n \in 0 .. 0 |-> start]
  <2>1. Classes(f, s, 0)
    BY DEF Classes
  <2> QED BY <2>1
<1>2. ASSUME NEW k \in Nat, k \in T PROVE k + 1 \in T
  <2>1. PICK f : Classes(f, s, k)
    BY <1>2
  <2> DEFINE last == Classify(f[k], s[k + 1])
             g == [n \in 0 .. k + 1 |-> IF n = k + 1 THEN last ELSE f[n]]
  <2>2. \A n \in 0 .. k : f[n] = IF n = 0 THEN start ELSE Classify(f[n - 1], s[n])
    BY <2>1, Zenon DEF Classes
  <2> HIDE DEF start
  <2>3. ASSUME NEW n \in 0 .. k + 1
        PROVE  g[n] = IF n = 0 THEN start ELSE Classify(g[n - 1], s[n])
    BY <2>2
  <2>4. Classes(g, s, k + 1)
    <3>1. g = [n \in 0 .. k + 1 |-> IF n = 0 THEN start ELSE Classify(g[n - 1], s[n])]
      <4> HIDE DEF last
      <4> QED BY <2>3
    <3> QED BY <3>1, Zenon DEF Classes, start
  <2> HIDE DEF g
  <2> QED BY <2>4
<1> HIDE DEF T
<1>3. m \in T
  BY <1>1, <1>2, SetInduction
<1> QED BY <1>3 DEF T

LEMMA ClassifiedIs ==
    ASSUME NEW req, Len(req.ops) \in Nat
    PROVE  \E f : Classes(f, req.ops, Len(req.ops)) /\ Classified(req) = f[Len(req.ops)]
<1>1. Classified(req) = (CHOOSE f : Classes(f, req.ops, Len(req.ops)))[Len(req.ops)]
  BY Zenon DEF Classified, Classes
<1>2. \E f : Classes(f, req.ops, Len(req.ops))
  BY ClassesExists
<1>3. Classes(CHOOSE f : Classes(f, req.ops, Len(req.ops)), req.ops, Len(req.ops))
  BY <1>2, Zenon
<1> QED BY <1>1, <1>3, Zenon

\* The operations of a save, judged one after the other.
LEMMA JudgedStep ==
    ASSUME NEW s \in Seq(OpDoc), NEW acc, NEW k \in Nat, k + 1 <= Len(s), Judged(acc, s, k),
           \A op \in Ops(s) : Inside(op), stats.mark \in Marks,
           k = 0 => acc.mark = stats.mark
    PROVE  Judged(Classify(acc, s[k + 1]), s, k + 1)
<1> DEFINE op == s[k + 1]
           r == Classify(acc, op)
<1>1. /\ op \in OpDoc /\ op \in Ops(s) /\ k + 1 \in DOMAIN s /\ DOMAIN s = 1 .. Len(s)
      /\ \A i \in DOMAIN s : s[i] \in Ops(s) /\ s[i] \in OpDoc
  BY OpIn
<1>2. Inside(op) /\ AccKept(acc) /\ acc \in AccDoc
  BY <1>1 DEF Judged, AccKept
<1> HIDE DEF op
<1>3. AccKept(r) /\ Gained(r)
  BY <1>1, <1>2, JudgedKept DEF Judged
<1>4. \/ /\ InStream(op) /\ op.seq <= acc.mark[op.client]
         /\ r.acked = Append(acc.acked, op) /\ r.fresh = acc.fresh
      \/ InStream(op) /\ op.seq > acc.mark[op.client] + 1 /\ r = acc
      \/ /\ ~ InStream(op)
         /\ r.acked = Append(acc.acked, op)
         /\ r.fresh = acc.fresh \o Unknown(op)
      \/ /\ InStream(op) /\ op.seq = acc.mark[op.client] + 1
         /\ r.acked = Append(acc.acked, op)
         /\ r.fresh = acc.fresh \o Unknown(op)
  BY <1>1, <1>2, ClassifyIs
<1>5. /\ Ops(Append(acc.acked, op)) = Ops(acc.acked) \cup {op}
      /\ acc.fresh \in Seq(OpDoc) /\ acc.mark \in Marks
  BY <1>1, <1>2, UnknownIs DEF AccDoc
<1> HIDE DEF r
<1>6. Ops(acc.acked) \subseteq Ops(r.acked) /\ Ops(r.acked) \subseteq Ops(acc.acked) \cup {op}
  BY <1>4, <1>5
<1>7. Ops(r.acked) \subseteq First(s, k + 1)
  <2>1. First(s, k) \cup {op} = First(s, k + 1)
    <3>1. 1 .. k + 1 = (1 .. k) \cup {k + 1}
      OBVIOUS
    <3> QED BY <3>1 DEF First, op
  <2> QED BY <1>6, <2>1 DEF Judged
<1>8. ASSUME NEW a \in Awards, OneOf(s, a) PROVE Single(r.fresh, a)
  <2>1. Single(acc.fresh, a)
    BY <1>8 DEF Judged
  <2>2. CASE r.fresh = acc.fresh \o Unknown(op)
    <3>1. Unknown(op) \in Seq(OpDoc) /\ Single(Unknown(op), a) /\ Ops(Unknown(op)) \subseteq {op}
      BY <1>1, OpsOfOne, OpsOfEmpty DEF Unknown, Single
    <3>2. CASE a \notin AwardsOf(acc.fresh) \/ op.award # a
      <4>1. a \notin AwardsOf(acc.fresh) \/ a \notin AwardsOf(Unknown(op))
        BY <3>1, <3>2 DEF AwardsOf
      <4> QED BY <1>5, <2>1, <2>2, <3>1, <4>1, ConcatSingle
    <3>3. CASE a \in AwardsOf(acc.fresh) /\ op.award = a
      <4>1. PICK o \in Ops(acc.fresh) : o.award = a
        BY <3>3 DEF AwardsOf
      <4>2. o \in Ops(acc.acked)
        BY <4>1, <1>2 DEF AccKept
      <4>3. PICK j \in 1 .. k : o = s[j]
        BY <4>2 DEF Judged, First
      <4>4. j \in DOMAIN s
        BY <1>1
      <4>5. o = op /\ InStream(op)
        BY <1>1, <1>8, <3>3, <4>1, <4>3, <4>4 DEF OneOf, op
      <4>6. op.seq <= acc.mark[op.client] /\ op.client \in Clients
        BY <1>2, <4>2, <4>5 DEF AccKept, Inside
      <4>7. acc.mark[op.client] \in Nat /\ op.seq \in Nat
        BY <1>1, <1>5, <4>6 DEF Marks, OpDoc
      <4>8. r.fresh = acc.fresh
        BY <1>4, <4>5, <4>6, <4>7
      <4> QED BY <2>1, <4>8
    <3> QED BY <3>2, <3>3
  <2>3. CASE r.fresh = acc.fresh
    BY <2>1, <2>3
  <2> QED BY <1>4, <2>2, <2>3
<1>9. ASSUME InStream(s[1]), s[1].seq <= stats.mark[s[1].client] + 1 PROVE s[1] \in Ops(r.acked)
  <2>1. CASE k = 0
    <3>1. op = s[1] /\ acc.mark = stats.mark
      BY <2>1 DEF op
    <3>2. acc.mark[op.client] \in Nat /\ op.seq \in Nat
      BY <1>1, <1>2, <1>5, <1>9, <3>1 DEF Marks, OpDoc, Inside
    <3>4. InStream(op) /\ op.seq <= acc.mark[op.client] + 1
      BY <1>9, <3>1
    <3>3. r.acked = Append(acc.acked, op)
      BY <1>4, <3>2, <3>4
    <3> QED BY <1>5, <3>1, <3>3
  <2>2. CASE k # 0
    <3>1. s[1] \in Ops(acc.acked)
      BY <1>9, <2>2 DEF Judged
    <3> QED BY <1>6, <3>1
  <2> QED BY <2>1, <2>2
<1> QED BY <1>3, <1>7, <1>8, <1>9 DEF Judged, r, op

LEMMA ClassifiedJudged ==
    ASSUME NEW req, req.ops \in Seq(OpDoc), \A op \in Ops(req.ops) : Inside(op),
           stats.mark \in Marks
    PROVE  Judged(Classified(req), req.ops, Len(req.ops))
<1> DEFINE s == req.ops
<1>1. PICK f : Classes(f, s, Len(s)) /\ Classified(req) = f[Len(s)]
  BY ClassifiedIs
<1>2. /\ f[0] = [mark |-> stats.mark, acked |-> <<>>, fresh |-> <<>>]
      /\ \A n \in 0 .. Len(s) : n # 0 => f[n] = Classify(f[n - 1], s[n])
  <2>1. \A n \in 0 .. Len(s) : f[n] = IF n = 0 THEN [mark |-> stats.mark, acked |-> <<>>, fresh |-> <<>>]
                                      ELSE Classify(f[n - 1], s[n])
    BY <1>1, Zenon DEF Classes
  <2> QED BY <2>1
<1> HIDE DEF s
<1> DEFINE T == {k \in Nat : k <= Len(s) => Judged(f[k], s, k)}
<1>3. 0 \in T
  <2>1. f[0] \in AccDoc /\ Ops(f[0].acked) = {} /\ Ops(f[0].fresh) = {} /\ f[0].mark = stats.mark
    BY <1>2, OpsOfEmpty DEF AccDoc
  <2>2. \A c \in Clients : stats.mark[c] \in Nat
    BY DEF Marks
  <2>3. AccKept(f[0])
    BY <2>1, <2>2 DEF AccKept
  <2>4. Gained(f[0])
    BY <2>1, <2>2 DEF Gained
  <2>5. \A a \in Awards : Single(f[0].fresh, a)
    BY <1>2 DEF Single
  <2> QED BY <2>1, <2>3, <2>4, <2>5 DEF Judged
<1>4. ASSUME NEW k \in Nat, k \in T PROVE k + 1 \in T
  <2>1. SUFFICES ASSUME k + 1 <= Len(s) PROVE Judged(f[k + 1], s, k + 1)
    OBVIOUS
  <2>2. Judged(f[k], s, k)
    <3>1. k <= Len(s)
      BY <2>1 DEF s
    <3> QED BY <1>4, <3>1
  <2>3. f[k + 1] = Classify(f[k], s[k + 1])
    <3>1. k + 1 \in 0 .. Len(s) /\ k + 1 # 0 /\ (k + 1) - 1 = k
      BY <2>1 DEF s
    <3> QED BY <1>2, <3>1
  <2>4. k = 0 => f[k].mark = stats.mark
    BY <1>2
  <2> QED BY <2>1, <2>2, <2>3, <2>4, JudgedStep DEF s
<1> HIDE DEF T
<1>5. Len(s) \in T
  BY <1>3, <1>4, SetInduction DEF s
<1>6. Judged(f[Len(s)], s, Len(s))
  BY <1>5 DEF T, s
<1> QED BY <1>1, <1>6 DEF s

-----------------------------------------------------------------------------
(* The first save, the ledger, and what a save takes along.                *)

\* f sorts, for every n up to m, the first n operations of s.
Placing(f, s, m) ==
    f = [n \in 0 .. m |->
           IF n = 0 THEN <<>>
           ELSE Keep(f[n - 1], {op \in Ops(s) : ~ Before(s[n], op)}) \o <<s[n]>>
                \o Keep(f[n - 1], {op \in Ops(s) : Before(s[n], op)})]

LEMMA PlacingExists ==
    ASSUME NEW s, NEW m \in Nat
    PROVE  \E f : Placing(f, s, m)
<1> DEFINE Next1(q, n) == Keep(q, {op \in Ops(s) : ~ Before(s[n], op)}) \o <<s[n]>>
                          \o Keep(q, {op \in Ops(s) : Before(s[n], op)})
           T == {k \in Nat : \E f : Placing(f, s, k)}
<1>1. 0 \in T
  <2> DEFINE f == [n \in 0 .. 0 |-> <<>>]
  <2>1. Placing(f, s, 0)
    BY DEF Placing
  <2> QED BY <2>1
<1>2. ASSUME NEW k \in Nat, k \in T PROVE k + 1 \in T
  <2>1. PICK f : Placing(f, s, k)
    BY <1>2
  <2> DEFINE last == Next1(f[k], k + 1)
             g == [n \in 0 .. k + 1 |-> IF n = k + 1 THEN last ELSE f[n]]
  <2>2. \A n \in 0 .. k : f[n] = IF n = 0 THEN <<>> ELSE Next1(f[n - 1], n)
    BY <2>1, Zenon DEF Placing
  <2> HIDE DEF Next1
  <2>3. ASSUME NEW n \in 0 .. k + 1
        PROVE  g[n] = IF n = 0 THEN <<>> ELSE Next1(g[n - 1], n)
    BY <2>2
  <2>4. Placing(g, s, k + 1)
    <3>1. g = [n \in 0 .. k + 1 |-> IF n = 0 THEN <<>> ELSE Next1(g[n - 1], n)]
      <4> HIDE DEF last
      <4> QED BY <2>3
    <3> QED BY <3>1, Zenon DEF Placing, Next1
  <2> HIDE DEF g
  <2> QED BY <2>4
<1> HIDE DEF T
<1>3. m \in T
  BY <1>1, <1>2, SetInduction
<1> QED BY <1>3 DEF T

LEMMA InPlacesIs ==
    ASSUME NEW s, Len(s) \in Nat
    PROVE  \E f : Placing(f, s, Len(s)) /\ InPlaces(s) = f[Len(s)]
<1>1. InPlaces(s) = (CHOOSE f : Placing(f, s, Len(s)))[Len(s)]
  BY Zenon DEF InPlaces, Placing
<1>2. \E f : Placing(f, s, Len(s))
  BY PlacingExists
<1>3. Placing(CHOOSE f : Placing(f, s, Len(s)), s, Len(s))
  BY <1>2, Zenon
<1> QED BY <1>1, <1>3, Zenon

LEMMA InPlacesOps ==
    ASSUME NEW s \in Seq(OpDoc)
    PROVE  InPlaces(s) \in Seq(OpDoc) /\ Ops(InPlaces(s)) = Ops(s)
<1>1. PICK f : Placing(f, s, Len(s)) /\ InPlaces(s) = f[Len(s)]
  BY InPlacesIs
<1>2. /\ f[0] = <<>>
      /\ \A n \in 0 .. Len(s) : n # 0 =>
            f[n] = Keep(f[n - 1], {op \in Ops(s) : ~ Before(s[n], op)}) \o <<s[n]>>
                   \o Keep(f[n - 1], {op \in Ops(s) : Before(s[n], op)})
  <2>1. \A n \in 0 .. Len(s) : f[n] =
            IF n = 0 THEN <<>>
            ELSE Keep(f[n - 1], {op \in Ops(s) : ~ Before(s[n], op)}) \o <<s[n]>>
                 \o Keep(f[n - 1], {op \in Ops(s) : Before(s[n], op)})
    BY <1>1, Zenon DEF Placing
  <2>2. 0 \in 0 .. Len(s)
    OBVIOUS
  <2> QED BY <2>1, <2>2, Zenon
<1> DEFINE T == {k \in Nat : k <= Len(s) => f[k] \in Seq(OpDoc) /\ Ops(f[k]) = First(s, k)}
<1>3. 0 \in T
  <2>1. First(s, 0) = {}
    BY DEF First
  <2>2. <<>> \in Seq(OpDoc)
    OBVIOUS
  <2> QED BY <1>2, <2>1, <2>2, OpsOfEmpty
<1>4. ASSUME NEW k \in Nat, k \in T PROVE k + 1 \in T
  <2>1. SUFFICES ASSUME k + 1 <= Len(s) PROVE f[k + 1] \in Seq(OpDoc) /\ Ops(f[k + 1]) = First(s, k + 1)
    OBVIOUS
  <2>2. f[k] \in Seq(OpDoc) /\ Ops(f[k]) = First(s, k) /\ First(s, k) \subseteq Ops(s)
    <3>1. k <= Len(s)
      BY <2>1
    <3>2. First(s, k) \subseteq Ops(s)
      BY <3>1, OpIn DEF First
    <3> QED BY <1>4, <3>1, <3>2
  <2> DEFINE a == Keep(f[k], {op \in Ops(s) : ~ Before(s[k + 1], op)})
             b == Keep(f[k], {op \in Ops(s) : Before(s[k + 1], op)})
             o == <<s[k + 1]>>
  <2>3. f[k + 1] = a \o o \o b
    <3>1. k + 1 \in 0 .. Len(s) /\ k + 1 # 0 /\ (k + 1) - 1 = k
      BY <2>1
    <3> QED BY <1>2, <3>1
  <2>4. a \in Seq(OpDoc) /\ Ops(a) = Ops(f[k]) \cap {op \in Ops(s) : ~ Before(s[k + 1], op)}
    BY <2>2, KeepOps
  <2>5. b \in Seq(OpDoc) /\ Ops(b) = Ops(f[k]) \cap {op \in Ops(s) : Before(s[k + 1], op)}
    BY <2>2, KeepOps
  <2>6. Ops(f[k]) = Ops(a) \cup Ops(b)
    BY <2>2, <2>4, <2>5
  <2>7. o \in Seq(OpDoc) /\ Ops(o) = {s[k + 1]}
    <3>1. s[k + 1] \in OpDoc
      BY <2>1, OpIn
    <3> QED BY <3>1, OpsOfOne
  <2> HIDE DEF a, b, o
  <2> DEFINE l == a \o o
  <2>8. l \in Seq(OpDoc) /\ Ops(l) = Ops(a) \cup Ops(o)
    BY <2>4, <2>7, ConcatIs
  <2>11. f[k + 1] = l \o b
    BY <2>3
  <2> HIDE DEF l
  <2>9. f[k + 1] \in Seq(OpDoc) /\ Ops(f[k + 1]) = Ops(a) \cup Ops(o) \cup Ops(b)
    <3>1. l \o b \in Seq(OpDoc) /\ Ops(l \o b) = Ops(l) \cup Ops(b)
      BY <2>5, <2>8, ConcatIs
    <3> QED BY <2>8, <2>11, <3>1
  <2>10. First(s, k + 1) = First(s, k) \cup {s[k + 1]}
    <3>1. 1 .. k + 1 = (1 .. k) \cup {k + 1}
      OBVIOUS
    <3> QED BY <3>1 DEF First
  <2> QED BY <2>2, <2>6, <2>7, <2>9, <2>10
<1> HIDE DEF T
<1>5. Len(s) \in T
  BY <1>3, <1>4, SetInduction
<1>6. f[Len(s)] \in Seq(OpDoc) /\ Ops(f[Len(s)]) = First(s, Len(s))
  BY <1>5 DEF T
<1>7. First(s, Len(s)) = Ops(s)
  BY OpIn DEF First, Ops
<1> QED BY <1>1, <1>6, <1>7

LEMMA BootstrappedOps ==
    ASSUME NEW s \in Seq(OpDoc)
    PROVE  Bootstrapped(s) \in Seq(OpDoc) /\ Ops(Bootstrapped(s)) = Ops(s)
<1> DEFINE placed == {op \in Ops(s) : InStream(op)}
           a == Keep(s, placed)
           b == Keep(s, Ops(s) \ placed)
<1>1. a \in Seq(OpDoc) /\ Ops(a) = Ops(s) \cap placed
  BY KeepOps
<1>2. b \in Seq(OpDoc) /\ Ops(b) = Ops(s) \cap (Ops(s) \ placed)
  BY KeepOps
<1>3. Bootstrapped(s) = InPlaces(a) \o b
  BY DEF Bootstrapped
<1>4. Ops(a) \cup Ops(b) = Ops(s)
  BY <1>1, <1>2
<1> HIDE DEF a, b
<1> DEFINE l == InPlaces(a)
<1>5. l \in Seq(OpDoc) /\ Ops(l) = Ops(a)
  BY <1>1, InPlacesOps
<1>6. Bootstrapped(s) = l \o b
  BY <1>3
<1> HIDE DEF l
<1>7. l \o b \in Seq(OpDoc) /\ Ops(l \o b) = Ops(l) \cup Ops(b)
  BY <1>2, <1>5, ConcatIs
<1> QED BY <1>4, <1>5, <1>6, <1>7

LEMMA MaxIs ==
    ASSUME NEW b \in Nat, NEW S \in SUBSET (0 .. b), S # {}
    PROVE  Max(S) \in S /\ \A y \in S : y <= Max(S)
<1> DEFINE T == {n \in Nat : \A R \in SUBSET (0 .. n) : R # {} => \E x \in R : \A y \in R : x >= y}
<1>1. 0 \in T
  <2>1. ASSUME NEW R \in SUBSET (0 .. 0), R # {} PROVE 0 \in R /\ \A y \in R : 0 >= y
    <3>1. \A y \in R : y = 0
      OBVIOUS
    <3>2. PICK x : x \in R
      BY <2>1
    <3>3. \A y \in R : 0 >= y
      BY <3>1
    <3> QED BY <3>1, <3>2, <3>3
  <2> QED BY <2>1
<1>2. ASSUME NEW n \in Nat, n \in T PROVE n + 1 \in T
  <2>1. ASSUME NEW R \in SUBSET (0 .. n + 1), R # {} PROVE \E x \in R : \A y \in R : x >= y
    <3>1. CASE n + 1 \in R
      BY <3>1
    <3>2. CASE n + 1 \notin R
      <4>1. R \in SUBSET (0 .. n)
        <5>1. ASSUME NEW y \in R PROVE y \in 0 .. n
          BY <3>2
        <5> QED BY <5>1
      <4> QED BY <1>2, <2>1, <4>1
    <3> QED BY <3>1, <3>2
  <2> QED BY <2>1
<1> HIDE DEF T
<1>3. b \in T
  BY <1>1, <1>2, SetInduction
<1>4. \E x \in S : \A y \in S : x >= y
  BY <1>3 DEF T
<1>5. Max(S) \in S /\ \A y \in S : Max(S) >= y
  BY <1>4 DEF Max
<1> QED BY <1>5

\* The last place of a client in a list.
LEMMA LastPlaceIs ==
    ASSUME NEW s \in Seq(OpDoc), NEW c \in Nat
    PROVE  /\ LastPlace(s, c) \in Nat
           /\ \A op \in Ops(s) : op.client = c => op.seq <= LastPlace(s, c)
           /\ LastPlace(s, c) = 0 \/ \E op \in Ops(s) : op.client = c /\ op.seq = LastPlace(s, c)
<1>1. \A i \in DOMAIN s : s[i] \in Ops(s) /\ s[i] \in OpDoc /\ s[i].seq \in Nat
  <2>1. \A i \in DOMAIN s : s[i] \in Ops(s) /\ s[i] \in OpDoc
    BY OpIn
  <2> QED BY <2>1 DEF OpDoc
<1>2. DOMAIN s = 1 .. Len(s) /\ Len(s) \in Nat /\ \A op \in Ops(s) : \E i \in DOMAIN s : op = s[i]
  BY OpIn
<1> DEFINE T == {k \in Nat : k <= Len(s) => \E b \in Nat : \A i \in 1 .. k : s[i].seq <= b}
<1>3. 0 \in T
  BY DEF First
<1>4. ASSUME NEW k \in Nat, k \in T PROVE k + 1 \in T
  <2>1. SUFFICES ASSUME k + 1 <= Len(s) PROVE \E b \in Nat : \A i \in 1 .. k + 1 : s[i].seq <= b
    OBVIOUS
  <2>2. PICK b \in Nat : \A i \in 1 .. k : s[i].seq <= b
    BY <1>2, <1>4, <2>1
  <2>3. s[k + 1].seq \in Nat /\ \A i \in 1 .. k : s[i].seq \in Nat
    BY <1>1, <1>2, <2>1
  <2>4. ASSUME NEW i \in 1 .. k + 1 PROVE s[i].seq <= b + s[k + 1].seq
    <3>1. CASE i = k + 1
      BY <2>3, <3>1
    <3>2. CASE i # k + 1
      <4>1. i \in 1 .. k
        BY <3>2
      <4> QED BY <2>2, <2>3, <4>1
    <3> QED BY <3>1, <3>2
  <2>5. b + s[k + 1].seq \in Nat
    BY <2>3
  <2> QED BY <2>4, <2>5
<1>5. Len(s) \in T
  <2> HIDE DEF T
  <2> QED BY <1>2, <1>3, <1>4, SetInduction
<1>6. PICK b \in Nat : \A i \in 1 .. Len(s) : s[i].seq <= b
  BY <1>2, <1>5
<1> DEFINE S == {0} \cup {op.seq : op \in {o \in Ops(s) : o.client = c}}
<1>7. S \in SUBSET (0 .. b) /\ S # {}
  <2>1. \A op \in Ops(s) : op.seq \in 0 .. b
    BY <1>1, <1>2, <1>6
  <2> QED BY <2>1
<1>8. Max(S) \in S /\ \A y \in S : y <= Max(S)
  <2> HIDE DEF S
  <2> QED BY <1>7, MaxIs
<1>9. LastPlace(s, c) = Max(S)
  BY DEF LastPlace
<1>10. /\ \A y \in S : y \in Nat /\ (y = 0 \/ \E op \in Ops(s) : op.client = c /\ op.seq = y)
       /\ \A op \in Ops(s) : op.client = c => op.seq \in S
  BY <1>1, <1>2
<1> HIDE DEF S
<1> QED BY <1>8, <1>9, <1>10

\* A list the first save accepts has every place of a stream up to its last.
LEMMA NoBootstrapGap ==
    ASSUME NEW req, req.pending \in Seq(OpDoc), ~ BootstrapGap(req), NEW op \in Ops(req.pending),
           NEW n \in Nat, 1 <= n, n <= op.seq
    PROVE  \E o \in Ops(req.pending) : o.client = op.client /\ o.seq = n
<1>1. op \in OpDoc /\ \A o \in Ops(req.pending) : o \in OpDoc
  BY OpIn
<1>2. op.seq \in Nat /\ \A o \in Ops(req.pending) : o.seq \in Nat
  BY <1>1 DEF OpDoc
<1> DEFINE T == {k \in Nat : k < op.seq => \E o \in Ops(req.pending) : o.client = op.client /\ o.seq = op.seq - k}
<1>3. 0 \in T
  BY <1>2
<1>4. ASSUME NEW k \in Nat, k \in T PROVE k + 1 \in T
  <2>1. SUFFICES ASSUME k + 1 < op.seq
                 PROVE  \E o \in Ops(req.pending) : o.client = op.client /\ o.seq = op.seq - (k + 1)
    BY <1>2
  <2>2. PICK o \in Ops(req.pending) : o.client = op.client /\ o.seq = op.seq - k
    BY <1>2, <1>4, <2>1
  <2>3. o.seq > 1
    BY <1>2, <2>1, <2>2
  <2>4. PICK p \in Ops(req.pending) : <<p.client, p.seq>> = <<o.client, o.seq - 1>>
    BY <2>3 DEF BootstrapGap
  <2>5. p.client = op.client /\ p.seq = op.seq - (k + 1)
    BY <1>2, <2>2, <2>4
  <2> QED BY <2>5
<1> HIDE DEF T
<1>5. op.seq - n \in T
  <2>1. op.seq - n \in Nat
    BY <1>2
  <2> QED BY <1>3, <1>4, <2>1, SetInduction
<1> QED BY <1>2, <1>5 DEF T

LEMMA SubIs ==
    ASSUME NEW s \in Seq(OpDoc), NEW m \in Nat, NEW n \in Nat, 1 <= m, n <= Len(s)
    PROVE  /\ SubSeq(s, m, n) \in Seq(OpDoc) /\ Ops(SubSeq(s, m, n)) \subseteq Ops(s)
           /\ m <= n => SubSeq(s, m, n) # <<>> /\ SubSeq(s, m, n)[1] = s[m]
<1> DEFINE q == SubSeq(s, m, n)
<1>1. /\ q \in Seq(OpDoc) /\ DOMAIN q = 1 .. Len(q)
      /\ Len(q) = IF m <= n THEN n - m + 1 ELSE 0
      /\ \A i \in DOMAIN q : q[i] = s[m + i - 1]
  <2>1. \A i \in m .. n : s[i] \in OpDoc
    BY OpIn
  <2> QED BY <2>1
<1>2. \A i \in DOMAIN q : m + i - 1 \in DOMAIN s
  BY <1>1
<1> HIDE DEF q
<1>3. Ops(q) \subseteq Ops(s)
  BY <1>1, <1>2, OpIn DEF Ops
<1>4. m <= n => q # <<>> /\ q[1] = s[m]
  BY <1>1
<1> QED BY <1>1, <1>3, <1>4 DEF q

\* The ledger holds ids it had and ids of the save.
LEMMA RecentOps ==
    ASSUME NEW acked \in Seq(OpDoc), stats.ledger \in Seq(OpDoc)
    PROVE  Recent(acked) \in Seq(OpDoc) /\ Ops(Recent(acked)) \subseteq Ops(stats.ledger) \cup Ops(acked)
<1> DEFINE k == Keep(stats.ledger, Ops(stats.ledger) \ Ops(acked))
           ids == k \o acked
<1>1. k \in Seq(OpDoc) /\ Ops(k) \subseteq Ops(stats.ledger)
  BY KeepOps
<1> HIDE DEF k
<1>2. ids \in Seq(OpDoc) /\ Ops(ids) = Ops(k) \cup Ops(acked) /\ Len(ids) \in Nat
  BY <1>1, ConcatIs
<1> HIDE DEF ids
<1>3. LedgerSize \in Nat
  BY SizeAssumption
<1>4. Recent(acked) = IF Len(ids) <= LedgerSize THEN ids
                      ELSE SubSeq(ids, Len(ids) - LedgerSize + 1, Len(ids))
  BY DEF Recent, ids, k
<1>5. CASE Len(ids) <= LedgerSize
  BY <1>1, <1>2, <1>4, <1>5
<1>6. CASE ~ (Len(ids) <= LedgerSize)
  <2> DEFINE m == Len(ids) - LedgerSize + 1
  <2>1. m \in Nat /\ 1 <= m /\ Len(ids) <= Len(ids)
    BY <1>2, <1>3, <1>6
  <2>2. Recent(acked) = SubSeq(ids, m, Len(ids))
    BY <1>4, <1>6
  <2> HIDE DEF m
  <2>3. SubSeq(ids, m, Len(ids)) \in Seq(OpDoc) /\ Ops(SubSeq(ids, m, Len(ids))) \subseteq Ops(ids)
    BY <1>2, <2>1, SubIs
  <2> QED BY <1>1, <1>2, <2>2, <2>3
<1> QED BY <1>5, <1>6

LEMMA FirstOpsIs ==
    ASSUME NEW s \in Seq(OpDoc)
    PROVE  /\ FirstOps(s) \in Seq(OpDoc) /\ Ops(FirstOps(s)) \subseteq Ops(s)
           /\ s # <<>> => FirstOps(s) # <<>> /\ FirstOps(s)[1] = s[1]
<1>1. PerSave \in Nat /\ 1 <= PerSave /\ Len(s) \in Nat
  BY SizeAssumption
<1>2. CASE Len(s) <= PerSave
  BY <1>2 DEF FirstOps
<1>3. CASE ~ (Len(s) <= PerSave)
  <2>1. FirstOps(s) = SubSeq(s, 1, PerSave) /\ PerSave <= Len(s)
    BY <1>1, <1>3 DEF FirstOps
  <2> QED BY <1>1, <2>1, SubIs
<1> QED BY <1>2, <1>3

-----------------------------------------------------------------------------
(* What is around, and who has a place.                                    *)

LEMMA AroundIs ==
    /\ \A op \in Ops(store.pending) : op \in Around
    /\ \A t \in Tabs : \A op \in Ops(mem[t].pending) : op \in Around
    /\ \A r \in Requests : \A op \in Ops(r.pending) : op \in Around
    /\ \A op \in Around : \/ op \in Ops(store.pending)
                          \/ \E t \in Tabs : op \in Ops(mem[t].pending)
                          \/ \E r \in Requests : op \in Ops(r.pending)
BY DEF Around, Pendings

LEMMA AroundIsNext ==
    \A op \in Around' : \/ op \in Ops(store'.pending)
                        \/ \E t \in Tabs : op \in Ops(mem'[t].pending)
                        \/ \E r \in Requests' : op \in Ops(r.pending)
BY DEF Around, Pendings

LEMMA RequestsAre ==
    /\ late \subseteq Requests
    /\ \A t \in Tabs : \A i \in DOMAIN saves[t] : saves[t][i].req \in Requests
    /\ \A r \in Requests : r \in late \/ \E t \in Tabs : \E i \in DOMAIN saves[t] : r = saves[t][i].req
BY DEF Requests

LEMMA RequestsAreNext ==
    \A r \in Requests' : r \in late' \/ \E t \in Tabs : \E i \in DOMAIN saves'[t] : r = saves'[t][i].req
BY DEF Requests

LEMMA RequestShape ==
    ASSUME XpShape
    PROVE  Requests \subseteq Request
<1>1. \A t \in Tabs : saves[t] \in Seq(SaveDoc)
  BY DEF XpShape
<1>2. ASSUME NEW t \in Tabs, NEW i \in DOMAIN saves[t] PROVE saves[t][i].req \in Request
  <2>1. saves[t][i] \in SaveDoc
    BY <1>1, OpIn
  <2> QED BY <2>1 DEF SaveDoc
<1> QED BY <1>2, RequestsAre DEF XpShape

LEMMA AroundDoc ==
    ASSUME XpShape
    PROVE  /\ Around \subseteq OpDoc
           /\ store.pending \in Seq(OpDoc) /\ store.points \in Points
           /\ \A t \in Tabs : /\ mem[t].pending \in Seq(OpDoc) /\ mem[t].points \in Points
                              /\ mem[t].ids \subseteq OpDoc
           /\ \A r \in Requests : r.pending \in Seq(OpDoc) /\ r.ops \in Seq(OpDoc) /\ r.points \in Points
<1>1. \A r \in Requests : r.pending \in Seq(OpDoc) /\ r.ops \in Seq(OpDoc) /\ r.points \in Points
  BY RequestShape DEF Request
<1>2. \A t \in Tabs : mem[t] \in [points : Points, pending : Seq(OpDoc), ids : SUBSET OpDoc]
  BY DEF XpShape
<1>3. \A t \in Tabs : /\ mem[t].pending \in Seq(OpDoc) /\ mem[t].points \in Points
                      /\ mem[t].ids \subseteq OpDoc
  BY <1>2
<1>4. store.pending \in Seq(OpDoc) /\ store.points \in Points
  BY DEF XpShape, Snapshot
<1>5. Around \subseteq OpDoc
  BY <1>1, <1>3, <1>4, AroundIs, OpIn
<1> QED BY <1>1, <1>3, <1>4, <1>5

\* A new place of a stream, which only the award that is made takes.
Fresh(op, st, k, A) ==
    /\ op \in OpDoc /\ NewPlace(op, st, k)
    /\ op.award \in Unnamed => op.award \in A /\ op.seq = st.seq + k
    /\ A # {} /\ op.seq = st.seq + k => op.award \in A
Nameless(op) == op \in OpDoc /\ ~ InStream(op) /\ op.award \notin Unnamed

LEMMA CurrentIs ==
    ASSUME XpShape, NEW old \in StreamDoc
    PROVE  /\ Current(old) \in StreamDoc /\ Current(old).client # 0
           /\ \/ old.client # 0 /\ Current(old).client = old.client /\ Current(old).seq = old.seq
              \/ Current(old).client = clients + 1 /\ Current(old).seq = 0
           /\ ~ Current(old).fork
<1>1. clients \in Nat
  BY DEF XpShape
<1> QED BY <1>1 DEF Current, StreamDoc

LEMMA StreamTaken ==
    ASSUME XpShape, NEW t \in Tabs, NEW old \in StreamDoc, NEW k \in Nat,
           old.client = stream[t].client, old.seq = stream[t].seq,
           TakeStream(t, old, Advanced(Current(old), k))
    PROVE  /\ stream' \in [Tabs -> StreamDoc] /\ clients' \in 0 .. MaxClients /\ clients <= clients'
           /\ \A u \in Tabs \ {t} : stream'[u] = stream[u]
           /\ \/ /\ k = 0 /\ clients' = clients
                 /\ stream'[t].client = stream[t].client /\ stream'[t].seq = stream[t].seq
              \/ /\ stream[t].client # 0 /\ Current(old).client = stream[t].client
                 /\ Current(old).seq = stream[t].seq
                 /\ stream'[t].client = stream[t].client /\ stream'[t].seq = stream[t].seq + k
                 /\ (stream[t].client <= clients => clients' = clients)
              \/ /\ Current(old).client = clients + 1 /\ Current(old).seq = 0
                 /\ stream'[t].client = clients + 1 /\ stream'[t].seq = k /\ clients' = clients + 1
<1> DEFINE c == Current(old)
           st == Advanced(c, k)
<1>1. /\ c \in StreamDoc /\ c.client # 0
      /\ \/ old.client # 0 /\ c.client = old.client /\ c.seq = old.seq
         \/ c.client = clients + 1 /\ c.seq = 0
  BY CurrentIs
<1>2. clients \in 0 .. MaxClients /\ MaxClients \in Nat /\ stream \in [Tabs -> StreamDoc]
  BY SizeAssumption DEF XpShape
<1> HIDE DEF c
<1>3. st \in StreamDoc /\ st.seq = c.seq + k /\ st.client = c.client /\ c.seq \in Nat /\ c.client \in Nat
  BY <1>1 DEF Advanced, StreamDoc
<1> HIDE DEF st
<1>4. CASE st.seq = c.seq
  <2>1. stream' = [stream EXCEPT ![t] = old] /\ clients' = clients
    BY <1>4 DEF TakeStream, c, st
  <2>2. k = 0
    BY <1>3, <1>4
  <2> QED BY <1>2, <2>1, <2>2
<1>5. CASE st.seq # c.seq
  <2>1. /\ st.client \in Clients /\ stream' = [stream EXCEPT ![t] = st]
        /\ clients' = IF st.client > clients THEN st.client ELSE clients
    BY <1>5 DEF TakeStream, c, st
  <2>2. stream'[t] = st /\ \A u \in Tabs \ {t} : stream'[u] = stream[u]
    BY <1>2, <2>1
  <2>3. stream' \in [Tabs -> StreamDoc] /\ clients' \in 0 .. MaxClients /\ clients <= clients'
    BY <1>2, <1>3, <2>1 DEF Clients
  <2>4. stream[t].client \in Nat
    BY <1>2 DEF StreamDoc
  <2>5. CASE old.client # 0 /\ c.client = old.client /\ c.seq = old.seq
    BY <1>2, <1>3, <2>1, <2>2, <2>3, <2>4, <2>5 DEF c
  <2>6. CASE c.client = clients + 1 /\ c.seq = 0
    BY <1>2, <1>3, <2>1, <2>2, <2>3, <2>6 DEF c
  <2> QED BY <1>1, <2>5, <2>6
<1> QED BY <1>4, <1>5

\* Taking places keeps them apart.
LEMMA PlaceStep ==
    ASSUME XpShape, StreamsApart, Places, OnePlace,
           NEW t \in Tabs, NEW old \in StreamDoc, NEW k \in Nat,
           old.client = stream[t].client, old.seq = stream[t].seq,
           TakeStream(t, old, Advanced(Current(old), k)),
           NEW A \in SUBSET Unnamed, \A a, b \in A : a = b,
           \A a \in A : made[a] = 0 /\ made'[a] > 0,
           \A a \in Unnamed : made[a] > 0 => made'[a] > 0,
           \A op \in Around' : op \in Around \/ Fresh(op, Current(old), k, A) \/ Nameless(op)
    PROVE  StreamsApart' /\ Places' /\ OnePlace'
<1> DEFINE c == Current(old)
<1>1. /\ stream' \in [Tabs -> StreamDoc] /\ clients' \in 0 .. MaxClients /\ clients <= clients'
      /\ \A u \in Tabs \ {t} : stream'[u] = stream[u]
  BY StreamTaken
<1>2. \/ /\ k = 0 /\ clients' = clients
         /\ stream'[t].client = stream[t].client /\ stream'[t].seq = stream[t].seq
      \/ /\ stream[t].client # 0 /\ c.client = stream[t].client
         /\ c.seq = stream[t].seq
         /\ stream'[t].client = stream[t].client /\ stream'[t].seq = stream[t].seq + k
         /\ (stream[t].client <= clients => clients' = clients)
      \/ /\ c.client = clients + 1 /\ c.seq = 0
         /\ stream'[t].client = clients + 1 /\ stream'[t].seq = k /\ clients' = clients + 1
  BY StreamTaken
<1>3. /\ clients \in Nat /\ clients' \in Nat /\ c.client \in Nat /\ c.seq \in Nat /\ c.client # 0
      /\ \A u \in Tabs : /\ stream[u].client \in Nat /\ stream[u].seq \in Nat
                         /\ stream'[u].client \in Nat /\ stream'[u].seq \in Nat
  <2>1. c \in StreamDoc /\ c.client # 0
    BY CurrentIs
  <2> HIDE DEF c
  <2>2. \A u \in Tabs : stream[u] \in StreamDoc /\ stream'[u] \in StreamDoc
    BY <1>1 DEF XpShape
  <2>3. MaxClients \in Nat
    BY SizeAssumption
  <2>4. clients \in Nat /\ clients' \in Nat
    BY <1>1, <2>3 DEF XpShape
  <2>5. c.client \in Nat /\ c.seq \in Nat
    BY <2>1 DEF StreamDoc
  <2>6. \A u \in Tabs : /\ stream[u].client \in Nat /\ stream[u].seq \in Nat
                         /\ stream'[u].client \in Nat /\ stream'[u].seq \in Nat
    BY <2>2 DEF StreamDoc
  <2> QED BY <2>1, <2>4, <2>5, <2>6
<1> HIDE DEF c
<1>4. \A u \in Tabs : /\ stream[u].client <= clients
                      /\ \A v \in Tabs \ {u} : stream[v].client = stream[u].client => stream[u].client = 0
  BY DEF StreamsApart
<1>5. StreamsApart'
  <2>1. ASSUME NEW u \in Tabs PROVE stream'[u].client <= clients'
    BY <1>1, <1>2, <1>3, <1>4
  <2>2. ASSUME NEW u \in Tabs, NEW v \in Tabs \ {u}, stream'[v].client = stream'[u].client
        PROVE  stream'[u].client = 0
    <3>1. CASE u # t /\ v # t
      BY <1>1, <1>4, <2>2, <3>1
    <3>2. CASE u = t \/ v = t
      <4>1. PICK w \in Tabs \ {t} : stream'[t].client = stream[w].client
        BY <1>1, <2>2, <3>2
      <4>2. stream'[t].client = stream'[u].client
        BY <2>2, <3>2
      <4>3. stream[w].client <= clients /\ (stream[w].client = stream[t].client => stream[t].client = 0)
        BY <1>4, <4>1
      <4> QED BY <1>2, <1>3, <4>1, <4>2, <4>3
    <3> QED BY <3>1, <3>2
  <2> QED BY <2>1, <2>2 DEF StreamsApart
<1>6. \A op \in Around : /\ op.award \in Unnamed => InStream(op) /\ made[op.award] > 0
                         /\ op.client \in Nat /\ op.seq \in Nat /\ op \in OpDoc
                         /\ InStream(op) =>
                              /\ op.client <= clients
                              /\ \A u \in Tabs : stream[u].client = op.client => op.seq <= stream[u].seq
  <2>1. Around \subseteq OpDoc
    BY AroundDoc
  <2> QED BY <2>1 DEF Places, OpDoc
<1>7. ASSUME NEW op, Fresh(op, c, k, A)
      PROVE  /\ op.client = c.client /\ c.seq < op.seq /\ op.seq <= c.seq + k /\ op.seq \in Nat
             /\ InStream(op) /\ op \in OpDoc /\ k # 0
             /\ op.award \in Unnamed => op.award \in A /\ op.seq = c.seq + k
             /\ A # {} /\ op.seq = c.seq + k => op.award \in A
  BY <1>3, <1>7 DEF Fresh, NewPlace, InStream
\* A fresh place is nobody's.
<1>8. ASSUME NEW op \in Around, NEW o, Fresh(o, c, k, A), op.client = o.client
      PROVE  op.seq < o.seq
  <2>1. o.client = c.client /\ c.seq < o.seq /\ o.seq \in Nat /\ k # 0
    BY <1>7, <1>8
  <2>2. InStream(op) /\ op.client = c.client
    BY <1>3, <1>8, <2>1 DEF InStream
  <2>3. op.client <= clients /\ \A u \in Tabs : stream[u].client = op.client => op.seq <= stream[u].seq
    BY <1>6, <2>2
  <2>4. c.client = stream[t].client /\ c.seq = stream[t].seq
    BY <1>2, <1>3, <2>1, <2>2, <2>3
  <2>5. op.seq <= c.seq
    BY <2>2, <2>3, <2>4
  <2> QED BY <1>3, <1>6, <2>1, <2>5
<1>9. Places'
  <2>1. ASSUME NEW op \in Around'
        PROVE  /\ op.award \in Unnamed => InStream(op) /\ made'[op.award] > 0
               /\ InStream(op) =>
                    /\ op.client <= clients'
                    /\ \A u \in Tabs : stream'[u].client = op.client => op.seq <= stream'[u].seq
    <3>1. CASE op \in Around
      <4>1. ASSUME InStream(op), NEW u \in Tabs, stream'[u].client = op.client
            PROVE  op.seq <= stream'[u].seq
        <5>1. op.client <= clients /\ (stream[u].client = op.client => op.seq <= stream[u].seq)
          BY <1>6, <3>1, <4>1
        <5>2. CASE u # t
          BY <1>1, <4>1, <5>1, <5>2
        <5>3. CASE u = t
          BY <1>2, <1>3, <1>6, <3>1, <4>1, <5>1, <5>3
        <5> QED BY <5>2, <5>3
      <4>2. InStream(op) => op.client <= clients'
        BY <1>1, <1>3, <1>6, <3>1
      <4> QED BY <1>6, <3>1, <4>1, <4>2
    <3>2. CASE Fresh(op, c, k, A)
      <4>1. /\ op.client = c.client /\ c.seq < op.seq /\ op.seq <= c.seq + k /\ op.seq \in Nat
            /\ InStream(op) /\ k # 0
            /\ op.award \in Unnamed => op.award \in A
        BY <1>7, <3>2
      <4>2. op.client <= clients'
        BY <1>1, <1>2, <1>3, <1>4, <4>1
      <4>3. ASSUME NEW u \in Tabs, stream'[u].client = op.client PROVE op.seq <= stream'[u].seq
        <5>1. CASE u = t
          BY <1>2, <1>3, <4>1, <5>1
        <5>2. CASE u # t
          <6>1. stream[u].client <= clients /\ stream[u].client = c.client
                /\ (stream[u].client = stream[t].client => stream[t].client = 0)
            BY <1>1, <1>4, <4>1, <4>3, <5>2
          <6> QED BY <1>2, <1>3, <4>1, <6>1
        <5> QED BY <5>1, <5>2
      <4> QED BY <4>1, <4>2, <4>3
    <3>3. CASE Nameless(op)
      BY <3>3 DEF Nameless
    <3> QED BY <2>1, <3>1, <3>2, <3>3 DEF c
  <2> QED BY <2>1 DEF Places
<1>10. OnePlace'
  <2>1. ASSUME NEW op \in Around', NEW o \in Around', op.award \in Unnamed,
               o.award = op.award \/ (o.client = op.client /\ o.seq = op.seq)
        PROVE  o = op
    <3>1. CASE op \in Around /\ o \in Around
      BY <2>1, <3>1 DEF OnePlace
    <3>2. CASE Nameless(o)
      <4>1. InStream(op)
        BY <1>6, <1>7, <2>1 DEF Nameless, c
      <4> QED BY <2>1, <3>2, <4>1 DEF Nameless, InStream
    <3>3. CASE op \in Around /\ Fresh(o, c, k, A)
      <4>1. made[op.award] > 0 /\ op.seq \in Nat
        BY <1>6, <2>1, <3>3
      <4>2. o.award # op.award
        BY <1>7, <2>1, <3>3, <4>1
      <4>3. o.seq \in Nat
        BY <1>7, <3>3
      <4> QED BY <1>8, <2>1, <3>3, <4>1, <4>2, <4>3
    <3>4. CASE Fresh(op, c, k, A) /\ o \in Around
      <4>1. op.award \in A /\ made[op.award] = 0 /\ op.seq \in Nat
        BY <1>7, <2>1, <3>4
      <4>2. o.award # op.award /\ o.seq \in Nat
        BY <1>6, <2>1, <3>4, <4>1
      <4> QED BY <1>8, <2>1, <3>4, <4>1, <4>2
    <3>5. CASE Fresh(op, c, k, A) /\ Fresh(o, c, k, A)
      <4>1. op.award \in A /\ op.seq = c.seq + k /\ op.client = o.client /\ op \in OpDoc /\ o \in OpDoc
        BY <1>7, <2>1, <3>5
      <4>2. o.award \in A /\ o.seq = c.seq + k
        BY <1>7, <2>1, <3>5, <4>1
      <4>3. o.award = op.award
        BY <4>1, <4>2
      <4> QED BY <4>1, <4>2, <4>3 DEF OpDoc
    <3>6. ~ Nameless(op)
      BY <2>1 DEF Nameless
    <3> QED BY <2>1, <3>1, <3>2, <3>3, <3>4, <3>5, <3>6 DEF c
  <2> QED BY <2>1 DEF OnePlace
<1> QED BY <1>5, <1>9, <1>10

-----------------------------------------------------------------------------
(* What a tab has when it has synced.                                      *)

LEMMA SameAwards ==
    ASSUME NEW u \in Seq(OpDoc), NEW s \in Seq(OpDoc), DOMAIN u = DOMAIN s,
           \A i \in DOMAIN s : u[i].award = s[i].award
    PROVE  AwardsOf(u) = AwardsOf(s) /\ \A a \in Awards : Single(s, a) => Single(u, a)
<1>1. \A q \in Seq(OpDoc) : \A a : a \in AwardsOf(q) <=> \E i \in DOMAIN q : q[i].award = a
  BY DEF AwardsOf, Ops
<1>2. AwardsOf(u) = AwardsOf(s)
  BY <1>1
<1>3. \A a \in Awards : Single(s, a) => Single(u, a)
  BY DEF Single
<1> QED BY <1>2, <1>3

\* A named award takes a place of the stream.
Taken(op, st, k) == op \in OpDoc /\ NewPlace(op, st, k) /\ op.award \notin Unnamed

LEMMA UpgradedIs ==
    ASSUME XpShape, Places, NEW s \in Seq(OpDoc), Ops(s) \subseteq Around, NEW known \in Seq(OpDoc),
           NEW st \in StreamDoc, st.client # 0
    PROVE  LET u == Upgrade(s, known, st)
               n == Cardinality(Unplaced(s, known)) IN
           /\ n \in Nat /\ u \in Seq(OpDoc)
           /\ AwardsOf(u) = AwardsOf(s) /\ \A a \in Awards : Single(s, a) => Single(u, a)
           /\ \A op \in Ops(u) : InStream(op) /\ (op \in Ops(s) \/ op \in Ops(known) \/ Taken(op, st, n))
<1> DEFINE u == Upgrade(s, known, st)
           n == Cardinality(Unplaced(s, known))
<1>1. /\ n \in Nat
      /\ u \in Seq(OpDoc) /\ DOMAIN u = DOMAIN s
      /\ \A i \in DOMAIN s :
            /\ InStream(u[i]) /\ u[i].award = s[i].award
            /\ InStream(s[i]) => u[i] = s[i]
            /\ ~ InStream(s[i]) => u[i] \in Ops(known) \/ NewPlace(u[i], st, n)
  BY UpgradeIs
<1> HIDE DEF u, n
<1>2. AwardsOf(u) = AwardsOf(s) /\ \A a \in Awards : Single(s, a) => Single(u, a)
  BY <1>1, SameAwards
<1>3. ASSUME NEW op \in Ops(u)
      PROVE  InStream(op) /\ (op \in Ops(s) \/ op \in Ops(known) \/ Taken(op, st, n))
  <2>1. PICK i \in DOMAIN u : op = u[i] /\ op \in OpDoc
    BY <1>1, OpIn
  <2>2. i \in DOMAIN s /\ s[i] \in Ops(s) /\ s[i] \in Around
    BY <1>1, <2>1, OpIn
  <2>3. InStream(op) /\ op.award = s[i].award /\ (InStream(s[i]) => op = s[i])
        /\ (~ InStream(s[i]) => op \in Ops(known) \/ NewPlace(op, st, n))
    BY <1>1, <2>1, <2>2
  <2>4. ~ InStream(s[i]) => op.award \notin Unnamed
    BY <2>2, <2>3 DEF Places
  <2> QED BY <2>1, <2>2, <2>3, <2>4 DEF Taken
<1> QED BY <1>1, <1>2, <1>3 DEF u, n

LEMMA SyncedIs ==
    ASSUME XpShape, Places, NEW t \in Tabs
    PROVE  LET y == Synced(t)
               st == Current(stream[t]) IN
           \E k \in Nat :
              /\ y.next = Advanced(st, k)
              /\ y.stored \in Seq(OpDoc) /\ y.own \in Seq(OpDoc)
              /\ AwardsOf(y.stored) = AwardsOf(store.pending)
              /\ AwardsOf(y.own) = AwardsOf(mem[t].pending)
              /\ \A a \in Awards : /\ Single(store.pending, a) => Single(y.stored, a)
                                   /\ Single(mem[t].pending, a) => Single(y.own, a)
              /\ \A op \in Ops(y.stored) \cup Ops(y.own) :
                    InStream(op) /\ (op \in Around \/ Taken(op, st, k))
<1> DEFINE st == Current(stream[t])
           n == Cardinality(Unplaced(store.pending, <<>>))
           stored == Upgrade(store.pending, <<>>, st)
           st1 == Advanced(st, n)
           own == Upgrade(mem[t].pending, stored, st1)
           m == Cardinality(Unplaced(mem[t].pending, stored))
<1>1. st \in StreamDoc /\ st.client # 0
  <2>1. stream[t] \in StreamDoc
    BY DEF XpShape
  <2> QED BY <2>1, CurrentIs
<1>2. Synced(t).stored = stored /\ Synced(t).own = own /\ Synced(t).next = Advanced(st1, m)
  BY DEF Synced
<1>3. /\ store.pending \in Seq(OpDoc) /\ mem[t].pending \in Seq(OpDoc)
      /\ Ops(store.pending) \subseteq Around /\ Ops(mem[t].pending) \subseteq Around
      /\ <<>> \in Seq(OpDoc)
  BY AroundDoc, AroundIs
<1> HIDE DEF st
<1>4. /\ n \in Nat /\ stored \in Seq(OpDoc)
      /\ AwardsOf(stored) = AwardsOf(store.pending)
      /\ \A a \in Awards : Single(store.pending, a) => Single(stored, a)
      /\ \A op \in Ops(stored) : InStream(op) /\ (op \in Ops(store.pending) \/ op \in Ops(<<>>) \/ Taken(op, st, n))
  BY <1>1, <1>3, UpgradedIs
<1> HIDE DEF n, stored
<1>5. st1 \in StreamDoc /\ st1.client = st.client /\ st1.seq = st.seq + n /\ st.seq \in Nat
  BY <1>1, <1>4 DEF Advanced, StreamDoc
<1>6. Advanced(st1, m) = [st EXCEPT !.seq = st.seq + n + m]
  BY <1>1 DEF Advanced, StreamDoc
<1> HIDE DEF st1
<1>7. /\ m \in Nat /\ own \in Seq(OpDoc)
      /\ AwardsOf(own) = AwardsOf(mem[t].pending)
      /\ \A a \in Awards : Single(mem[t].pending, a) => Single(own, a)
      /\ \A op \in Ops(own) : InStream(op) /\ (op \in Ops(mem[t].pending) \/ op \in Ops(stored) \/ Taken(op, st1, m))
  BY <1>1, <1>3, <1>4, <1>5, UpgradedIs
<1> HIDE DEF own, m
<1>8. n + m \in Nat /\ Advanced(st1, m) = Advanced(st, n + m)
  <2>1. st.seq + n + m = st.seq + (n + m)
    BY <1>4, <1>5, <1>7
  <2> QED BY <1>4, <1>6, <1>7, <2>1 DEF Advanced
<1>9. \A op : Taken(op, st, n) => Taken(op, st, n + m)
  BY <1>4, <1>5, <1>7 DEF Taken, NewPlace
<1>10. \A op : Taken(op, st1, m) => Taken(op, st, n + m)
  BY <1>4, <1>5, <1>7 DEF Taken, NewPlace
<1>11. \A op \in Ops(stored) : InStream(op) /\ (op \in Around \/ Taken(op, st, n + m))
  BY <1>3, <1>4, <1>9, OpsOfEmpty
<1>12. \A op \in Ops(own) : InStream(op) /\ (op \in Around \/ Taken(op, st, n + m))
  BY <1>3, <1>7, <1>10, <1>11
<1> QED BY <1>2, <1>4, <1>7, <1>8, <1>11, <1>12 DEF st

-----------------------------------------------------------------------------
(* The queue of a tab's saves.                                             *)

\* A queue with nothing new: no request, and no answer.
Fewer(q, s) ==
    /\ q \in Seq(SaveDoc) /\ (s = <<>> => q = <<>>)
    /\ \A i \in DOMAIN q : \E j \in DOMAIN s : /\ q[i].req = s[j].req
                                               /\ q[i].live => s[j].live
                                               /\ q[i].answer \subseteq s[j].answer

LEMMA TailFewer ==
    ASSUME NEW s \in Seq(SaveDoc), s # <<>>
    PROVE  Fewer(Tail(s), s) /\ Len(Tail(s)) = Len(s) - 1 /\ \A i \in DOMAIN Tail(s) : i + 1 \in DOMAIN s /\ Tail(s)[i] = s[i + 1]
<1>1. Tail(s) \in Seq(SaveDoc) /\ Len(Tail(s)) = Len(s) - 1
  OBVIOUS
<1>2. \A i \in DOMAIN Tail(s) : i + 1 \in DOMAIN s /\ Tail(s)[i] = s[i + 1]
  OBVIOUS
<1>3. ASSUME NEW i \in DOMAIN Tail(s)
      PROVE  \E j \in DOMAIN s : /\ Tail(s)[i].req = s[j].req
                                 /\ Tail(s)[i].live => s[j].live
                                 /\ Tail(s)[i].answer \subseteq s[j].answer
  <2> WITNESS i + 1 \in DOMAIN s
  <2> QED BY <1>2
<1> QED BY <1>1, <1>2, <1>3 DEF Fewer

LEMMA DisownedFewer ==
    ASSUME NEW s \in Seq(SaveDoc)
    PROVE  /\ Fewer(Disowned(s), s) /\ DOMAIN Disowned(s) = DOMAIN s
           /\ \A i \in DOMAIN s : ~ Disowned(s)[i].live
<1> DEFINE q == Disowned(s)
<1>1. /\ DOMAIN q = DOMAIN s
      /\ \A i \in DOMAIN s : s[i] \in SaveDoc /\ q[i] = [s[i] EXCEPT !.live = FALSE]
  BY OpIn DEF Disowned
<1>2. \A i \in DOMAIN s : /\ q[i] \in SaveDoc /\ ~ q[i].live /\ q[i].req = s[i].req
                          /\ q[i].answer = s[i].answer
  BY <1>1 DEF SaveDoc
<1>3. q \in Seq(SaveDoc) /\ (s = <<>> => q = <<>>)
  <2>1. q = [i \in 1 .. Len(s) |-> [s[i] EXCEPT !.live = FALSE]] /\ Len(s) \in Nat
    BY OpIn DEF Disowned
  <2>2. q = [i \in 1 .. Len(s) |-> q[i]] /\ \A i \in 1 .. Len(s) : q[i] \in SaveDoc
    BY <1>2, <2>1, OpIn
  <2> HIDE DEF q
  <2>3. q \in Seq(SaveDoc)
    BY <2>1, <2>2
  <2>4. DOMAIN q = 1 .. Len(q)
    BY <2>3
  <2>5. s = <<>> => q = <<>>
    BY <1>1, <2>3
  <2> QED BY <2>3, <2>5
<1> HIDE DEF q
<1>4. \A i \in DOMAIN q : \E j \in DOMAIN s : /\ q[i].req = s[j].req
                                              /\ q[i].live => s[j].live
                                              /\ q[i].answer \subseteq s[j].answer
  BY <1>1, <1>2
<1> QED BY <1>1, <1>2, <1>3, <1>4 DEF Fewer, q

LEMMA FewerTwice ==
    ASSUME NEW q, NEW r, NEW s, Fewer(q, r), Fewer(r, s)
    PROVE  Fewer(q, s)
<1>1. ASSUME NEW i \in DOMAIN q
      PROVE  \E j \in DOMAIN s : /\ q[i].req = s[j].req
                                 /\ q[i].live => s[j].live
                                 /\ q[i].answer \subseteq s[j].answer
  <2>1. PICK k \in DOMAIN r : /\ q[i].req = r[k].req
                              /\ q[i].live => r[k].live
                              /\ q[i].answer \subseteq r[k].answer
    BY DEF Fewer
  <2>2. PICK j \in DOMAIN s : /\ r[k].req = s[j].req
                              /\ r[k].live => s[j].live
                              /\ r[k].answer \subseteq s[j].answer
    BY DEF Fewer
  <2> QED BY <2>1, <2>2
<1>2. q \in Seq(SaveDoc) /\ (s = <<>> => q = <<>>)
  BY DEF Fewer
<1> QED BY <1>1, <1>2 DEF Fewer

\* The answer of the head is dropped.
LEMMA UnansweredFewer ==
    ASSUME NEW s \in Seq(SaveDoc), s # <<>>
    PROVE  LET q == [s EXCEPT ![1].answer = {}] IN
           /\ Fewer(q, s) /\ DOMAIN q = DOMAIN s
           /\ \A i \in DOMAIN s : q[i].live = s[i].live /\ q[i].req = s[i].req
<1> DEFINE q == [s EXCEPT ![1].answer = {}]
<1>1. /\ 1 \in DOMAIN s /\ \A i \in DOMAIN s : s[i] \in SaveDoc
  BY OpIn
<1>2. /\ DOMAIN q = DOMAIN s
      /\ \A i \in DOMAIN s : q[i] = IF i = 1 THEN [s[1] EXCEPT !.answer = {}] ELSE s[i]
  OBVIOUS
<1>3. [s[1] EXCEPT !.answer = {}] \in SaveDoc
  BY <1>1 DEF SaveDoc
<1>4. \A i \in DOMAIN s : /\ q[i] \in SaveDoc /\ q[i].live = s[i].live /\ q[i].req = s[i].req
                          /\ q[i].answer \subseteq s[i].answer
  <2> SUFFICES ASSUME NEW i \in DOMAIN s
               PROVE  /\ q[i] \in SaveDoc /\ q[i].live = s[i].live /\ q[i].req = s[i].req
                      /\ q[i].answer \subseteq s[i].answer
    OBVIOUS
  <2>1. CASE i = 1
    <3>1. q[i] = [s[1] EXCEPT !.answer = {}]
      BY <1>2, <2>1
    <3> HIDE DEF q
    <3> QED BY <1>1, <1>3, <2>1, <3>1 DEF SaveDoc
  <2>2. CASE i # 1
    BY <1>1, <1>2, <2>2
  <2> QED BY <2>1, <2>2
<1>5. q \in Seq(SaveDoc)
  BY <1>1, <1>3
<1> HIDE DEF q
<1>6. Fewer(q, s)
  BY <1>2, <1>4, <1>5 DEF Fewer
<1> QED BY <1>2, <1>4, <1>6 DEF q

LEMMA FailedFewer ==
    ASSUME XpShape, NEW t \in Tabs, saves[t] # <<>>
    PROVE  Fewer(Failed(t), saves[t])
<1>1. saves[t] \in Seq(SaveDoc)
  BY DEF XpShape
<1> QED BY <1>1, TailFewer, UnansweredFewer DEF Failed

\* With nothing new in one queue, and nothing but known requests let go,
\* no request is new.
LEMMA RequestsKept ==
    ASSUME XpShape, NEW t \in Tabs, NEW q, Fewer(q, saves[t]), saves' = [saves EXCEPT ![t] = q],
           late' \subseteq Requests
    PROVE  /\ saves' \in [Tabs -> Seq(SaveDoc)] /\ late' \subseteq Request
           /\ Requests' \subseteq Requests
           /\ (\A u \in Tabs : \A i \in DOMAIN saves[u] : saves[u][i].answer = {}) =>
                 \A u \in Tabs : \A i \in DOMAIN saves'[u] : saves'[u][i].answer = {}
<1>1. /\ saves \in [Tabs -> Seq(SaveDoc)] /\ q \in Seq(SaveDoc)
      /\ saves'[t] = q /\ \A u \in Tabs \ {t} : saves'[u] = saves[u]
      /\ saves' \in [Tabs -> Seq(SaveDoc)]
  BY DEF XpShape, Fewer
<1>2. ASSUME NEW u \in Tabs, NEW i \in DOMAIN saves'[u]
      PROVE  \E j \in DOMAIN saves[u] : /\ saves'[u][i].req = saves[u][j].req
                                        /\ saves'[u][i].answer \subseteq saves[u][j].answer
  <2>1. CASE u = t
    BY <1>1, <2>1 DEF Fewer
  <2>2. CASE u # t
    BY <1>1, <2>2
  <2> QED BY <2>1, <2>2
<1>3. Requests' \subseteq Requests
  BY <1>2, RequestsAre, RequestsAreNext
<1>4. ASSUME \A u \in Tabs : \A i \in DOMAIN saves[u] : saves[u][i].answer = {},
             NEW u \in Tabs, NEW i \in DOMAIN saves'[u]
      PROVE  saves'[u][i].answer = {}
  BY <1>2, <1>4
<1>5. late' \subseteq Request
  BY RequestShape
<1> QED BY <1>1, <1>3, <1>4, <1>5

-----------------------------------------------------------------------------
(* A save.                                                                 *)

LEMMA InsideAround ==
    ASSUME XpShape, Places
    PROVE  \A op \in Around : op \in OpDoc /\ Inside(op) /\ op.client \in Nat /\ op.seq \in Nat
<1>1. Around \subseteq OpDoc
  BY AroundDoc
<1>2. \A op \in Around : op.client \in Nat /\ op.seq \in Nat /\ op.award \in Awards
  BY <1>1 DEF OpDoc
<1>3. clients \in 0 .. MaxClients /\ MaxClients \in Nat
  BY SizeAssumption DEF XpShape
<1>4. \A op \in Around : InStream(op) => op.client \in Clients
  BY <1>2, <1>3 DEF Places, InStream, Clients
<1> QED BY <1>1, <1>2, <1>4 DEF Inside

\* What the transaction makes of a request.
Acceptable(o, req) ==
    /\ o.points \in Points /\ o.mark \in Marks /\ o.acked \in Seq(OpDoc)
    /\ Ops(o.acked) \subseteq Ops(req.pending)
    /\ \A op \in Ops(o.acked) : InStream(op) => op.client \in Clients /\ op.seq <= o.mark[op.client]
    /\ \A c \in Clients : stats.mark[c] <= o.mark[c]
    /\ \A a \in Unnamed : /\ o.points[a] \in {0, 1} /\ stats.points[a] <= o.points[a]
                          /\ o.points[a] = 1 => made[a] = 1
    /\ \A op \in Around : op.award \in Unnamed /\ op.seq > o.mark[op.client] => o.points[op.award] = 0

LEMMA OutcomeNew ==
    ASSUME XpInv, NEW req \in Requests, ~ stats.exists
    PROVE  Acceptable(Outcome(req), req)
<1> DEFINE o == Outcome(req)
           s == req.pending
<1>1. /\ s \in Seq(OpDoc) /\ Ops(s) \subseteq Around /\ req.points \in Points
      /\ \A op \in Around : op \in OpDoc /\ Inside(op) /\ op.client \in Nat /\ op.seq \in Nat
  BY AroundDoc, AroundIs, InsideAround DEF XpInv
<1>2. /\ o.points = req.points /\ o.acked = Bootstrapped(s)
      /\ o.mark = [c \in Clients |-> LastPlace(s, c)]
  BY DEF Outcome
<1> HIDE DEF s
<1>3. \A c \in Clients : /\ LastPlace(s, c) \in Nat
                         /\ \A op \in Ops(s) : op.client = c => op.seq <= LastPlace(s, c)
  <2>1. \A c \in Clients : c \in Nat
    BY DEF Clients
  <2> QED BY <1>1, <2>1, LastPlaceIs
<1> HIDE DEF o
<1>4. o.mark \in Marks /\ \A c \in Clients : o.mark[c] = LastPlace(s, c)
  BY <1>2, <1>3 DEF Marks
<1>5. o.acked \in Seq(OpDoc) /\ Ops(o.acked) = Ops(s)
  BY <1>1, <1>2, BootstrappedOps
<1>6. stats.points = None /\ stats.mark = NoMarks /\ Counted(req)
  BY DEF XpInv, Unborn
<1>7. \A c \in Clients : stats.mark[c] <= o.mark[c]
  BY <1>3, <1>4, <1>6 DEF NoMarks
<1>8. \A a \in Unnamed : o.points[a] = IF a \in AwardsOf(s) THEN 1 ELSE 0
  BY <1>2, <1>6 DEF Counted, s
<1>9. \A a \in Unnamed : a \in AwardsOf(s) => made[a] = 1
  BY <1>1 DEF XpInv, Places, Credits, AwardsOf
<1>10. \A a \in Unnamed : /\ o.points[a] \in {0, 1} /\ stats.points[a] <= o.points[a]
                          /\ o.points[a] = 1 => made[a] = 1
  <2>1. \A a \in Unnamed : stats.points[a] = 0
    BY <1>6 DEF None, Unnamed
  <2> QED BY <1>8, <1>9, <2>1
<1>11. ASSUME NEW op \in Around, op.award \in Unnamed, op.seq > o.mark[op.client]
       PROVE  o.points[op.award] = 0
  <2>1. InStream(op)
    BY <1>11 DEF XpInv, Places
  <2>2. op.client \in Clients /\ op.seq \in Nat
    BY <1>1, <2>1 DEF Inside
  <2>3. op \notin Ops(s)
    BY <1>3, <1>4, <1>11, <2>2
  <2>4. op.award \notin AwardsOf(s)
    BY <1>1, <1>11, <2>3 DEF AwardsOf, XpInv, OnePlace
  <2> QED BY <1>8, <1>11, <2>4
<1>12. \A op \in Ops(o.acked) : InStream(op) => op.client \in Clients /\ op.seq <= o.mark[op.client]
  BY <1>1, <1>3, <1>4, <1>5 DEF Inside
<1>13. o.points \in Points
  BY <1>1, <1>2
<1> QED BY <1>4, <1>5, <1>7, <1>10, <1>11, <1>12, <1>13 DEF Acceptable, o, s

LEMMA OutcomeJudged ==
    ASSUME XpInv, NEW req \in Requests, stats.exists
    PROVE  LET k == Classified(req) IN
           /\ Judged(k, req.ops, Len(req.ops)) /\ k \in AccDoc
           /\ Outcome(req).points = Plus(stats.points, k.fresh) /\ Outcome(req).mark = k.mark
           /\ Outcome(req).acked = k.acked
           /\ Ops(k.acked) \subseteq Ops(req.ops) /\ Ops(k.fresh) \subseteq Ops(k.acked)
           /\ Ops(req.ops) \subseteq Ops(req.pending)
           /\ \A a \in Unnamed : Single(k.fresh, a)
<1> DEFINE k == Classified(req)
<1>1. req.pending \in Seq(OpDoc) /\ req.ops \in Seq(OpDoc) /\ req.ops = FirstOps(req.pending)
      /\ \A op \in Ops(req.pending) : op \in Around
  BY AroundDoc, AroundIs DEF XpInv, ReqShape
<1>2. Ops(req.ops) \subseteq Ops(req.pending)
  BY <1>1, FirstOpsIs
<1>3. \A op \in Ops(req.ops) : Inside(op)
  BY <1>1, <1>2, InsideAround DEF XpInv
<1>4. stats.mark \in Marks
  BY DEF XpInv, XpShape
<1>5. Judged(k, req.ops, Len(req.ops))
  BY <1>1, <1>3, <1>4, ClassifiedJudged
<1>6. /\ Outcome(req).points = Plus(stats.points, k.fresh) /\ Outcome(req).mark = k.mark
      /\ Outcome(req).acked = k.acked
  BY DEF Outcome
<1> HIDE DEF k
<1>7. First(req.ops, Len(req.ops)) = Ops(req.ops)
  BY <1>1, OpIn DEF First, Ops
<1>8. Ops(k.acked) \subseteq Ops(req.ops) /\ Ops(k.fresh) \subseteq Ops(k.acked) /\ k \in AccDoc
  BY <1>5, <1>7 DEF Judged, AccKept
<1>9. ASSUME NEW a \in Unnamed PROVE Single(k.fresh, a)
  <2>1. ASSUME NEW i \in DOMAIN req.ops, NEW j \in DOMAIN req.ops,
               req.ops[i].award = a, req.ops[j].award = a
        PROVE  InStream(req.ops[i]) /\ req.ops[i] = req.ops[j]
    <3>1. req.ops[i] \in Around /\ req.ops[j] \in Around
      BY <1>1, <1>2, OpIn
    <3> QED BY <2>1, <3>1 DEF XpInv, Places, OnePlace
  <2>2. OneOf(req.ops, a)
    BY <2>1 DEF OneOf
  <2> QED BY <1>5, <2>2 DEF Judged, Unnamed
<1> QED BY <1>2, <1>5, <1>6, <1>8, <1>9 DEF k

LEMMA OutcomeOld ==
    ASSUME XpInv, NEW req \in Requests, stats.exists
    PROVE  Acceptable(Outcome(req), req)
<1> DEFINE o == Outcome(req)
           k == Classified(req)
<1>1. /\ k \in AccDoc
      /\ o.points = Plus(stats.points, k.fresh) /\ o.mark = k.mark /\ o.acked = k.acked
      /\ Ops(k.acked) \subseteq Ops(req.pending) /\ Ops(k.fresh) \subseteq Ops(k.acked)
      /\ \A a \in Unnamed : Single(k.fresh, a)
      /\ AccKept(k)
  BY OutcomeJudged DEF Judged
<1> HIDE DEF o, k
<1>2. /\ k.mark \in Marks /\ k.acked \in Seq(OpDoc) /\ k.fresh \in Seq(OpDoc)
      /\ stats.points \in Points /\ stats.mark \in Marks
  BY <1>1 DEF AccDoc, XpInv, XpShape
<1>3. /\ o.points \in Points
      /\ \A a \in Awards : a \notin AwardsOf(k.fresh) => o.points[a] = stats.points[a]
      /\ \A a \in Unnamed : a \in AwardsOf(k.fresh) => o.points[a] = stats.points[a] + 1
  BY <1>1, <1>2, PlusIs DEF Unnamed
<1>4. \A op \in Around : Inside(op) /\ op.client \in Nat /\ op.seq \in Nat
  BY InsideAround DEF XpInv
<1>5. Ops(k.acked) \subseteq Around
  BY <1>1, AroundIs
<1>6. \A op \in Ops(k.acked) : InStream(op) => op.client \in Clients /\ op.seq <= k.mark[op.client]
  BY <1>1 DEF AccKept, Inside
<1>7. ASSUME NEW op \in Ops(k.fresh), op.award \in Unnamed
      PROVE  /\ stats.points[op.award] = 0 /\ made[op.award] = 1
             /\ InStream(op) /\ op \in Around /\ op.client \in Clients /\ op.seq <= k.mark[op.client]
  <2>1. op \in Around /\ op \in Ops(k.acked)
    BY <1>1, <1>5
  <2>2. InStream(op) /\ made[op.award] > 0
    BY <1>7, <2>1 DEF XpInv, Places
  <2>3. stats.mark[op.client] < op.seq
    BY <1>1, <2>2 DEF AccKept
  <2>4. op.client \in Clients /\ op.seq <= k.mark[op.client]
    BY <1>6, <2>1, <2>2
  <2>5. stats.points[op.award] = 0
    BY <1>2, <1>4, <1>7, <2>1, <2>3, <2>4 DEF XpInv, Uncredited, Marks
  <2>6. made[op.award] = 1
    BY <1>7, <2>2 DEF XpInv, Credits
  <2> QED BY <2>1, <2>2, <2>4, <2>5, <2>6
<1>8. \A a \in Unnamed : /\ o.points[a] \in {0, 1} /\ stats.points[a] <= o.points[a]
                         /\ o.points[a] = 1 => made[a] = 1
  <2> SUFFICES ASSUME NEW a \in Unnamed
               PROVE  /\ o.points[a] \in {0, 1} /\ stats.points[a] <= o.points[a]
                      /\ o.points[a] = 1 => made[a] = 1
    OBVIOUS
  <2>1. CASE a \in AwardsOf(k.fresh)
    <3>1. PICK op \in Ops(k.fresh) : op.award = a
      BY <2>1 DEF AwardsOf
    <3>2. stats.points[a] = 0 /\ made[a] = 1
      BY <1>7, <3>1
    <3> QED BY <1>3, <2>1, <3>2
  <2>2. CASE a \notin AwardsOf(k.fresh)
    <3>1. o.points[a] = stats.points[a]
      BY <1>3, <2>2 DEF Unnamed
    <3> QED BY <3>1 DEF XpInv, Credits
  <2> QED BY <2>1, <2>2
<1>9. ASSUME NEW op \in Around, op.award \in Unnamed, op.seq > o.mark[op.client]
      PROVE  o.points[op.award] = 0
  <2>1. InStream(op)
    BY <1>9 DEF XpInv, Places
  <2>2. op.client \in Clients /\ op.seq \in Nat
    BY <1>4, <2>1 DEF Inside
  <2>3. /\ stats.mark[op.client] \in Nat /\ k.mark[op.client] \in Nat
        /\ stats.mark[op.client] <= k.mark[op.client]
    BY <1>1, <1>2, <2>2 DEF AccKept, Marks
  <2>4. stats.points[op.award] = 0
    BY <1>1, <1>9, <2>2, <2>3 DEF XpInv, Uncredited
  <2>5. op.award \notin AwardsOf(k.fresh)
    <3> SUFFICES ASSUME NEW p \in Ops(k.fresh), p.award = op.award PROVE FALSE
      BY DEF AwardsOf
    <3>1. p \in Around /\ p.seq <= k.mark[p.client]
      BY <1>7, <1>9
    <3>2. p = op
      BY <1>9, <3>1 DEF XpInv, OnePlace
    <3> QED BY <1>1, <1>9, <2>2, <2>3, <3>1, <3>2
  <2>6. op.award \in Awards
    BY <1>9 DEF Unnamed
  <2> QED BY <1>3, <2>4, <2>5, <2>6
<1>10. \A c \in Clients : stats.mark[c] <= o.mark[c]
  BY <1>1 DEF AccKept
<1> QED BY <1>1, <1>2, <1>3, <1>6, <1>8, <1>9, <1>10 DEF Acceptable, o

LEMMA SavedIs ==
    ASSUME XpInv, NEW req \in Requests
    PROVE  /\ Acceptable(Outcome(req), req)
           /\ Saved(req) \in [exists : BOOLEAN, points : Points, mark : Marks, ledger : Seq(OpDoc)]
           /\ Saved(req).exists /\ Saved(req).points = Outcome(req).points
           /\ Saved(req).mark = Outcome(req).mark
           /\ Ops(Saved(req).ledger) \subseteq Ops(stats.ledger) \cup Ops(Outcome(req).acked)
           /\ Answer(req) \in AnswerDoc
           /\ Answer(req).acked = Ops(Outcome(req).acked) /\ Answer(req).ids = Ops(Saved(req).ledger)
           /\ Answer(req).mark \in Marks
           /\ \A c \in Clients : Answer(req).mark[c] <= Outcome(req).mark[c]
<1> DEFINE o == Outcome(req)
           l == Recent(o.acked)
           m == Answer(req).mark
<1>1. Acceptable(o, req)
  BY OutcomeNew, OutcomeOld
<1>2. o.points \in Points /\ o.mark \in Marks /\ o.acked \in Seq(OpDoc)
  BY <1>1 DEF Acceptable
<1> HIDE DEF o
<1>3. stats.ledger \in Seq(OpDoc)
  BY DEF XpInv, XpShape
<1>4. l \in Seq(OpDoc) /\ Ops(l) \subseteq Ops(stats.ledger) \cup Ops(o.acked)
  BY <1>2, <1>3, RecentOps
<1>5. Saved(req) = [exists |-> TRUE, points |-> o.points, mark |-> o.mark, ledger |-> l]
  BY DEF Saved, o
<1> HIDE DEF l
<1>6. PICK asked : m = [c \in Clients |-> IF c \in asked THEN o.mark[c] ELSE 0]
  BY DEF Answer, o
<1>7. m \in Marks /\ \A c \in Clients : m[c] <= o.mark[c]
  BY <1>2, <1>6 DEF Marks
<1>8. /\ Answer(req).points = o.points /\ Answer(req).acked = Ops(o.acked)
      /\ Answer(req).ids = Ops(Saved(req).ledger) /\ DOMAIN Answer(req) = {"points", "acked", "ids", "mark"}
      /\ Answer(req) = [points |-> o.points, acked |-> Ops(o.acked), ids |-> Ops(Saved(req).ledger), mark |-> m]
  BY DEF Answer, o
<1>9. Saved(req).ledger = l /\ Ops(l) \subseteq OpDoc /\ Ops(o.acked) \subseteq OpDoc
  BY <1>2, <1>4, <1>5, OpsIn
<1> HIDE DEF m
<1>10. Answer(req) \in AnswerDoc
  BY <1>2, <1>7, <1>8, <1>9 DEF AnswerDoc
<1> QED BY <1>1, <1>2, <1>4, <1>5, <1>7, <1>8, <1>9, <1>10 DEF o, m

-----------------------------------------------------------------------------
(* One lemma for each action.                                              *)

LEMMA CalmPlaces ==
    ASSUME StreamsApart, Places, OnePlace,
           UNCHANGED <<stream, clients, made>>, Around' \subseteq Around
    PROVE  StreamsApart' /\ Places' /\ OnePlace'
<1>1. StreamsApart'
  BY DEF StreamsApart
<1>2. Places'
  BY DEF Places
<1>3. OnePlace'
  BY DEF OnePlace
<1> QED BY <1>1, <1>2, <1>3

LEMMA CalmCredits ==
    ASSUME Credits, Uncredited, UNCHANGED stats,
           \A a \in Unnamed : made'[a] \in {0, 1} /\ made[a] <= made'[a],
           \A op \in Around' : op.award \in Unnamed => op \in Around \/ stats.points[op.award] = 0
    PROVE  Credits' /\ Uncredited'
<1>1. Credits'
  BY DEF Credits
<1>2. Uncredited'
  BY DEF Uncredited
<1> QED BY <1>1, <1>2

\* The account stays what it is.
LEMMA CalmStep ==
    ASSUME XpInv, UNCHANGED <<stats, stream, clients, made>>, Around' \subseteq Around
    PROVE  StreamsApart' /\ Places' /\ OnePlace' /\ Credits' /\ Uncredited'
<1>1. StreamsApart' /\ Places' /\ OnePlace'
  BY CalmPlaces DEF XpInv
<1>2. \A a \in Unnamed : made'[a] \in {0, 1} /\ made[a] <= made'[a]
  BY DEF XpInv, Credits
<1>3. Credits' /\ Uncredited'
  BY <1>2, CalmCredits DEF XpInv
<1> QED BY <1>1, <1>3

LEMMA FewerReqs ==
    ASSUME ReqShape, Requests' \subseteq Requests
    PROVE  ReqShape'
BY DEF ReqShape

LEMMA QueueTyped ==
    ASSUME XpInv
    PROVE  /\ \A t \in Tabs : saves[t] \in Seq(SaveDoc)
           /\ \A t \in Tabs : load[t].pc # "done" => saves[t] = <<>> /\ ~ due[t]
           /\ \A t \in Tabs : load[t].pc = "done" <=> load[t] = Done
           /\ stats.exists \in BOOLEAN /\ stats.mark \in Marks /\ stats.points \in Points
           /\ stats.ledger \in Seq(OpDoc)
<1>1. \A t \in Tabs : saves[t] \in Seq(SaveDoc)
  BY DEF XpInv, XpShape
<1>2. \A t \in Tabs : load[t].pc # "done" => saves[t] = <<>> /\ ~ due[t]
  BY DEF XpInv, LoadShape
<1>3. \A t \in Tabs : load[t].pc = "done" <=> load[t] = Done
  BY DEF XpInv, LoadShape, Done
<1>4. /\ stats.exists \in BOOLEAN /\ stats.mark \in Marks /\ stats.points \in Points
      /\ stats.ledger \in Seq(OpDoc)
  BY DEF XpInv, XpShape
<1> QED BY <1>1, <1>2, <1>3, <1>4

\* After an award or an acknowledgement.
LEMMA Restarted ==
    ASSUME XpInv, NEW t \in Tabs, NEW q, Fewer(q, saves[t]), Restart(t, q), late' = late,
           UNCHANGED load
    PROVE  /\ saves' \in [Tabs -> Seq(SaveDoc)] /\ Requests' \subseteq Requests /\ late' \subseteq Request
           /\ LoadShape' /\ saves' = [saves EXCEPT ![t] = Disowned(q)]
           /\ Fewer(Disowned(q), saves[t])
           /\ due' = [due EXCEPT ![t] = load[t] = Done]
           /\ (\A u \in Tabs : \A i \in DOMAIN saves[u] : saves[u][i].answer = {}) =>
                 \A u \in Tabs : \A i \in DOMAIN saves'[u] : saves'[u][i].answer = {}
<1>1. saves' = [saves EXCEPT ![t] = Disowned(q)] /\ due' = [due EXCEPT ![t] = load[t] = Done]
  BY DEF Restart
<1>2. q \in Seq(SaveDoc)
  BY DEF Fewer
<1>3. Fewer(Disowned(q), q)
  BY <1>2, DisownedFewer
<1>4. Fewer(Disowned(q), saves[t])
  BY <1>3, FewerTwice
<1>5. late' \subseteq Requests
  BY RequestsAre
<1>6. /\ saves' \in [Tabs -> Seq(SaveDoc)] /\ Requests' \subseteq Requests /\ late' \subseteq Request
      /\ (\A u \in Tabs : \A i \in DOMAIN saves[u] : saves[u][i].answer = {}) =>
            \A u \in Tabs : \A i \in DOMAIN saves'[u] : saves'[u][i].answer = {}
  BY <1>1, <1>4, <1>5, RequestsKept DEF XpInv
<1>7. LoadShape'
  <2>1. due \in [Tabs -> BOOLEAN] /\ saves \in [Tabs -> Seq(SaveDoc)]
    BY DEF XpInv, LoadShape, XpShape
  <2>2. due' \in [Tabs -> BOOLEAN]
    BY <1>1, <2>1
  <2>3. ASSUME NEW u \in Tabs, load[u].pc # "done" PROVE saves'[u] = <<>> /\ ~ due'[u]
    <3>1. saves[u] = <<>> /\ ~ due[u] /\ load[u] # Done
      BY <2>3, QueueTyped
    <3>2. CASE u = t
      <4>1. Disowned(q) = <<>>
        BY <1>4, <3>1, <3>2 DEF Fewer
      <4> QED BY <1>1, <2>1, <3>1, <3>2, <4>1
    <3>3. CASE u # t
      BY <1>1, <2>1, <3>1, <3>3
    <3> QED BY <3>2, <3>3
  <2> QED BY <2>2, <2>3 DEF XpInv, LoadShape
<1> QED BY <1>1, <1>4, <1>6, <1>7

\* A list that two synced ones merge into, and its points.
LEMMA MergedCounted ==
    ASSUME NEW own \in Seq(OpDoc), NEW stored \in Seq(OpDoc), NEW points \in Points,
           \A op \in Ops(own), o \in Ops(stored) : op.award \in Unnamed /\ o.award = op.award => o = op,
           \A a \in Unnamed : /\ Single(own, a) /\ Single(stored, a)
                              /\ points[a] = IF a \in AwardsOf(own) THEN 1 ELSE 0
    PROVE  LET mine == MergeOps(own, <<>>, {})
               pending == MergeOps(mine, stored, {})
               others == Keep(pending, Ops(pending) \ Ops(mine)) IN
           \A a \in Unnamed : /\ Single(pending, a)
                              /\ AwardsOf(pending) = AwardsOf(own) \cup AwardsOf(stored)
                              /\ Plus(points, others)[a] = IF a \in AwardsOf(pending) THEN 1 ELSE 0
<1> DEFINE mine == MergeOps(own, <<>>, {})
           pending == MergeOps(mine, stored, {})
           others == Keep(pending, Ops(pending) \ Ops(mine))
<1> DEFINE none == <<>>
<1>0. none \in Seq(OpDoc) /\ Ops(none) = {} /\ \A a : Single(none, a)
  BY OpsOfEmpty DEF Single
<1>9. mine = MergeOps(own, none, {})
  OBVIOUS
<1> HIDE DEF none, mine
<1>1. mine \in Seq(OpDoc) /\ Ops(mine) = Ops(own)
  <2>1. \A op : ~ Listed(op, {})
    BY DEF Listed
  <2>2. mine \in Seq(OpDoc) /\ Ops(mine) = {op \in Ops(own) \cup Ops(none) : ~ Listed(op, {})}
    BY <1>0, <1>9, MergedOps
  <2> QED BY <1>0, <2>1, <2>2
<1>2. \A a \in Unnamed : Single(mine, a)
  BY <1>0, <1>9, MergedSingle
<1>3. pending \in Seq(OpDoc) /\ Ops(pending) = Ops(own) \cup Ops(stored)
  <2>1. \A op : ~ Listed(op, {})
    BY DEF Listed
  <2>2. pending \in Seq(OpDoc) /\ Ops(pending) = {op \in Ops(mine) \cup Ops(stored) : ~ Listed(op, {})}
    BY <1>1, MergedOps
  <2> QED BY <1>1, <2>1, <2>2
<1>4. ASSUME NEW a \in Unnamed PROVE Single(pending, a)
  <2>1. \A op \in Ops(mine), o \in Ops(stored) : op.award = a /\ o.award = a => o = op
    BY <1>1
  <2>2. Single(mine, a) /\ Single(stored, a)
    BY <1>2
  <2> QED BY <1>1, <2>1, <2>2, MergedSingle
<1> HIDE DEF pending
<1>5. others \in Seq(OpDoc) /\ Ops(others) = Ops(stored) \ Ops(own)
  <2>1. others \in Seq(OpDoc) /\ Ops(others) = Ops(pending) \cap (Ops(pending) \ Ops(mine))
    BY <1>3, KeepOps
  <2> QED BY <1>1, <1>3, <2>1
<1>6. ASSUME NEW a \in Unnamed PROVE Single(others, a)
  BY <1>3, <1>4, <1>6, KeepSingle
<1> HIDE DEF others
<1>7. AwardsOf(pending) = AwardsOf(own) \cup AwardsOf(stored)
  BY <1>3 DEF AwardsOf
<1>8. ASSUME NEW a \in Unnamed
      PROVE  Plus(points, others)[a] = IF a \in AwardsOf(pending) THEN 1 ELSE 0
  <2>0. a \in Awards
    BY DEF Unnamed
  <2>1. CASE a \in AwardsOf(others)
    <3>1. PICK o \in Ops(others) : o.award = a
      BY <2>1 DEF AwardsOf
    <3>2. a \notin AwardsOf(own)
      <4> SUFFICES ASSUME NEW op \in Ops(own), op.award = a PROVE FALSE
        BY DEF AwardsOf
      <4>1. o = op
        BY <1>5, <3>1
      <4> QED BY <1>5, <3>1, <4>1
    <3>3. a \in AwardsOf(pending)
      BY <1>3, <1>5, <3>1 DEF AwardsOf
    <3>4. Plus(points, others)[a] = points[a] + 1
      BY <1>5, <1>6, <2>0, <2>1, PlusIs
    <3> QED BY <3>2, <3>3, <3>4
  <2>2. CASE a \notin AwardsOf(others)
    <3>1. a \in AwardsOf(pending) <=> a \in AwardsOf(own)
      BY <1>3, <1>5, <2>2 DEF AwardsOf
    <3>2. Plus(points, others)[a] = points[a]
      BY <1>5, <2>0, <2>2, PlusIs
    <3> QED BY <3>1, <3>2
  <2> QED BY <2>1, <2>2
<1> QED BY <1>4, <1>7, <1>8 DEF mine, pending, others

LEMMA AwardInv ==
    ASSUME XpInv, NEW t \in Tabs, NEW a \in Awards, Award(t, a)
    PROVE  XpInv'
<1> DEFINE y == Synced(t)
           base == Current(stream[t])
           own == MergeOps(y.own, <<>>, mem[t].ids)
           pending == MergeOps(own, y.stored, mem[t].ids)
           others == Keep(pending, Ops(pending) \ Ops(own))
           points == Plus(mem[t].points, others)
           st == IF a \in Named THEN y.next ELSE Advanced(y.next, 1)
           op0 == IF a \in Named THEN Plain(a) ELSE Placed(a, st.client, st.seq)
           again == a \in Named /\ Plain(a) \in Ops(pending) \cup mem[t].ids
           new == IF again THEN <<>> ELSE <<op0>>
           A == IF a \in Named THEN {} ELSE {a}
<1>1. /\ made[a] < (IF a \in Repeated THEN 2 ELSE 1)
      /\ mem' = [mem EXCEPT ![t] = [points |-> Plus(points, new),
                                    pending |-> pending \o new, ids |-> mem[t].ids]]
      /\ store' = Kept(mem'[t])
      /\ TakeStream(t, stream[t], st)
      /\ made' = [made EXCEPT ![a] = made[a] + 1]
      /\ Restart(t, saves[t])
      /\ UNCHANGED <<stats, load, late, reloads, faults>>
  BY DEF Award
<1>2. PICK k \in Nat :
         /\ y.next = Advanced(base, k)
         /\ y.stored \in Seq(OpDoc) /\ y.own \in Seq(OpDoc)
         /\ AwardsOf(y.stored) = AwardsOf(store.pending)
         /\ AwardsOf(y.own) = AwardsOf(mem[t].pending)
         /\ \A b \in Awards : /\ Single(store.pending, b) => Single(y.stored, b)
                              /\ Single(mem[t].pending, b) => Single(y.own, b)
         /\ \A op \in Ops(y.stored) \cup Ops(y.own) :
               InStream(op) /\ (op \in Around \/ Taken(op, base, k))
  BY SyncedIs DEF XpInv
<1> DEFINE K == IF a \in Named THEN k ELSE k + 1
<1>3. /\ stream[t] \in StreamDoc /\ made \in [Awards -> Nat] /\ mem[t].points \in Points
      /\ mem \in [Tabs -> [points : Points, pending : Seq(OpDoc), ids : SUBSET OpDoc]]
      /\ mem[t].ids \in SUBSET OpDoc
  BY AroundDoc DEF XpInv, XpShape
<1>4. base \in StreamDoc /\ base.client # 0 /\ base.client \in Nat /\ base.seq \in Nat
  <2>1. base \in StreamDoc /\ base.client # 0
    BY <1>3, CurrentIs DEF XpInv
  <2> HIDE DEF base
  <2> QED BY <2>1 DEF StreamDoc
<1> HIDE DEF y, base
<1>5. K \in Nat /\ st = Advanced(base, K) /\ st.client = base.client /\ st.seq = base.seq + K
  <2>1. y.next = Advanced(base, k) /\ k \in Nat
    BY <1>2
  <2>2. base = [client |-> base.client, seq |-> base.seq, fork |-> base.fork] /\ base.seq \in Nat
    BY <1>4 DEF StreamDoc
  <2>3. Advanced(base, k) = [client |-> base.client, seq |-> base.seq + k, fork |-> base.fork]
    BY <2>2 DEF Advanced
  <2>4. Advanced(base, k + 1) = [client |-> base.client, seq |-> base.seq + (k + 1), fork |-> base.fork]
    BY <2>2 DEF Advanced
  <2> DEFINE b1 == Advanced(base, k)
  <2>7. b1 = [client |-> base.client, seq |-> base.seq + k, fork |-> base.fork]
    BY <2>3
  <2> HIDE DEF b1
  <2>8. Advanced(b1, 1) = [client |-> base.client, seq |-> base.seq + k + 1, fork |-> base.fork]
    BY <2>7 DEF Advanced
  <2>5. Advanced(Advanced(base, k), 1) = [client |-> base.client, seq |-> base.seq + k + 1, fork |-> base.fork]
    BY <2>8 DEF b1
  <2>6. base.seq + k + 1 = base.seq + (k + 1)
    BY <2>1, <2>2
  <2> QED BY <2>1, <2>3, <2>4, <2>5, <2>6
<1>6. op0 \in OpDoc
  BY <1>4, <1>5 DEF OpDoc, Plain, Placed
<1>7. new \in Seq(OpDoc) /\ Ops(new) \subseteq {op0}
  BY <1>6, OpsOfOne, OpsOfEmpty
<1>8. /\ own \in Seq(OpDoc) /\ Ops(own) \subseteq Ops(y.own)
      /\ pending \in Seq(OpDoc) /\ Ops(pending) \subseteq Ops(y.own) \cup Ops(y.stored)
  <2> DEFINE none == <<>>
             o1 == y.own
             s1 == y.stored
             ids == mem[t].ids
  <2>1. none \in Seq(OpDoc) /\ Ops(none) = {} /\ o1 \in Seq(OpDoc) /\ s1 \in Seq(OpDoc)
    BY <1>2, OpsOfEmpty
  <2>2. own = MergeOps(o1, none, ids) /\ pending = MergeOps(own, s1, ids)
    OBVIOUS
  <2> HIDE DEF none, own, pending, o1, s1, ids
  <2>5. /\ MergeOps(o1, none, ids) \in Seq(OpDoc)
        /\ Ops(MergeOps(o1, none, ids)) = {op \in Ops(o1) \cup Ops(none) : ~ Listed(op, ids)}
    BY <2>1, MergedOps
  <2>3. own \in Seq(OpDoc) /\ Ops(own) = {op \in Ops(o1) \cup Ops(none) : ~ Listed(op, ids)}
    BY <2>2, <2>5
  <2>6. /\ MergeOps(own, s1, ids) \in Seq(OpDoc)
        /\ Ops(MergeOps(own, s1, ids)) = {op \in Ops(own) \cup Ops(s1) : ~ Listed(op, ids)}
    BY <2>1, <2>3, MergedOps
  <2>4. pending \in Seq(OpDoc) /\ Ops(pending) = {op \in Ops(own) \cup Ops(s1) : ~ Listed(op, ids)}
    BY <2>2, <2>6
  <2> QED BY <2>1, <2>3, <2>4 DEF o1, s1
<1>9. others \in Seq(OpDoc)
  <2> HIDE DEF pending
  <2> QED BY <1>8, KeepOps
<1>10. points \in Points
  <2> HIDE DEF others
  <2> QED BY <1>3, <1>9, PlusIs
<1>11. Plus(points, new) \in Points
  <2> HIDE DEF points, new
  <2> QED BY <1>7, <1>10, PlusIs
<1>12. pending \o new \in Seq(OpDoc) /\ Ops(pending \o new) = Ops(pending) \cup Ops(new)
  <2> HIDE DEF pending, new
  <2> QED BY <1>7, <1>8, ConcatIs
<1>13. a \notin Named => made[a] = 0
  BY <1>1, <1>3, NamedAssumption
<1>14. made' \in [Awards -> Nat] /\ made'[a] = made[a] + 1 /\ \A b \in Awards \ {a} : made'[b] = made[b]
  BY <1>1, <1>3
<1> HIDE DEF own, others, points
<1>15. /\ mem'[t].points = Plus(points, new) /\ mem'[t].pending = pending \o new /\ mem'[t].ids = mem[t].ids
       /\ \A u \in Tabs \ {t} : mem'[u] = mem[u]
       /\ store'.points = Plus(points, new) /\ store'.pending = pending \o new
       /\ store' = [points |-> Plus(points, new), pending |-> pending \o new]
  <2> HIDE DEF pending, new
  <2> QED BY <1>1, <1>3 DEF Kept
<1>16. /\ saves' \in [Tabs -> Seq(SaveDoc)] /\ Requests' \subseteq Requests /\ late' \subseteq Request
       /\ LoadShape'
       /\ (\A u \in Tabs : \A i \in DOMAIN saves[u] : saves[u][i].answer = {}) =>
             \A u \in Tabs : \A i \in DOMAIN saves'[u] : saves'[u][i].answer = {}
  <2>1. Fewer(saves[t], saves[t])
    BY QueueTyped DEF Fewer
  <2> QED BY <1>1, <2>1, Restarted
<1>17. ASSUME NEW op \in Around' PROVE op \in Around \/ Fresh(op, base, K, A) \/ Nameless(op)
  <2>1. CASE op \in Around
    BY <2>1
  <2>2. CASE op \in Ops(pending \o new)
    <3>1. CASE op \in Ops(new)
      <4>1. op = op0
        BY <1>7, <3>1
      <4>2. CASE a \in Named
        BY <1>6, <4>1, <4>2 DEF Nameless, Plain, InStream, Unnamed
      <4>3. CASE a \notin Named
        BY <1>2, <1>4, <1>5, <1>6, <4>1, <4>3 DEF Fresh, NewPlace, Placed
      <4> QED BY <4>2, <4>3
    <3>2. CASE op \in Ops(pending)
      <4>1. op \in Around \/ Taken(op, base, k)
        BY <1>2, <1>8, <3>2
      <4>2. ASSUME Taken(op, base, k) PROVE Fresh(op, base, K, A)
        <5>1. CASE a \in Named
          BY <4>2, <5>1 DEF Taken, Fresh
        <5>2. CASE a \notin Named
          <6>1. K = k + 1 /\ k \in Nat /\ base.seq \in Nat
            BY <1>2, <1>4, <5>2
          <6> HIDE DEF K, A
          <6> QED BY <4>2, <6>1 DEF Taken, Fresh, NewPlace
        <5> QED BY <5>1, <5>2
      <4> QED BY <4>1, <4>2
    <3> QED BY <1>12, <2>2, <3>1, <3>2
  <2>3. op \in Around \/ op \in Ops(pending \o new)
    <3>1. CASE op \in Ops(store'.pending)
      BY <1>15, <3>1
    <3>2. ASSUME NEW u \in Tabs, op \in Ops(mem'[u].pending) PROVE op \in Around \/ op \in Ops(pending \o new)
      <4>1. CASE u = t
        BY <1>15, <3>2, <4>1
      <4>2. CASE u # t
        BY <1>15, <3>2, <4>2, AroundIs
      <4> QED BY <4>1, <4>2
    <3>3. ASSUME NEW r \in Requests', op \in Ops(r.pending) PROVE op \in Around
      BY <1>16, <3>3, AroundIs
    <3> QED BY <3>1, <3>2, <3>3, AroundIsNext
  <2> QED BY <2>1, <2>2, <2>3
<1>18. A \in SUBSET Unnamed /\ (\A b, c \in A : b = c) /\ (\A b \in A : made[b] = 0 /\ made'[b] > 0)
  BY <1>13, <1>14 DEF Unnamed
<1>19. \A b \in Unnamed : made[b] > 0 => made'[b] > 0
  BY <1>3, <1>14 DEF Unnamed
<1> HIDE DEF pending, new, op0, again
<1>20. /\ stream' \in [Tabs -> StreamDoc] /\ clients' \in 0 .. MaxClients
  <2>1. TakeStream(t, stream[t], Advanced(Current(stream[t]), K))
    BY <1>1, <1>5 DEF base
  <2> HIDE DEF K, st
  <2> QED BY <1>3, <1>5, <2>1, StreamTaken DEF XpInv
<1>21. StreamsApart' /\ Places' /\ OnePlace'
  <2>1. TakeStream(t, stream[t], Advanced(Current(stream[t]), K))
    BY <1>1, <1>5 DEF base
  <2>2. \A op \in Around' : op \in Around \/ Fresh(op, Current(stream[t]), K, A) \/ Nameless(op)
    BY <1>17 DEF base
  <2> HIDE DEF K, st, A
  <2> QED BY <1>3, <1>5, <1>18, <1>19, <2>1, <2>2, PlaceStep DEF XpInv
<1>22. Credits' /\ Uncredited'
  <2>1. \A b \in Unnamed : made'[b] \in {0, 1} /\ made[b] <= made'[b]
    <3> SUFFICES ASSUME NEW b \in Unnamed PROVE made'[b] \in {0, 1} /\ made[b] <= made'[b]
      OBVIOUS
    <3>1. b \in Awards /\ b \notin Named /\ made[b] \in {0, 1}
      BY DEF Unnamed, XpInv, Credits
    <3>2. CASE b = a
      BY <1>13, <1>14, <3>1, <3>2
    <3>3. CASE b # a
      BY <1>14, <3>1, <3>3
    <3> QED BY <3>2, <3>3
  <2>2. ASSUME NEW op \in Around', op.award \in Unnamed
        PROVE  op \in Around \/ stats.points[op.award] = 0
    <3>1. ASSUME op \notin Around PROVE stats.points[op.award] = 0
      <4>1. op.award \in A
        BY <1>17, <2>2, <3>1 DEF Fresh, Nameless
      <4>2. made[op.award] = 0
        BY <1>18, <4>1
      <4> QED BY <2>2, <4>2 DEF XpInv, Credits
    <3> QED BY <3>1
  <2>3. UNCHANGED stats
    BY <1>1
  <2> QED BY <2>1, <2>2, <2>3, CalmCredits DEF XpInv
<1>23. Unborn'
  <2> SUFFICES ASSUME ~ stats'.exists
               PROVE  /\ stats'.points = None /\ stats'.mark = NoMarks /\ stats'.ledger = <<>>
                      /\ \A u \in Tabs : /\ mem'[u].ids = {} /\ Counted(mem'[u])
                                         /\ load'[u].pc = "read" => ~ load'[u].exists
                                         /\ \A i \in DOMAIN saves'[u] : saves'[u][i].answer = {}
                      /\ Counted(store')
                      /\ \A r \in Requests' : Counted(r)
    BY DEF Unborn, Counted
  <2>1. /\ stats.points = None /\ stats.mark = NoMarks /\ stats.ledger = <<>>
        /\ \A u \in Tabs : /\ mem[u].ids = {} /\ Counted(mem[u])
                           /\ load[u].pc = "read" => ~ load[u].exists
                           /\ \A i \in DOMAIN saves[u] : saves[u][i].answer = {}
        /\ Counted(store)
        /\ \A r \in Requests : Counted(r)
        /\ ~ stats.exists
    BY <1>1 DEF XpInv, Unborn
  <2>2. \A op \in Ops(y.own), o \in Ops(y.stored) : op.award \in Unnamed /\ o.award = op.award => o = op
    BY <1>2 DEF XpInv, OnePlace, Taken
  <2>3. \A b \in Unnamed : /\ Single(y.own, b) /\ Single(y.stored, b)
                           /\ mem[t].points[b] = IF b \in AwardsOf(y.own) THEN 1 ELSE 0
    BY <1>2, <2>1 DEF Counted, Unnamed
  <2>4. \A b \in Unnamed : /\ Single(pending, b)
                           /\ AwardsOf(pending) = AwardsOf(y.own) \cup AwardsOf(y.stored)
                           /\ points[b] = IF b \in AwardsOf(pending) THEN 1 ELSE 0
    <3>1. own = MergeOps(y.own, <<>>, {}) /\ pending = MergeOps(own, y.stored, {})
      BY <2>1 DEF own, pending
    <3>2. LET mine == MergeOps(y.own, <<>>, {})
              pend == MergeOps(mine, y.stored, {})
              more == Keep(pend, Ops(pend) \ Ops(mine)) IN
          \A b \in Unnamed : /\ Single(pend, b)
                             /\ AwardsOf(pend) = AwardsOf(y.own) \cup AwardsOf(y.stored)
                             /\ Plus(mem[t].points, more)[b] = IF b \in AwardsOf(pend) THEN 1 ELSE 0
      <4> DEFINE o1 == y.own
                 s1 == y.stored
                 p1 == mem[t].points
      <4>1. o1 \in Seq(OpDoc) /\ s1 \in Seq(OpDoc) /\ p1 \in Points
        BY <1>2, <1>3
      <4>2. \A op \in Ops(o1), o \in Ops(s1) : op.award \in Unnamed /\ o.award = op.award => o = op
        BY <2>2
      <4>3. \A b \in Unnamed : /\ Single(o1, b) /\ Single(s1, b)
                               /\ p1[b] = IF b \in AwardsOf(o1) THEN 1 ELSE 0
        BY <2>3
      <4> HIDE DEF o1, s1, p1
      <4>4. LET mine == MergeOps(o1, <<>>, {})
                pend == MergeOps(mine, s1, {})
                more == Keep(pend, Ops(pend) \ Ops(mine)) IN
            \A b \in Unnamed : /\ Single(pend, b)
                               /\ AwardsOf(pend) = AwardsOf(o1) \cup AwardsOf(s1)
                               /\ Plus(p1, more)[b] = IF b \in AwardsOf(pend) THEN 1 ELSE 0
        BY <4>1, <4>2, <4>3, MergedCounted
      <4> QED BY <4>4 DEF o1, s1, p1
    <3> QED BY <3>1, <3>2 DEF points, others
  <2>5. ASSUME NEW b \in Unnamed
        PROVE  /\ Single(pending \o new, b)
               /\ Plus(points, new)[b] = IF b \in AwardsOf(pending \o new) THEN 1 ELSE 0
    <3>1. b \in Awards /\ Single(new, b)
      BY DEF Unnamed, new, Single
    <3>2. AwardsOf(pending \o new) = AwardsOf(pending) \cup AwardsOf(new)
      BY <1>12 DEF AwardsOf
    <3>3. CASE b = a
      <4>1. new = <<op0>> /\ Ops(new) = {op0} /\ op0.award = a
        BY <2>5, <3>3, OpsOfOne DEF new, again, op0, Placed, Unnamed
      <4>2. a \in AwardsOf(new)
        BY <4>1 DEF AwardsOf
      <4>3. a \notin AwardsOf(pending)
        <5> SUFFICES ASSUME NEW op \in Ops(pending), op.award = a PROVE FALSE
          BY DEF AwardsOf
        <5>1. op \in Around
          BY <1>2, <1>8, <2>5, <3>3 DEF Taken
        <5>2. made[a] > 0
          BY <2>5, <3>3, <5>1 DEF XpInv, Places
        <5> QED BY <1>13, <2>5, <3>3, <5>2 DEF Unnamed
      <4>4. points[b] = 0 /\ Single(pending, b)
        BY <2>4, <3>3, <4>3
      <4>5. Plus(points, new)[b] = 0 + 1
        BY <1>7, <1>10, <3>1, <3>3, <4>2, <4>4, PlusIs
      <4>6. Single(pending \o new, b)
        BY <1>7, <1>8, <3>1, <3>3, <4>3, <4>4, ConcatSingle
      <4> QED BY <3>2, <3>3, <4>2, <4>5, <4>6
    <3>4. CASE b # a
      <4>1. b \notin AwardsOf(new)
        BY <1>7, <3>4 DEF AwardsOf, op0, Plain, Placed
      <4>2. Plus(points, new)[b] = points[b]
        BY <1>7, <1>10, <3>1, <4>1, PlusIs
      <4>3. Single(pending \o new, b)
        BY <1>7, <1>8, <2>4, <3>1, <4>1, ConcatSingle
      <4> QED BY <2>4, <3>2, <4>1, <4>2, <4>3
    <3> QED BY <3>3, <3>4
  <2>6. Counted(mem'[t]) /\ Counted(store')
    BY <1>15, <2>5 DEF Counted
  <2>7. \A u \in Tabs : mem'[u].ids = {} /\ Counted(mem'[u])
    <3> SUFFICES ASSUME NEW u \in Tabs PROVE mem'[u].ids = {} /\ Counted(mem'[u])
      OBVIOUS
    <3>1. CASE u = t
      BY <1>15, <2>1, <2>6, <3>1
    <3>2. CASE u # t
      BY <1>15, <2>1, <3>2
    <3> QED BY <3>1, <3>2
  <2>8. \A u \in Tabs : \A i \in DOMAIN saves'[u] : saves'[u][i].answer = {}
    BY <1>16, <2>1
  <2>9. \A r \in Requests' : Counted(r)
    BY <1>16, <2>1
  <2> QED BY <1>1, <2>1, <2>6, <2>7, <2>8, <2>9
<1>24. XpShape'
  <2>1. mem' \in [Tabs -> [points : Points, pending : Seq(OpDoc), ids : SUBSET OpDoc]]
    BY <1>1, <1>3, <1>11, <1>12
  <2>2. store' \in Snapshot
    BY <1>11, <1>12, <1>15 DEF Snapshot
  <2> QED BY <1>1, <1>14, <1>16, <1>20, <2>1, <2>2 DEF XpInv, XpShape
<1>25. ReqShape'
  BY <1>16, FewerReqs DEF XpInv
<1> QED BY <1>16, <1>21, <1>22, <1>23, <1>24, <1>25 DEF XpInv

\* A step that only drops saves, or takes over what a tab sent.
LEMMA QueueStep ==
    ASSUME XpInv, NEW t \in Tabs, NEW q, Fewer(q, saves[t]), saves' = [saves EXCEPT ![t] = q],
           late' \subseteq Requests,
           UNCHANGED <<stats, store, mem, stream, clients, load, due, made>>
    PROVE  XpInv' /\ Requests' \subseteq Requests
<1>1. /\ saves' \in [Tabs -> Seq(SaveDoc)] /\ late' \subseteq Request
      /\ Requests' \subseteq Requests
      /\ (\A u \in Tabs : \A i \in DOMAIN saves[u] : saves[u][i].answer = {}) =>
            \A u \in Tabs : \A i \in DOMAIN saves'[u] : saves'[u][i].answer = {}
  BY RequestsKept DEF XpInv
<1>2. XpShape'
  BY <1>1 DEF XpInv, XpShape
<1>3. LoadShape'
  <2>1. ASSUME NEW u \in Tabs, load[u].pc # "done" PROVE saves'[u] = <<>>
    <3>1. saves[u] = <<>> /\ saves \in [Tabs -> Seq(SaveDoc)]
      BY <2>1, QueueTyped DEF XpInv, XpShape
    <3>2. CASE u = t
      BY <3>1, <3>2 DEF Fewer
    <3>3. CASE u # t
      BY <3>1, <3>3
    <3> QED BY <3>2, <3>3
  <2> QED BY <2>1 DEF XpInv, LoadShape
<1>4. ReqShape'
  BY <1>1, FewerReqs DEF XpInv
<1>5. Around' \subseteq Around
  BY <1>1, AroundIs, AroundIsNext
<1>6. StreamsApart' /\ Places' /\ OnePlace' /\ Credits' /\ Uncredited'
  BY <1>5, CalmStep
<1>7. Unborn'
  <2> SUFFICES ASSUME ~ stats'.exists
               PROVE  /\ stats'.points = None /\ stats'.mark = NoMarks /\ stats'.ledger = <<>>
                      /\ \A u \in Tabs : /\ mem'[u].ids = {} /\ Counted(mem'[u])
                                         /\ load'[u].pc = "read" => ~ load'[u].exists
                                         /\ \A i \in DOMAIN saves'[u] : saves'[u][i].answer = {}
                      /\ Counted(store')
                      /\ \A r \in Requests' : Counted(r)
    BY DEF Unborn, Counted
  <2> QED BY <1>1 DEF XpInv, Unborn
<1> QED BY <1>1, <1>2, <1>3, <1>4, <1>6, <1>7 DEF XpInv

LEMMA IgnoreInv ==
    ASSUME XpInv, NEW t \in Tabs, Ignore(t)
    PROVE  XpInv'
<1>1. /\ saves[t] # <<>> /\ saves' = [saves EXCEPT ![t] = Tail(saves[t])]
      /\ late' = late /\ UNCHANGED <<stats, store, mem, stream, clients, load, due, made>>
  BY DEF Ignore, Answered
<1>2. Fewer(Tail(saves[t]), saves[t])
  BY <1>1, QueueTyped, TailFewer
<1>3. late' \subseteq Requests
  BY <1>1, RequestsAre
<1> QED BY <1>1, <1>2, <1>3, QueueStep

LEMMA HeadIs ==
    ASSUME XpInv, NEW t \in Tabs, saves[t] # <<>>
    PROVE  /\ Head(saves[t]) = saves[t][1] /\ 1 \in DOMAIN saves[t] /\ saves[t][1] \in SaveDoc
           /\ Head(saves[t]).req \in Requests
<1>1. saves[t] \in Seq(SaveDoc)
  BY QueueTyped
<1>2. Head(saves[t]) = saves[t][1] /\ 1 \in DOMAIN saves[t] /\ saves[t][1] \in SaveDoc
  BY <1>1
<1> QED BY <1>2, RequestsAre

LEMMA FaultInv ==
    ASSUME XpInv, NEW t \in Tabs, Fault(t)
    PROVE  XpInv'
<1>1. /\ saves[t] # <<>> /\ saves' = [saves EXCEPT ![t] = Failed(t)]
      /\ late' \subseteq late \cup {Head(saves[t]).req}
      /\ UNCHANGED <<stats, store, mem, stream, clients, load, due, made>>
  BY DEF Fault
<1>2. Fewer(Failed(t), saves[t])
  BY <1>1, FailedFewer DEF XpInv
<1>3. late' \subseteq Requests
  BY <1>1, RequestsAre, HeadIs
<1> QED BY <1>1, <1>2, <1>3, QueueStep

\* A save the transaction accepts.
LEMMA AcceptedStep ==
    ASSUME XpInv, NEW req \in Requests, stats' = Saved(req),
           UNCHANGED <<store, mem, stream, clients, load, due, made>>,
           saves' \in [Tabs -> Seq(SaveDoc)], late' \subseteq Request, Requests' \subseteq Requests,
           \A u \in Tabs : saves[u] = <<>> => saves'[u] = <<>>
    PROVE  XpInv'
<1>1. /\ Acceptable(Outcome(req), req)
      /\ stats' \in [exists : BOOLEAN, points : Points, mark : Marks, ledger : Seq(OpDoc)]
      /\ stats'.exists /\ stats'.points = Outcome(req).points /\ stats'.mark = Outcome(req).mark
  BY SavedIs
<1>2. XpShape'
  BY <1>1 DEF XpInv, XpShape
<1>3. LoadShape'
  BY DEF XpInv, LoadShape
<1>4. ReqShape'
  BY FewerReqs DEF XpInv
<1>5. Around' \subseteq Around
  BY AroundIs, AroundIsNext
<1>6. StreamsApart' /\ Places' /\ OnePlace'
  BY <1>5, CalmPlaces DEF XpInv
<1>7. Credits'
  BY <1>1 DEF XpInv, Credits, Acceptable
<1>8. Uncredited'
  BY <1>1, <1>5 DEF Uncredited, Acceptable
<1>9. Unborn'
  BY <1>1 DEF Unborn
<1> QED BY <1>2, <1>3, <1>4, <1>6, <1>7, <1>8, <1>9 DEF XpInv

\* The queue after an answer to its head.
LEMMA AnsweredQueue ==
    ASSUME XpInv, NEW t \in Tabs, saves[t] # <<>>, NEW x \in SUBSET AnswerDoc,
           saves' = [saves EXCEPT ![t][1].answer = x]
    PROVE  /\ saves' \in [Tabs -> Seq(SaveDoc)]
           /\ \A u \in Tabs \ {t} : saves'[u] = saves[u]
           /\ DOMAIN saves'[t] = DOMAIN saves[t]
           /\ \A i \in DOMAIN saves[t] : /\ saves'[t][i].req = saves[t][i].req
                                         /\ saves'[t][i].live = saves[t][i].live
                                         /\ saves'[t][i].answer = IF i = 1 THEN x ELSE saves[t][i].answer
<1>1. saves \in [Tabs -> Seq(SaveDoc)]
  BY DEF XpInv, XpShape
<1>2. 1 \in DOMAIN saves[t] /\ \A i \in DOMAIN saves[t] : saves[t][i] \in SaveDoc
  BY <1>1, HeadIs, OpIn
<1> DEFINE e == [saves[t][1] EXCEPT !.answer = x]
           q == [saves[t] EXCEPT ![1] = e]
<1>3. saves' = [saves EXCEPT ![t] = q]
  OBVIOUS
<1>4. e \in SaveDoc /\ e.req = saves[t][1].req /\ e.live = saves[t][1].live /\ e.answer = x
  BY <1>2 DEF SaveDoc
<1> HIDE DEF e
<1>5. q \in Seq(SaveDoc) /\ DOMAIN q = DOMAIN saves[t]
      /\ \A i \in DOMAIN saves[t] : q[i] = IF i = 1 THEN e ELSE saves[t][i]
  BY <1>1, <1>2, <1>4
<1> HIDE DEF q
<1>6. saves'[t] = q /\ saves' \in [Tabs -> Seq(SaveDoc)] /\ \A u \in Tabs \ {t} : saves'[u] = saves[u]
  BY <1>1, <1>3, <1>5
<1> QED BY <1>4, <1>5, <1>6

LEMMA SaveInv ==
    ASSUME XpInv, NEW t \in Tabs, Save(t)
    PROVE  XpInv'
<1> DEFINE req == Head(saves[t]).req
<1>1. saves[t] # <<>> /\ late' = late /\ UNCHANGED <<store, mem, stream, clients, load, due, made>>
  BY DEF Save, Open
<1>2. req \in Requests
  BY <1>1, HeadIs
<1>3. CASE Refused(req)
  <2>1. saves' = [saves EXCEPT ![t] = Failed(t)] /\ UNCHANGED stats
    BY <1>3 DEF Save
  <2>2. Fewer(Failed(t), saves[t])
    BY <1>1, FailedFewer DEF XpInv
  <2>3. late' \subseteq Requests
    BY <1>1, RequestsAre
  <2> QED BY <1>1, <2>1, <2>2, <2>3, QueueStep
<1>4. CASE ~ Refused(req)
  <2>1. stats' = Saved(req) /\ saves' = [saves EXCEPT ![t][1].answer = {Answer(req)}]
    BY <1>4 DEF Save
  <2>2. Answer(req) \in AnswerDoc
    BY <1>2, SavedIs
  <2> DEFINE x == {Answer(req)}
  <2>3. x \in SUBSET AnswerDoc /\ saves' = [saves EXCEPT ![t][1].answer = x]
    BY <2>1, <2>2
  <2> HIDE DEF x, req
  <2>4. /\ saves' \in [Tabs -> Seq(SaveDoc)]
        /\ \A u \in Tabs \ {t} : saves'[u] = saves[u]
        /\ DOMAIN saves'[t] = DOMAIN saves[t]
        /\ \A i \in DOMAIN saves[t] : saves'[t][i].req = saves[t][i].req
    BY <1>1, <2>3, AnsweredQueue
  <2>5. Requests' \subseteq Requests
    <3>1. \A u \in Tabs : \A i \in DOMAIN saves'[u] : saves'[u][i].req \in Requests
      <4> SUFFICES ASSUME NEW u \in Tabs, NEW i \in DOMAIN saves'[u] PROVE saves'[u][i].req \in Requests
        OBVIOUS
      <4>1. CASE u = t
        BY <2>4, <4>1, RequestsAre
      <4>2. CASE u # t
        BY <2>4, <4>2, RequestsAre
      <4> QED BY <4>1, <4>2
    <3> QED BY <1>1, <3>1, RequestsAre, RequestsAreNext
  <2>6. late' \subseteq Request
    BY <1>1 DEF XpInv, XpShape
  <2>7. \A u \in Tabs : saves[u] = <<>> => saves'[u] = <<>>
    BY <1>1, <2>4
  <2> QED BY <1>1, <1>2, <2>1, <2>4, <2>5, <2>6, <2>7, AcceptedStep
<1> QED BY <1>3, <1>4

LEMMA LateSaveInv ==
    ASSUME XpInv, NEW req \in late, LateSave(req)
    PROVE  XpInv'
<1>1. /\ stats' = IF Refused(req) THEN stats ELSE Saved(req)
      /\ late' = late \ {req} /\ UNCHANGED <<store, mem, stream, clients, load, due, saves, made>>
  BY DEF LateSave, tabVars
<1>2. req \in Requests /\ late' \subseteq Requests /\ Requests' \subseteq Requests
  <2>1. \A r \in Requests' : r \in Requests
    BY <1>1, RequestsAre, RequestsAreNext
  <2> QED BY <1>1, <2>1, RequestsAre
<1>3. saves' \in [Tabs -> Seq(SaveDoc)] /\ late' \subseteq Request
  BY <1>1 DEF XpInv, XpShape
<1>4. CASE ~ Refused(req)
  <2>1. \A u \in Tabs : saves[u] = <<>> => saves'[u] = <<>>
    BY <1>1
  <2>2. stats' = Saved(req)
    BY <1>1, <1>4
  <2> QED BY <1>1, <1>2, <1>3, <2>1, <2>2, AcceptedStep
<1>5. CASE Refused(req)
  <2>0. UNCHANGED <<stats, store, mem, stream, clients, load, due, saves, made>>
    BY <1>1, <1>5
  <2>1. XpShape' /\ LoadShape'
    BY <1>3, <2>0 DEF XpInv, XpShape, LoadShape
  <2>2. ReqShape'
    BY <1>2, FewerReqs DEF XpInv
  <2>3. Around' \subseteq Around
    BY <1>2, <2>0, AroundIs, AroundIsNext
  <2>4. StreamsApart' /\ Places' /\ OnePlace' /\ Credits' /\ Uncredited'
    BY <2>0, <2>3, CalmStep
  <2>5. Unborn'
    BY <1>2, <2>0 DEF XpInv, Unborn, Counted
  <2> QED BY <2>1, <2>2, <2>4, <2>5 DEF XpInv
<1> QED BY <1>4, <1>5

\* What Unborn says, with the next state's parts named.
LEMMA UnbornNext ==
    ASSUME ~ stats'.exists =>
              /\ stats'.points = None /\ stats'.mark = NoMarks /\ stats'.ledger = <<>>
              /\ \A u \in Tabs : /\ mem'[u].ids = {} /\ Counted(mem'[u])
                                 /\ load'[u].pc = "read" => ~ load'[u].exists
                                 /\ \A i \in DOMAIN saves'[u] : saves'[u][i].answer = {}
              /\ Counted(store')
              /\ \A r \in Requests' : Counted(r)
    PROVE  Unborn'
BY DEF Unborn, Counted

\* A tab's first read goes on; no tab's operations change.
LEMMA LoadStep ==
    ASSUME XpInv, UNCHANGED <<stats, store, mem, stream, clients, saves, late, made>>, LoadShape',
           \A u \in Tabs : load'[u].pc = "read" => load'[u] = load[u] \/ load'[u].exists = stats.exists
    PROVE  XpInv'
<1>1. XpShape'
  BY DEF XpInv, XpShape
<1>2. Requests' = Requests /\ Around' = Around
  BY DEF Requests, Around, Pendings
<1>3. ReqShape'
  BY <1>2, FewerReqs DEF XpInv
<1>4. StreamsApart' /\ Places' /\ OnePlace' /\ Credits' /\ Uncredited'
  BY <1>2, CalmStep
<1>5. Unborn'
  <2>1. \A u \in Tabs : load'[u].pc = "read" => load'[u] = load[u] \/ load'[u].exists = stats.exists
    OBVIOUS
  <2> QED BY <1>2, <2>1, UnbornNext DEF XpInv, Unborn
<1> QED BY <1>1, <1>3, <1>4, <1>5 DEF XpInv

LEMMA ReadCloudInv ==
    ASSUME XpInv, NEW t \in Tabs, ReadCloud(t)
    PROVE  XpInv'
<1> DEFINE mark == [c \in Clients |-> IF c \in load[t].asked THEN stats.mark[c] ELSE 0]
           cloud == [points |-> stats.points, ids |-> Ops(stats.ledger), mark |-> mark]
           l == [pc |-> "read", exists |-> stats.exists, cloud |-> cloud]
<1>1. /\ load[t].pc = "reading" /\ t \in Readers /\ load' = [load EXCEPT ![t] = l]
      /\ UNCHANGED <<stats, store, mem, stream, clients, due, saves, late, made>>
  BY DEF ReadCloud
<1>2. stats.mark \in Marks /\ stats.points \in Points /\ stats.ledger \in Seq(OpDoc) /\ stats.exists \in BOOLEAN
  BY QueueTyped
<1>3. mark \in Marks /\ Ops(stats.ledger) \subseteq OpDoc
  BY <1>2, OpsIn DEF Marks
<1> HIDE DEF mark
<1>4. cloud \in CloudDoc
  BY <1>2, <1>3 DEF CloudDoc
<1> HIDE DEF cloud
<1>5. l.pc = "read" /\ l.exists = stats.exists /\ l.cloud \in CloudDoc
  BY <1>4
<1> HIDE DEF l
<1>6. load'[t] = l /\ DOMAIN load' = Tabs /\ \A u \in Tabs \ {t} : load'[u] = load[u]
  BY <1>1 DEF XpInv, LoadShape
<1>7. LoadShape'
  <2>1. due' \in [Tabs -> BOOLEAN]
    BY <1>1 DEF XpInv, LoadShape
  <2>2. ASSUME NEW u \in Tabs
        PROVE  /\ load'[u].pc \in {"reading", "read", "done"}
               /\ load'[u].pc = "read" => /\ u \in Readers /\ load'[u].exists \in BOOLEAN
                                          /\ load'[u].cloud \in CloudDoc
               /\ load'[u].pc = "done" => load'[u] = Done
               /\ load'[u].pc # "done" => saves'[u] = <<>> /\ ~ due'[u]
    <3>1. CASE u = t
      <4>1. saves[t] = <<>> /\ ~ due[t]
        BY <1>1, QueueTyped
      <4> QED BY <1>1, <1>2, <1>5, <1>6, <3>1, <4>1
    <3>2. CASE u # t
      BY <1>1, <1>6, <3>2 DEF XpInv, LoadShape
    <3> QED BY <3>1, <3>2
  <2> QED BY <1>6, <2>1, <2>2 DEF LoadShape
<1>8. \A u \in Tabs : load'[u].pc = "read" => load'[u] = load[u] \/ load'[u].exists = stats.exists
  BY <1>5, <1>6
<1> QED BY <1>1, <1>7, <1>8, LoadStep

\* A tab is done with its first read.
LEMMA DoneShape ==
    ASSUME XpInv, NEW t \in Tabs, load' = [load EXCEPT ![t] = Done],
           due' = [due EXCEPT ![t] = TRUE], UNCHANGED saves
    PROVE  LoadShape' /\ load'[t] = Done /\ \A u \in Tabs \ {t} : load'[u] = load[u] /\ due'[u] = due[u]
<1>1. load'[t] = Done /\ DOMAIN load' = Tabs /\ \A u \in Tabs \ {t} : load'[u] = load[u]
  BY DEF XpInv, LoadShape
<1>2. due' \in [Tabs -> BOOLEAN] /\ \A u \in Tabs \ {t} : due'[u] = due[u]
  BY DEF XpInv, LoadShape
<1>3. ASSUME NEW u \in Tabs
      PROVE  /\ load'[u].pc \in {"reading", "read", "done"}
             /\ load'[u].pc = "read" => /\ u \in Readers /\ load'[u].exists \in BOOLEAN
                                        /\ load'[u].cloud \in CloudDoc
             /\ load'[u].pc = "done" => load'[u] = Done
             /\ load'[u].pc # "done" => saves'[u] = <<>> /\ ~ due'[u]
  <2>1. CASE u = t
    BY <1>1, <2>1 DEF Done
  <2>2. CASE u # t
    BY <1>1, <1>2, <2>2 DEF XpInv, LoadShape
  <2> QED BY <2>1, <2>2
<1> QED BY <1>1, <1>2, <1>3 DEF LoadShape

LEMMA ReadFailsInv ==
    ASSUME XpInv, NEW t \in Tabs, ReadFails(t)
    PROVE  XpInv'
<1>1. /\ load' = [load EXCEPT ![t] = Done] /\ due' = [due EXCEPT ![t] = TRUE]
      /\ UNCHANGED <<stats, store, mem, stream, clients, saves, late, made>>
  BY DEF ReadFails
<1>2. LoadShape' /\ load'[t] = Done /\ \A u \in Tabs \ {t} : load'[u] = load[u]
  BY <1>1, DoneShape
<1>3. \A u \in Tabs : load'[u].pc = "read" => load'[u] = load[u] \/ load'[u].exists = stats.exists
  BY <1>2 DEF Done
<1> QED BY <1>1, <1>2, <1>3, LoadStep

\* What is left of a list over the account.
LEMMA RebaseIs ==
    ASSUME NEW pending \in Seq(OpDoc), NEW cloud, cloud.points \in Points, cloud.ids \subseteq OpDoc
    PROVE  LET m == Rebase(pending, cloud) IN
           /\ m \in [points : Points, pending : Seq(OpDoc), ids : SUBSET OpDoc]
           /\ m.pending = Keep(pending, {op \in Ops(pending) : ~ Applied(op, cloud)})
           /\ Ops(m.pending) = {op \in Ops(pending) : ~ Applied(op, cloud)}
           /\ m.ids = cloud.ids
<1> DEFINE S == {op \in Ops(pending) : ~ Applied(op, cloud)}
           left == Keep(pending, S)
<1>1. left \in Seq(OpDoc) /\ Ops(left) = Ops(pending) \cap S
  BY KeepOps
<1>2. Ops(left) = S
  BY <1>1
<1>3. Rebase(pending, cloud) = [points |-> Plus(cloud.points, left), pending |-> left, ids |-> cloud.ids]
  BY DEF Rebase
<1> HIDE DEF left, S
<1>4. Plus(cloud.points, left) \in Points
  BY <1>1, PlusIs
<1> QED BY <1>1, <1>2, <1>3, <1>4 DEF left, S

LEMMA PublishInv ==
    ASSUME XpInv, NEW t \in Tabs, Publish(t)
    PROVE  XpInv'
<1> DEFINE m == IF load[t].exists THEN Rebase(mem[t].pending, load[t].cloud) ELSE mem[t]
<1>1. /\ load[t].pc = "read" /\ store' = Kept(mem'[t])
      /\ load' = [load EXCEPT ![t] = Done] /\ due' = [due EXCEPT ![t] = TRUE]
      /\ UNCHANGED <<stats, stream, clients, saves, late, made>>
  BY DEF Publish
<1>2. mem \in [Tabs -> [points : Points, pending : Seq(OpDoc), ids : SUBSET OpDoc]]
  BY DEF XpInv, XpShape
<1>3. mem' = [mem EXCEPT ![t] = m]
  <2>1. CASE load[t].exists
    BY <2>1 DEF Publish
  <2>2. CASE ~ load[t].exists
    <3>1. mem' = mem
      BY <2>2 DEF Publish
    <3> QED BY <1>2, <2>2, <3>1
  <2> QED BY <2>1, <2>2
<1>4. load[t].exists \in BOOLEAN /\ load[t].cloud \in CloudDoc
  BY <1>1 DEF XpInv, LoadShape
<1>5. mem[t].pending \in Seq(OpDoc)
  BY AroundDoc DEF XpInv
<1>6. /\ m \in [points : Points, pending : Seq(OpDoc), ids : SUBSET OpDoc]
      /\ Ops(m.pending) \subseteq Ops(mem[t].pending)
      /\ ~ load[t].exists => m = mem[t]
  <2>1. CASE load[t].exists
    <3> DEFINE p == mem[t].pending
               cloud == load[t].cloud
    <3>1. m = Rebase(p, cloud) /\ cloud.points \in Points /\ cloud.ids \subseteq OpDoc /\ p \in Seq(OpDoc)
      BY <1>4, <1>5, <2>1 DEF CloudDoc
    <3> HIDE DEF p, cloud, m
    <3>2. /\ Rebase(p, cloud) \in [points : Points, pending : Seq(OpDoc), ids : SUBSET OpDoc]
          /\ Ops(Rebase(p, cloud).pending) = {op \in Ops(p) : ~ Applied(op, cloud)}
      BY <3>1, RebaseIs
    <3> QED BY <2>1, <3>1, <3>2 DEF p
  <2>2. CASE ~ load[t].exists
    BY <1>2, <2>2
  <2> QED BY <2>1, <2>2
<1> HIDE DEF m
<1>7. mem'[t] = m /\ \A u \in Tabs \ {t} : mem'[u] = mem[u]
  BY <1>2, <1>3
<1>8. store' = [points |-> m.points, pending |-> m.pending] /\ store'.points = m.points /\ store'.pending = m.pending
  BY <1>1, <1>7 DEF Kept
<1>9. Requests' = Requests
  BY <1>1 DEF Requests
<1>10. Around' \subseteq Around
  <2>1. ASSUME NEW u \in Tabs, NEW op \in Ops(mem'[u].pending) PROVE op \in Around
    <3>1. CASE u = t
      BY <1>6, <1>7, <2>1, <3>1, AroundIs
    <3>2. CASE u # t
      BY <1>7, <2>1, <3>2, AroundIs
    <3> QED BY <3>1, <3>2
  <2>2. \A op \in Ops(store'.pending) : op \in Around
    BY <1>6, <1>8, AroundIs
  <2> QED BY <1>9, <2>1, <2>2, AroundIs, AroundIsNext
<1>11. StreamsApart' /\ Places' /\ OnePlace' /\ Credits' /\ Uncredited'
  BY <1>1, <1>10, CalmStep
<1>12. LoadShape' /\ load'[t] = Done /\ \A u \in Tabs \ {t} : load'[u] = load[u]
  BY <1>1, DoneShape
<1>13. ReqShape'
  BY <1>9, FewerReqs DEF XpInv
<1>14. XpShape'
  <2>1. mem' \in [Tabs -> [points : Points, pending : Seq(OpDoc), ids : SUBSET OpDoc]]
    BY <1>2, <1>3, <1>6
  <2>2. store' \in Snapshot
    BY <1>6, <1>8 DEF Snapshot
  <2> QED BY <1>1, <2>1, <2>2 DEF XpInv, XpShape
<1>15. Unborn'
  <2> SUFFICES ASSUME ~ stats'.exists
               PROVE  /\ stats'.points = None /\ stats'.mark = NoMarks /\ stats'.ledger = <<>>
                      /\ \A u \in Tabs : /\ mem'[u].ids = {} /\ Counted(mem'[u])
                                         /\ load'[u].pc = "read" => ~ load'[u].exists
                                         /\ \A i \in DOMAIN saves'[u] : saves'[u][i].answer = {}
                      /\ Counted(store')
                      /\ \A r \in Requests' : Counted(r)
    BY UnbornNext
  <2>1. /\ stats.points = None /\ stats.mark = NoMarks /\ stats.ledger = <<>>
        /\ \A u \in Tabs : /\ mem[u].ids = {} /\ Counted(mem[u])
                           /\ load[u].pc = "read" => ~ load[u].exists
                           /\ \A i \in DOMAIN saves[u] : saves[u][i].answer = {}
        /\ \A r \in Requests : Counted(r)
    BY <1>1 DEF XpInv, Unborn
  <2>2. m = mem[t]
    BY <1>1, <1>6, <2>1
  <2>3. Counted(store')
    BY <1>8, <2>1, <2>2 DEF Counted
  <2>4. \A u \in Tabs : mem'[u] = mem[u]
    BY <1>7, <2>2
  <2>5. \A u \in Tabs : load'[u].pc = "read" => ~ load'[u].exists
    BY <1>12, <2>1 DEF Done
  <2> QED BY <1>1, <1>9, <2>1, <2>3, <2>4, <2>5
<1> QED BY <1>11, <1>12, <1>13, <1>14, <1>15 DEF XpInv

LEMMA ScheduleIs ==
    ASSUME XpInv, NEW t \in Tabs, Schedule(t)
    PROVE  LET r == [points |-> mem[t].points, pending |-> mem[t].pending,
                     ops |-> FirstOps(mem[t].pending)]
               d == [req |-> r, live |-> TRUE, answer |-> {}] IN
           /\ r \in Request /\ d \in SaveDoc
           /\ saves' = [saves EXCEPT ![t] = Append(saves[t], d)]
           /\ saves' \in [Tabs -> Seq(SaveDoc)]
           /\ \A u \in Tabs \ {t} : saves'[u] = saves[u]
           /\ DOMAIN saves'[t] = 1 .. Len(saves[t]) + 1 /\ saves'[t][Len(saves[t]) + 1] = d
           /\ \A i \in DOMAIN saves[t] : saves'[t][i] = saves[t][i]
           /\ DOMAIN saves[t] = 1 .. Len(saves[t]) /\ Len(saves[t]) \in Nat
           /\ Requests' \subseteq Requests \cup {r}
           /\ due[t] /\ due' = [due EXCEPT ![t] = FALSE]
           /\ UNCHANGED <<stats, store, mem, stream, clients, load, late, made>>
<1> DEFINE r == [points |-> mem[t].points, pending |-> mem[t].pending,
                 ops |-> FirstOps(mem[t].pending)]
           d == [req |-> r, live |-> TRUE, answer |-> {}]
<1>1. /\ saves' = [saves EXCEPT ![t] = Append(saves[t], d)]
      /\ due[t] /\ due' = [due EXCEPT ![t] = FALSE]
      /\ UNCHANGED <<stats, store, mem, stream, clients, load, late, made>>
  BY DEF Schedule
<1>2. mem[t].points \in Points /\ mem[t].pending \in Seq(OpDoc) /\ FirstOps(mem[t].pending) \in Seq(OpDoc)
  BY AroundDoc, FirstOpsIs DEF XpInv
<1>3. r \in Request
  BY <1>2 DEF Request
<1> HIDE DEF r
<1>4. d \in SaveDoc /\ d.req = r
  BY <1>3 DEF SaveDoc
<1> HIDE DEF d
<1>5. saves \in [Tabs -> Seq(SaveDoc)]
  BY DEF XpInv, XpShape
<1>6. /\ saves' \in [Tabs -> Seq(SaveDoc)]
      /\ saves'[t] = Append(saves[t], d)
      /\ \A u \in Tabs \ {t} : saves'[u] = saves[u]
  BY <1>1, <1>4, <1>5
<1>7. /\ DOMAIN saves'[t] = 1 .. Len(saves[t]) + 1 /\ saves'[t][Len(saves[t]) + 1] = d
      /\ \A i \in DOMAIN saves[t] : saves'[t][i] = saves[t][i]
      /\ DOMAIN saves[t] = 1 .. Len(saves[t]) /\ Len(saves[t]) \in Nat
  BY <1>4, <1>5, <1>6
<1>8. Requests' \subseteq Requests \cup {r}
  <2>1. ASSUME NEW u \in Tabs, NEW i \in DOMAIN saves'[u] PROVE saves'[u][i].req \in Requests \cup {r}
    <3>1. CASE u # t
      BY <1>6, <2>1, <3>1, RequestsAre
    <3>2. CASE u = t /\ i = Len(saves[t]) + 1
      BY <1>4, <1>7, <3>2
    <3>3. CASE u = t /\ i # Len(saves[t]) + 1
      <4>1. i \in DOMAIN saves[t]
        BY <1>7, <2>1, <3>3
      <4> QED BY <1>7, <3>3, <4>1, RequestsAre
    <3> QED BY <3>1, <3>2, <3>3
  <2> QED BY <1>1, <2>1, RequestsAre, RequestsAreNext
<1> QED BY <1>1, <1>3, <1>4, <1>6, <1>7, <1>8 DEF r, d

LEMMA ScheduleInv ==
    ASSUME XpInv, NEW t \in Tabs, Schedule(t)
    PROVE  XpInv'
<1> DEFINE r == [points |-> mem[t].points, pending |-> mem[t].pending,
                 ops |-> FirstOps(mem[t].pending)]
           d == [req |-> r, live |-> TRUE, answer |-> {}]
<1>1. /\ r \in Request /\ d \in SaveDoc
      /\ saves' \in [Tabs -> Seq(SaveDoc)]
      /\ \A u \in Tabs \ {t} : saves'[u] = saves[u]
      /\ DOMAIN saves'[t] = 1 .. Len(saves[t]) + 1 /\ saves'[t][Len(saves[t]) + 1] = d
      /\ \A i \in DOMAIN saves[t] : saves'[t][i] = saves[t][i]
      /\ DOMAIN saves[t] = 1 .. Len(saves[t]) /\ Len(saves[t]) \in Nat
      /\ Requests' \subseteq Requests \cup {r}
      /\ due[t] /\ due' = [due EXCEPT ![t] = FALSE]
      /\ UNCHANGED <<stats, store, mem, stream, clients, load, late, made>>
  BY ScheduleIs
<1>2. r.points = mem[t].points /\ r.pending = mem[t].pending /\ r.ops = FirstOps(r.pending) /\ d.answer = {}
  OBVIOUS
<1> HIDE DEF r, d
<1>3. XpShape'
  BY <1>1 DEF XpInv, XpShape
<1>4. LoadShape'
  <2>1. due \in [Tabs -> BOOLEAN] /\ due' \in [Tabs -> BOOLEAN]
    BY <1>1 DEF XpInv, LoadShape
  <2>2. ASSUME NEW u \in Tabs, load[u].pc # "done" PROVE saves'[u] = <<>> /\ ~ due'[u]
    <3>1. saves[u] = <<>> /\ ~ due[u] /\ u # t
      BY <1>1, <2>2, QueueTyped
    <3> QED BY <1>1, <2>1, <3>1
  <2> QED BY <1>1, <2>1, <2>2 DEF XpInv, LoadShape
<1>5. ReqShape'
  BY <1>1, <1>2 DEF XpInv, ReqShape
<1>6. Around' \subseteq Around
  BY <1>1, <1>2, AroundIs, AroundIsNext
<1>7. StreamsApart' /\ Places' /\ OnePlace' /\ Credits' /\ Uncredited'
  BY <1>1, <1>6, CalmStep
<1>8. Unborn'
  <2> SUFFICES ASSUME ~ stats'.exists
               PROVE  /\ stats'.points = None /\ stats'.mark = NoMarks /\ stats'.ledger = <<>>
                      /\ \A u \in Tabs : /\ mem'[u].ids = {} /\ Counted(mem'[u])
                                         /\ load'[u].pc = "read" => ~ load'[u].exists
                                         /\ \A i \in DOMAIN saves'[u] : saves'[u][i].answer = {}
                      /\ Counted(store')
                      /\ \A q \in Requests' : Counted(q)
    BY UnbornNext
  <2>1. /\ stats.points = None /\ stats.mark = NoMarks /\ stats.ledger = <<>>
        /\ \A u \in Tabs : /\ mem[u].ids = {} /\ Counted(mem[u])
                           /\ load[u].pc = "read" => ~ load[u].exists
                           /\ \A i \in DOMAIN saves[u] : saves[u][i].answer = {}
        /\ Counted(store)
        /\ \A q \in Requests : Counted(q)
    BY <1>1 DEF XpInv, Unborn
  <2>2. Counted(r)
    BY <1>2, <2>1 DEF Counted
  <2>3. ASSUME NEW u \in Tabs, NEW i \in DOMAIN saves'[u] PROVE saves'[u][i].answer = {}
    <3>1. CASE u # t
      BY <1>1, <2>1, <2>3, <3>1
    <3>2. CASE u = t /\ i = Len(saves[t]) + 1
      BY <1>1, <1>2, <3>2
    <3>3. CASE u = t /\ i # Len(saves[t]) + 1
      <4>1. i \in DOMAIN saves[t]
        BY <1>1, <2>3, <3>3
      <4> QED BY <1>1, <2>1, <3>3, <4>1
    <3> QED BY <3>1, <3>2, <3>3
  <2> QED BY <1>1, <2>1, <2>2, <2>3
<1> QED BY <1>3, <1>4, <1>5, <1>7, <1>8 DEF XpInv

LEMMA AcknowledgeInv ==
    ASSUME XpInv, NEW t \in Tabs, Acknowledge(t)
    PROVE  XpInv'
<1> DEFINE y == Synced(t)
           base == Current(stream[t])
<1>1. /\ saves[t] # <<>> /\ Head(saves[t]).answer # {}
      /\ UNCHANGED <<stats, load, late, made>>
  BY DEF Acknowledge, Answered
<1>2. PICK reply \in Head(saves[t]).answer :
         LET m == Rebase(MergeOps(y.own, y.stored, reply.acked), reply) IN
         /\ store' = Kept(m)
         /\ TakeStream(t, stream[t], y.next)
         /\ IF Kept(m) = Kept(mem[t])
            THEN saves' = [saves EXCEPT ![t] = Tail(saves[t])] /\ UNCHANGED <<mem, due>>
            ELSE mem' = [mem EXCEPT ![t] = m] /\ Restart(t, Tail(saves[t]))
  BY DEF Acknowledge
<1> DEFINE merged == MergeOps(y.own, y.stored, reply.acked)
           m == Rebase(merged, reply)
<1>3. reply \in AnswerDoc
  <2>1. Head(saves[t]) \in SaveDoc
    BY <1>1, HeadIs
  <2> QED BY <2>1 DEF SaveDoc
<1>4. PICK k \in Nat :
         /\ y.next = Advanced(base, k)
         /\ y.stored \in Seq(OpDoc) /\ y.own \in Seq(OpDoc)
         /\ \A op \in Ops(y.stored) \cup Ops(y.own) :
               InStream(op) /\ (op \in Around \/ Taken(op, base, k))
  BY SyncedIs DEF XpInv
<1> HIDE DEF y, base
<1>5. merged \in Seq(OpDoc) /\ Ops(merged) \subseteq Ops(y.own) \cup Ops(y.stored)
  <2> DEFINE o1 == y.own
             s1 == y.stored
             ids == reply.acked
  <2>1. o1 \in Seq(OpDoc) /\ s1 \in Seq(OpDoc)
    BY <1>4
  <2> HIDE DEF o1, s1, ids
  <2>2. /\ MergeOps(o1, s1, ids) \in Seq(OpDoc)
        /\ Ops(MergeOps(o1, s1, ids)) = {op \in Ops(o1) \cup Ops(s1) : ~ Listed(op, ids)}
    BY <2>1, MergedOps
  <2> QED BY <2>2 DEF o1, s1, ids
<1> HIDE DEF merged
<1>6. /\ m \in [points : Points, pending : Seq(OpDoc), ids : SUBSET OpDoc]
      /\ Ops(m.pending) \subseteq Ops(merged)
  <2>1. reply.points \in Points /\ reply.ids \subseteq OpDoc
    BY <1>3 DEF AnswerDoc
  <2> QED BY <1>5, <2>1, RebaseIs
<1> HIDE DEF m
<1>7. mem \in [Tabs -> [points : Points, pending : Seq(OpDoc), ids : SUBSET OpDoc]]
  BY DEF XpInv, XpShape
<1>8. Fewer(Tail(saves[t]), saves[t])
  BY <1>1, QueueTyped, TailFewer
<1>9. /\ saves' \in [Tabs -> Seq(SaveDoc)] /\ Requests' \subseteq Requests /\ late' \subseteq Request
      /\ LoadShape'
      /\ mem' \in [Tabs -> [points : Points, pending : Seq(OpDoc), ids : SUBSET OpDoc]]
      /\ \A u \in Tabs : mem'[u] = mem[u] \/ mem'[u] = m
  <2>1. CASE Kept(m) = Kept(mem[t])
    <3>1. saves' = [saves EXCEPT ![t] = Tail(saves[t])] /\ UNCHANGED <<mem, due>>
      BY <1>2, <2>1 DEF m, merged
    <3>2. late' \subseteq Requests
      BY <1>1, RequestsAre
    <3>3. saves' \in [Tabs -> Seq(SaveDoc)] /\ Requests' \subseteq Requests /\ late' \subseteq Request
      BY <1>8, <3>1, <3>2, RequestsKept DEF XpInv
    <3>4. \A u \in Tabs : saves[u] = <<>> => saves'[u] = <<>>
      BY <1>1, <3>1 DEF XpInv, XpShape
    <3>5. LoadShape'
      BY <1>1, <3>1, <3>4 DEF XpInv, LoadShape
    <3> QED BY <1>7, <3>1, <3>3, <3>5
  <2>2. CASE Kept(m) # Kept(mem[t])
    <3>1. mem' = [mem EXCEPT ![t] = m] /\ Restart(t, Tail(saves[t]))
      BY <1>2, <2>2 DEF m, merged
    <3>2. saves' \in [Tabs -> Seq(SaveDoc)] /\ Requests' \subseteq Requests /\ late' \subseteq Request /\ LoadShape'
      BY <1>1, <1>8, <3>1, Restarted
    <3> QED BY <1>6, <1>7, <3>1, <3>2
  <2> QED BY <2>1, <2>2
<1>10. store' = [points |-> m.points, pending |-> m.pending] /\ store'.pending = m.pending /\ store' \in Snapshot
  <2>1. store' = Kept(m)
    BY <1>2 DEF m, merged
  <2> QED BY <1>6, <2>1 DEF Kept, Snapshot
<1>11. stream[t] \in StreamDoc /\ TakeStream(t, stream[t], Advanced(Current(stream[t]), k))
  BY <1>2, <1>4 DEF base, XpInv, XpShape
<1>12. stream' \in [Tabs -> StreamDoc] /\ clients' \in 0 .. MaxClients
  BY <1>11, StreamTaken DEF XpInv
<1> DEFINE A == {}
<1>13. ASSUME NEW op \in Around'
       PROVE  op \in Around \/ Fresh(op, Current(stream[t]), k, A) \/ Nameless(op)
  <2>1. op \in Around \/ op \in Ops(m.pending)
    <3>1. ASSUME NEW u \in Tabs, op \in Ops(mem'[u].pending) PROVE op \in Around \/ op \in Ops(m.pending)
      BY <1>9, <3>1, AroundIs
    <3>2. ASSUME NEW r \in Requests', op \in Ops(r.pending) PROVE op \in Around
      BY <1>9, <3>2, AroundIs
    <3> QED BY <1>10, <3>1, <3>2, AroundIsNext
  <2>2. ASSUME op \in Ops(m.pending) PROVE op \in Around \/ Taken(op, base, k)
    BY <1>4, <1>5, <1>6, <2>2
  <2>3. Taken(op, base, k) => Fresh(op, Current(stream[t]), k, A)
    BY DEF Taken, Fresh, base
  <2> QED BY <2>1, <2>2, <2>3
<1>14. StreamsApart' /\ Places' /\ OnePlace'
  <2>1. A \in SUBSET Unnamed /\ (\A a, b \in A : a = b) /\ (\A a \in A : made[a] = 0 /\ made'[a] > 0)
    OBVIOUS
  <2>2. \A a \in Unnamed : made[a] > 0 => made'[a] > 0
    BY <1>1
  <2> HIDE DEF A
  <2> QED BY <1>11, <1>13, <2>1, <2>2, PlaceStep DEF XpInv
<1>15. Credits' /\ Uncredited'
  <2>1. \A a \in Unnamed : made'[a] \in {0, 1} /\ made[a] <= made'[a]
    BY <1>1 DEF XpInv, Credits
  <2>2. \A op \in Around' : op.award \in Unnamed => op \in Around \/ stats.points[op.award] = 0
    BY <1>13 DEF Fresh, Nameless
  <2> QED BY <1>1, <2>1, <2>2, CalmCredits DEF XpInv
<1>16. Unborn'
  <2>1. Head(saves[t]) = saves[t][1] /\ 1 \in DOMAIN saves[t]
    BY <1>1, HeadIs
  <2>2. stats.exists
    BY <1>1, <2>1 DEF XpInv, Unborn
  <2> QED BY <1>1, <2>2 DEF Unborn
<1>17. XpShape'
  BY <1>1, <1>9, <1>10, <1>12 DEF XpInv, XpShape
<1>18. ReqShape'
  BY <1>9, FewerReqs DEF XpInv
<1> QED BY <1>9, <1>14, <1>15, <1>16, <1>17, <1>18 DEF XpInv

LEMMA ReloadIs ==
    ASSUME XpInv, NEW t \in Tabs, NEW navigated \in BOOLEAN, Reload(t, navigated)
    PROVE  LET old == [stream[t] EXCEPT !.fork = navigated]
               pending == Upgrade(store.pending, <<>>, Current(old))
               k == Cardinality(Unplaced(store.pending, <<>>)) IN
           /\ old \in StreamDoc /\ old.client = stream[t].client /\ old.seq = stream[t].seq
           /\ Current(old) \in StreamDoc /\ Current(old).client # 0
           /\ k \in Nat /\ pending \in Seq(OpDoc)
           /\ AwardsOf(pending) = AwardsOf(store.pending)
           /\ \A a \in Awards : Single(store.pending, a) => Single(pending, a)
           /\ \A op \in Ops(pending) : InStream(op) /\ (op \in Around \/ Taken(op, Current(old), k))
           /\ store' = [points |-> store.points, pending |-> pending]
           /\ mem' = [mem EXCEPT ![t] = [points |-> store.points, pending |-> pending, ids |-> {}]]
           /\ TakeStream(t, old, Advanced(Current(old), k))
           /\ load' = [load EXCEPT ![t] = Reading(ClientsOf(FirstOps(pending)))]
           /\ saves' = [saves EXCEPT ![t] = <<>>] /\ due' = [due EXCEPT ![t] = FALSE]
           /\ late' \subseteq Requests /\ Fewer(<<>>, saves[t])
           /\ t \in Reloaders
           /\ UNCHANGED <<stats, made>>
<1> DEFINE old == [stream[t] EXCEPT !.fork = navigated]
           pending == Upgrade(store.pending, <<>>, Current(old))
           k == Cardinality(Unplaced(store.pending, <<>>))
<1>1. old \in StreamDoc /\ old.client = stream[t].client /\ old.seq = stream[t].seq
  BY DEF XpInv, XpShape, StreamDoc
<1>2. /\ store' = [store EXCEPT !.pending = pending]
      /\ mem' = [mem EXCEPT ![t] = [points |-> store.points, pending |-> pending, ids |-> {}]]
      /\ TakeStream(t, old, Advanced(Current(old), k))
      /\ load' = [load EXCEPT ![t] = Reading(ClientsOf(FirstOps(pending)))]
      /\ late' = IF Open(t) THEN late \cup {Head(saves[t]).req} ELSE late
      /\ saves' = [saves EXCEPT ![t] = <<>>] /\ due' = [due EXCEPT ![t] = FALSE]
      /\ t \in Reloaders
      /\ UNCHANGED <<stats, made>>
  BY DEF Reload
<1> HIDE DEF old
<1>3. Current(old) \in StreamDoc /\ Current(old).client # 0
  BY <1>1, CurrentIs DEF XpInv
<1>4. /\ k \in Nat /\ pending \in Seq(OpDoc)
      /\ AwardsOf(pending) = AwardsOf(store.pending)
      /\ \A a \in Awards : Single(store.pending, a) => Single(pending, a)
      /\ \A op \in Ops(pending) : InStream(op) /\ (op \in Around \/ Taken(op, Current(old), k))
  <2> DEFINE none == <<>>
             s == store.pending
             st == Current(old)
  <2>1. s \in Seq(OpDoc) /\ Ops(s) \subseteq Around /\ none \in Seq(OpDoc) /\ Ops(none) = {}
    BY AroundDoc, AroundIs, OpsOfEmpty DEF XpInv
  <2>2. st \in StreamDoc /\ st.client # 0
    BY <1>3
  <2> HIDE DEF none, s, st
  <2>3. /\ Cardinality(Unplaced(s, none)) \in Nat /\ Upgrade(s, none, st) \in Seq(OpDoc)
        /\ AwardsOf(Upgrade(s, none, st)) = AwardsOf(s)
        /\ \A a \in Awards : Single(s, a) => Single(Upgrade(s, none, st), a)
        /\ \A op \in Ops(Upgrade(s, none, st)) :
              InStream(op) /\ (op \in Ops(s) \/ op \in Ops(none) \/ Taken(op, st, Cardinality(Unplaced(s, none))))
    BY <2>1, <2>2, UpgradedIs DEF XpInv
  <2>4. \A op \in Ops(Upgrade(s, none, st)) :
           InStream(op) /\ (op \in Around \/ Taken(op, st, Cardinality(Unplaced(s, none))))
    BY <2>1, <2>3
  <2> QED BY <2>3, <2>4 DEF none, s, st
<1> HIDE DEF pending, k
<1>5. store' = [points |-> store.points, pending |-> pending]
  BY <1>2 DEF XpInv, XpShape, Snapshot
<1>6. late' \subseteq Requests
  BY <1>2, RequestsAre, HeadIs DEF Open
<1>7. Fewer(<<>>, saves[t])
  BY DEF Fewer
<1> QED BY <1>1, <1>2, <1>3, <1>4, <1>5, <1>6, <1>7 DEF old, pending, k

LEMMA ReloadInv ==
    ASSUME XpInv, NEW t \in Tabs, NEW navigated \in BOOLEAN, Reload(t, navigated)
    PROVE  XpInv'
<1> DEFINE old == [stream[t] EXCEPT !.fork = navigated]
           pending == Upgrade(store.pending, <<>>, Current(old))
           k == Cardinality(Unplaced(store.pending, <<>>))
           m == [points |-> store.points, pending |-> pending, ids |-> {}]
           none == <<>>
           A == {}
<1>1. /\ old \in StreamDoc /\ old.client = stream[t].client /\ old.seq = stream[t].seq
      /\ k \in Nat /\ pending \in Seq(OpDoc)
      /\ AwardsOf(pending) = AwardsOf(store.pending)
      /\ \A a \in Awards : Single(store.pending, a) => Single(pending, a)
      /\ \A op \in Ops(pending) : InStream(op) /\ (op \in Around \/ Taken(op, Current(old), k))
      /\ store' = [points |-> store.points, pending |-> pending]
      /\ mem' = [mem EXCEPT ![t] = m]
      /\ TakeStream(t, old, Advanced(Current(old), k))
      /\ load' = [load EXCEPT ![t] = Reading(ClientsOf(FirstOps(pending)))]
      /\ saves' = [saves EXCEPT ![t] = none] /\ due' = [due EXCEPT ![t] = FALSE]
      /\ late' \subseteq Requests /\ Fewer(none, saves[t])
      /\ UNCHANGED <<stats, made>>
  BY ReloadIs
<1> HIDE DEF old, pending, k
<1>2. store.points \in Points /\ m \in [points : Points, pending : Seq(OpDoc), ids : SUBSET OpDoc]
      /\ m.points = store.points /\ m.pending = pending /\ m.ids = {}
      /\ store'.points = store.points /\ store'.pending = pending
  <2>1. store.points \in Points
    BY AroundDoc DEF XpInv
  <2> QED BY <1>1, <2>1
<1> HIDE DEF m, none
<1>3. mem \in [Tabs -> [points : Points, pending : Seq(OpDoc), ids : SUBSET OpDoc]]
  BY DEF XpInv, XpShape
<1>4. mem'[t] = m /\ \A u \in Tabs \ {t} : mem'[u] = mem[u]
  BY <1>1, <1>3
<1>5. /\ saves' \in [Tabs -> Seq(SaveDoc)] /\ Requests' \subseteq Requests /\ late' \subseteq Request
      /\ (\A u \in Tabs : \A i \in DOMAIN saves[u] : saves[u][i].answer = {}) =>
            \A u \in Tabs : \A i \in DOMAIN saves'[u] : saves'[u][i].answer = {}
  BY <1>1, RequestsKept DEF XpInv
<1>6. XpShape'
  <2>1. mem' \in [Tabs -> [points : Points, pending : Seq(OpDoc), ids : SUBSET OpDoc]]
    BY <1>1, <1>2, <1>3
  <2>2. store' \in Snapshot
    BY <1>1, <1>2 DEF Snapshot
  <2>3. stream' \in [Tabs -> StreamDoc] /\ clients' \in 0 .. MaxClients
    BY <1>1, StreamTaken DEF XpInv
  <2> QED BY <1>1, <1>5, <2>1, <2>2, <2>3 DEF XpInv, XpShape
<1>7. LoadShape' /\ load'[t].pc = "reading" /\ \A u \in Tabs \ {t} : load'[u] = load[u]
  <2>1. load'[t].pc = "reading" /\ DOMAIN load' = Tabs /\ \A u \in Tabs \ {t} : load'[u] = load[u]
    BY <1>1 DEF XpInv, LoadShape, Reading
  <2>2. due' \in [Tabs -> BOOLEAN] /\ ~ due'[t] /\ \A u \in Tabs \ {t} : due'[u] = due[u]
    BY <1>1 DEF XpInv, LoadShape
  <2>3. saves'[t] = <<>> /\ \A u \in Tabs \ {t} : saves'[u] = saves[u]
    BY <1>1 DEF XpInv, XpShape, none
  <2>4. ASSUME NEW u \in Tabs
        PROVE  /\ load'[u].pc \in {"reading", "read", "done"}
               /\ load'[u].pc = "read" => /\ u \in Readers /\ load'[u].exists \in BOOLEAN
                                          /\ load'[u].cloud \in CloudDoc
               /\ load'[u].pc = "done" => load'[u] = Done
               /\ load'[u].pc # "done" => saves'[u] = <<>> /\ ~ due'[u]
    <3>1. CASE u = t
      BY <2>1, <2>2, <2>3, <3>1
    <3>2. CASE u # t
      BY <2>1, <2>2, <2>3, <3>2 DEF XpInv, LoadShape
    <3> QED BY <3>1, <3>2
  <2> QED BY <2>1, <2>2, <2>4 DEF LoadShape
<1>8. ReqShape'
  BY <1>5, FewerReqs DEF XpInv
<1>9. ASSUME NEW op \in Around'
      PROVE  op \in Around \/ Fresh(op, Current(old), k, A) \/ Nameless(op)
  <2>1. op \in Around \/ op \in Ops(pending)
    <3>1. ASSUME NEW u \in Tabs, op \in Ops(mem'[u].pending) PROVE op \in Around \/ op \in Ops(pending)
      <4>1. CASE u = t
        BY <1>2, <1>4, <3>1, <4>1
      <4>2. CASE u # t
        BY <1>4, <3>1, <4>2, AroundIs
      <4> QED BY <4>1, <4>2
    <3>2. ASSUME NEW r \in Requests', op \in Ops(r.pending) PROVE op \in Around
      BY <1>5, <3>2, AroundIs
    <3> QED BY <1>2, <3>1, <3>2, AroundIsNext
  <2>2. ASSUME op \in Ops(pending) PROVE op \in Around \/ Taken(op, Current(old), k)
    BY <1>1, <2>2
  <2>3. Taken(op, Current(old), k) => Fresh(op, Current(old), k, A)
    BY DEF Taken, Fresh
  <2> QED BY <2>1, <2>2, <2>3
<1>10. StreamsApart' /\ Places' /\ OnePlace'
  <2>1. A \in SUBSET Unnamed /\ (\A a, b \in A : a = b) /\ (\A a \in A : made[a] = 0 /\ made'[a] > 0)
    OBVIOUS
  <2>2. \A a \in Unnamed : made[a] > 0 => made'[a] > 0
    BY <1>1
  <2> HIDE DEF A
  <2> QED BY <1>1, <1>9, <2>1, <2>2, PlaceStep DEF XpInv
<1>11. Credits' /\ Uncredited'
  <2>1. \A a \in Unnamed : made'[a] \in {0, 1} /\ made[a] <= made'[a]
    BY <1>1 DEF XpInv, Credits
  <2>2. \A op \in Around' : op.award \in Unnamed => op \in Around \/ stats.points[op.award] = 0
    BY <1>9 DEF Fresh, Nameless
  <2> QED BY <1>1, <2>1, <2>2, CalmCredits DEF XpInv
<1>12. Unborn'
  <2> SUFFICES ASSUME ~ stats'.exists
               PROVE  /\ stats'.points = None /\ stats'.mark = NoMarks /\ stats'.ledger = <<>>
                      /\ \A u \in Tabs : /\ mem'[u].ids = {} /\ Counted(mem'[u])
                                         /\ load'[u].pc = "read" => ~ load'[u].exists
                                         /\ \A i \in DOMAIN saves'[u] : saves'[u][i].answer = {}
                      /\ Counted(store')
                      /\ \A r \in Requests' : Counted(r)
    BY UnbornNext
  <2>1. /\ stats.points = None /\ stats.mark = NoMarks /\ stats.ledger = <<>>
        /\ \A u \in Tabs : /\ mem[u].ids = {} /\ Counted(mem[u])
                           /\ load[u].pc = "read" => ~ load[u].exists
                           /\ \A i \in DOMAIN saves[u] : saves[u][i].answer = {}
        /\ Counted(store)
        /\ \A r \in Requests : Counted(r)
    BY <1>1 DEF XpInv, Unborn
  <2>2. Counted(store') /\ Counted(m)
    BY <1>1, <1>2, <2>1 DEF Counted, Unnamed
  <2>3. ASSUME NEW u \in Tabs
        PROVE  mem'[u].ids = {} /\ Counted(mem'[u]) /\ (load'[u].pc = "read" => ~ load'[u].exists)
    <3>1. CASE u = t
      BY <1>2, <1>4, <1>7, <2>2, <3>1
    <3>2. CASE u # t
      BY <1>4, <1>7, <2>1, <3>2
    <3> QED BY <3>1, <3>2
  <2> QED BY <1>1, <1>5, <2>1, <2>2, <2>3
<1> QED BY <1>6, <1>7, <1>8, <1>10, <1>11, <1>12 DEF XpInv

-----------------------------------------------------------------------------
(* The invariant, and the account.                                         *)

LEMMA XpStart == XpInit => XpInv
<1> SUFFICES ASSUME XpInit PROVE XpInv
  OBVIOUS
<1> DEFINE none == <<>>
<1>0. none \in Seq(OpDoc) /\ none \in Seq(SaveDoc) /\ Ops(none) = {} /\ DOMAIN none = {}
  BY OpsOfEmpty
<1>1. /\ stats = [exists |-> FALSE, points |-> None, mark |-> NoMarks, ledger |-> none]
      /\ store = [points |-> None, pending |-> none]
      /\ mem = [t \in Tabs |-> [points |-> None, pending |-> none, ids |-> {}]]
      /\ stream = [t \in Tabs |-> NoStream]
      /\ clients = 0 /\ load = [t \in Tabs |-> Reading({})]
      /\ due = [t \in Tabs |-> FALSE] /\ saves = [t \in Tabs |-> none]
      /\ late = {} /\ made = None
  BY DEF XpInit
<1>2. None \in Points /\ NoMarks \in Marks /\ NoStream \in StreamDoc /\ MaxClients \in Nat
  BY SizeAssumption DEF None, NoMarks, NoStream, Points, Marks, StreamDoc
<1>3. Requests = {}
  <2>1. \A t \in Tabs : DOMAIN saves[t] = {}
    BY <1>0, <1>1
  <2> QED BY <1>1, <2>1 DEF Requests
<1>4. Around = {}
  <2>1. store.pending = none /\ \A t \in Tabs : mem[t].pending = none
    BY <1>1
  <2> QED BY <1>0, <1>3, <2>1, AroundIs
<1> HIDE DEF none
<1>5. XpShape
  BY <1>0, <1>1, <1>2 DEF XpShape, Snapshot, Points, None
<1>6. LoadShape
  <2>1. \A t \in Tabs : load[t].pc = "reading" /\ saves[t] = none /\ ~ due[t]
    BY <1>1 DEF Reading
  <2> QED BY <1>1, <2>1 DEF LoadShape, none
<1>7. ReqShape /\ Places /\ OnePlace /\ Uncredited
  BY <1>3, <1>4 DEF ReqShape, Places, OnePlace, Uncredited
<1>8. StreamsApart
  BY <1>1 DEF StreamsApart, NoStream
<1>9. Credits
  BY <1>1 DEF Credits, None, Unnamed
<1>10. Unborn
  <2>1. \A a \in Unnamed : Single(none, a) /\ None[a] = 0 /\ a \notin AwardsOf(none)
    BY <1>0 DEF Single, None, Unnamed, AwardsOf
  <2>2. Counted(store) /\ \A t \in Tabs : Counted(mem[t])
    BY <1>1, <2>1 DEF Counted
  <2>3. \A t \in Tabs : /\ mem[t].ids = {} /\ load[t].pc # "read"
                        /\ \A i \in DOMAIN saves[t] : saves[t][i].answer = {}
    BY <1>0, <1>1 DEF Reading
  <2> QED BY <1>1, <1>3, <2>2, <2>3 DEF Unborn, none
<1> QED BY <1>5, <1>6, <1>7, <1>8, <1>9, <1>10 DEF XpInv

LEMMA XpStay == XpInv /\ UNCHANGED xpVars => XpInv'
<1> SUFFICES ASSUME XpInv, UNCHANGED xpVars PROVE XpInv'
  OBVIOUS
<1>1. UNCHANGED <<stats, store, mem, stream, clients, load, due, saves, late, made>>
  BY DEF xpVars
<1>2. LoadShape'
  BY <1>1 DEF XpInv, LoadShape
<1>3. \A u \in Tabs : load'[u].pc = "read" => load'[u] = load[u] \/ load'[u].exists = stats.exists
  BY <1>1
<1> QED BY <1>1, <1>2, <1>3, LoadStep

LEMMA XpStep == XpInv /\ [XpNext]_xpVars => XpInv'
<1> SUFFICES ASSUME XpInv, [XpNext]_xpVars PROVE XpInv'
  OBVIOUS
<1>1. ASSUME NEW t \in Tabs, Proceed(t) PROVE XpInv'
  BY <1>1, ReadCloudInv, PublishInv, ReadFailsInv, ScheduleInv, SaveInv, IgnoreInv, AcknowledgeInv
     DEF Proceed
<1>2. ASSUME NEW t \in Tabs, Fault(t) PROVE XpInv'
  BY <1>2, FaultInv
<1>3. ASSUME NEW t \in Tabs, NEW a \in Awards, Award(t, a) PROVE XpInv'
  BY <1>3, AwardInv
<1>4. ASSUME NEW t \in Tabs, NEW navigated \in BOOLEAN, Reload(t, navigated) PROVE XpInv'
  BY <1>4, ReloadInv
<1>5. ASSUME NEW req \in late, LateSave(req) PROVE XpInv'
  BY <1>5, LateSaveInv
<1>6. CASE UNCHANGED xpVars
  BY <1>6, XpStay
<1> QED BY <1>1, <1>2, <1>3, <1>4, <1>5, <1>6 DEF XpNext

LEMMA AccountStart == XpInit => Account!AccountInit
<1> SUFFICES ASSUME XpInit PROVE Account!AccountInit
  OBVIOUS
<1>1. \A a \in Unnamed : made[a] = 0 /\ stats.points[a] = 0
  BY DEF XpInit, None, Unnamed
<1> QED BY <1>1 DEF Account!AccountInit

\* An accepted save settles the awards it is the first to bring.
LEMMA Settled ==
    ASSUME XpInv, NEW req \in Requests, stats' = Saved(req), UNCHANGED made
    PROVE  Account!AccountNext
<1> DEFINE batch == {a \in Unnamed : stats.points[a] = 0 /\ stats'.points[a] = 1}
<1>1. \A a \in Unnamed : /\ stats'.points[a] \in {0, 1} /\ stats.points[a] \in {0, 1}
                         /\ stats.points[a] <= stats'.points[a]
                         /\ stats'.points[a] = 1 => made[a] = 1
  BY SavedIs DEF XpInv, Credits, Acceptable
<1>2. batch \subseteq {a \in {b \in Unnamed : made[b] > 0} : [b \in Unnamed |-> stats.points[b]][a] = 0}
  BY <1>1
<1>3. [a \in Unnamed |-> stats'.points[a]]
        = [a \in Unnamed |-> IF a \in batch THEN 1 ELSE [b \in Unnamed |-> stats.points[b]][a]]
  BY <1>1
<1>4. Unnamed' = Unnamed
  BY DEF Unnamed
<1>5. PICK b \in SUBSET Unnamed : b = batch
  OBVIOUS
<1>6. /\ b \subseteq {a \in {c \in Unnamed : made[c] > 0} : [c \in Unnamed |-> stats.points[c]][a] = 0}
      /\ [a \in Unnamed |-> stats'.points[a]]
            = [a \in Unnamed |-> IF a \in b THEN 1 ELSE [c \in Unnamed |-> stats.points[c]][a]]
  BY <1>2, <1>3, <1>5
<1> HIDE DEF batch
<1>7. Account!Settle(b)
  BY <1>4, <1>6 DEF Account!Settle
<1> QED BY <1>7 DEF Account!AccountNext

LEMMA Earned ==
    ASSUME XpInv, NEW t \in Tabs, NEW a \in Awards, Award(t, a)
    PROVE  [Account!AccountNext]_(Account!accountVars)
<1>1. made' = [made EXCEPT ![a] = made[a] + 1] /\ UNCHANGED stats
  BY DEF Award
<1>2. made \in [Awards -> Nat]
  BY DEF XpInv, XpShape
<1>3. Unnamed' = Unnamed /\ Unnamed \subseteq Awards
  BY DEF Unnamed
<1>4. made'[a] > 0 /\ \A b \in Awards \ {a} : made'[b] = made[b]
  BY <1>1, <1>2
<1>5. [b \in Unnamed |-> stats'.points[b]] = [b \in Unnamed |-> stats.points[b]]
  BY <1>1
<1>6. CASE a \in Unnamed
  <2>1. {b \in Unnamed : made'[b] > 0} = {b \in Unnamed : made[b] > 0} \cup {a}
    BY <1>3, <1>4, <1>6
  <2>2. Account!Earn(a)
    BY <1>3, <1>5, <2>1 DEF Account!Earn
  <2> QED BY <1>6, <2>2 DEF Account!AccountNext
<1>7. CASE a \notin Unnamed
  <2>1. {b \in Unnamed : made'[b] > 0} = {b \in Unnamed : made[b] > 0}
    BY <1>3, <1>4, <1>7
  <2> QED BY <1>3, <1>5, <2>1 DEF Account!accountVars
<1> QED BY <1>6, <1>7

LEMMA AccountStep == XpInv /\ [XpNext]_xpVars => [Account!AccountNext]_(Account!accountVars)
<1> SUFFICES ASSUME XpInv, [XpNext]_xpVars PROVE [Account!AccountNext]_(Account!accountVars)
  OBVIOUS
<1>1. ASSUME UNCHANGED <<stats, made>> PROVE [Account!AccountNext]_(Account!accountVars)
  BY <1>1 DEF Account!accountVars, Unnamed
<1>2. ASSUME NEW t \in Tabs, Proceed(t), ~ Save(t) PROVE UNCHANGED <<stats, made>>
  BY <1>2 DEF Proceed, ReadCloud, Publish, ReadFails, Schedule, Ignore, Acknowledge
<1>3. ASSUME NEW t \in Tabs, Save(t) PROVE [Account!AccountNext]_(Account!accountVars)
  <2> DEFINE req == Head(saves[t]).req
  <2>1. saves[t] # <<>> /\ UNCHANGED made
    BY <1>3 DEF Save, Open
  <2>2. req \in Requests
    BY <2>1, HeadIs
  <2>3. UNCHANGED stats \/ stats' = Saved(req)
    BY <1>3 DEF Save
  <2> HIDE DEF req
  <2> QED BY <1>1, <2>1, <2>2, <2>3, Settled
<1>4. ASSUME NEW req \in late, LateSave(req) PROVE [Account!AccountNext]_(Account!accountVars)
  <2>1. UNCHANGED made /\ (UNCHANGED stats \/ stats' = Saved(req))
    BY <1>4 DEF LateSave
  <2> QED BY <1>1, <2>1, RequestsAre, Settled
<1>5. ASSUME NEW t \in Tabs, Fault(t) PROVE UNCHANGED <<stats, made>>
  BY <1>5 DEF Fault
<1>6. ASSUME NEW t \in Tabs, NEW navigated \in BOOLEAN, Reload(t, navigated)
      PROVE  UNCHANGED <<stats, made>>
  BY <1>6 DEF Reload
<1>7. ASSUME UNCHANGED xpVars PROVE UNCHANGED <<stats, made>>
  BY <1>7 DEF xpVars
<1> QED BY <1>1, <1>2, <1>3, <1>4, <1>5, <1>6, <1>7, Earned DEF XpNext

\* In every state the operations of awards without a name have places of their
\* own, the account counts each of them no more than once, and only one that was
\* made and that its stream's watermark has reached.
THEOREM XpInvariant == XpSpec => []XpInv
<1>1. XpInit => XpInv
  BY XpStart
<1>2. XpInv /\ [XpNext]_xpVars => XpInv'
  BY XpStep
<1> QED BY <1>1, <1>2, PTL DEF XpSpec

\* Tabs, answers, retries and reloads together implement the account: an award
\* that has a place is credited once, after it was made
\* (applyGamificationForOwner).
THEOREM XpImplementsAccount == XpSpec => ImplementsXpAccount
<1>1. XpInit => Account!AccountInit
  BY AccountStart
<1>2. XpInv /\ [XpNext]_xpVars => [Account!AccountNext]_(Account!accountVars)
  BY AccountStep
<1> QED BY <1>1, <1>2, XpInvariant, PTL DEF XpSpec, ImplementsXpAccount, Account!AccountSpec

-----------------------------------------------------------------------------
(* No award has a name.                                                    *)

LEMMA AllPlaced ==
    ASSUME Named = {}, XpInv
    PROVE  /\ Unnamed = Awards
           /\ \A op \in Around : /\ op \in OpDoc /\ InStream(op) /\ op.award \in Awards
                                 /\ op.client \in Clients /\ op.client \in Nat /\ op.seq \in Nat
                                 /\ stats.mark[op.client] \in Nat
                                 /\ op.client <= clients
           /\ \A c \in Clients : c \in Nat /\ c # 0 /\ stats.mark[c] \in Nat
<1>1. Unnamed = Awards
  BY DEF Unnamed
<1>2. \A op \in Around : op \in OpDoc /\ Inside(op) /\ op.client \in Nat /\ op.seq \in Nat
  BY InsideAround DEF XpInv
<1>3. \A op \in Around : op.award \in Awards
  BY <1>2 DEF OpDoc
<1>4. \A op \in Around : InStream(op) /\ op.client <= clients
  BY <1>1, <1>3 DEF XpInv, Places
<1>5. \A c \in Clients : c \in Nat /\ c # 0 /\ stats.mark[c] \in Nat
  <2>1. stats.mark \in Marks
    BY QueueTyped
  <2> QED BY <2>1, SizeAssumption DEF Marks, Clients
<1> QED BY <1>1, <1>2, <1>3, <1>4, <1>5 DEF Inside

\* Operations that have places keep them.
LEMMA PlacedKept ==
    ASSUME NEW s \in Seq(OpDoc), \A op \in Ops(s) : InStream(op), NEW known, NEW st
    PROVE  Upgrade(s, known, st) = s /\ Unplaced(s, known) = {}
<1>1. \A i \in DOMAIN s : InStream(s[i])
  BY OpIn
<1>2. Unplaced(s, known) = {}
  BY <1>1 DEF Unplaced
<1>3. Upgrade(s, known, st) = [i \in DOMAIN s |-> s[i]]
  BY <1>1 DEF Upgrade
<1>4. s = [i \in DOMAIN s |-> s[i]]
  OBVIOUS
<1> QED BY <1>2, <1>3, <1>4

LEMMA NoneAdvanced ==
    ASSUME NEW st \in StreamDoc
    PROVE  Advanced(st, Cardinality({})) = st
<1>1. Cardinality({}) = 0
  BY FS_EmptySet
<1> QED BY <1>1 DEF Advanced, StreamDoc

LEMMA SyncedSame ==
    ASSUME Named = {}, XpInv, NEW t \in Tabs
    PROVE  /\ Synced(t).stored = store.pending /\ Synced(t).own = mem[t].pending
           /\ Synced(t).next = Current(stream[t])
<1> DEFINE none == <<>>
           st == Current(stream[t])
           s == store.pending
           m == mem[t].pending
<1>1. /\ s \in Seq(OpDoc) /\ m \in Seq(OpDoc)
      /\ \A op \in Ops(s) : InStream(op)
      /\ \A op \in Ops(m) : InStream(op)
  BY AroundDoc, AroundIs, AllPlaced DEF XpInv
<1>2. st \in StreamDoc
  <2>1. stream[t] \in StreamDoc
    BY DEF XpInv, XpShape
  <2> QED BY <2>1, CurrentIs DEF XpInv
<1> HIDE DEF none, st, s, m
<1>3. Upgrade(s, none, st) = s /\ Unplaced(s, none) = {} /\ Advanced(st, Cardinality({})) = st
  BY <1>1, <1>2, PlacedKept, NoneAdvanced
<1>4. Upgrade(m, s, st) = m /\ Unplaced(m, s) = {}
  BY <1>1, PlacedKept
<1>5. /\ Synced(t).stored = Upgrade(s, none, st)
      /\ Synced(t).own = Upgrade(m, Upgrade(s, none, st), Advanced(st, Cardinality(Unplaced(s, none))))
      /\ Synced(t).next = Advanced(Advanced(st, Cardinality(Unplaced(s, none))),
                                   Cardinality(Unplaced(m, Upgrade(s, none, st))))
  BY DEF Synced, none, st, s, m
<1>6. Synced(t).stored = s /\ Synced(t).own = m /\ Synced(t).next = st
  BY <1>3, <1>4, <1>5
<1> QED BY <1>6 DEF s, m, st

\* No stream is taken a place of.
LEMMA StreamLeft ==
    ASSUME XpInv, NEW t \in Tabs, NEW old \in StreamDoc, TakeStream(t, old, Current(old))
    PROVE  stream' = [stream EXCEPT ![t] = old] /\ UNCHANGED clients
BY DEF TakeStream

-----------------------------------------------------------------------------
(* The tabs hold what the cloud misses.                                    *)

LEMMA ListedMarked ==
    ASSUME NEW ids, \A o \in ids : Marked(o), NEW op, Listed(op, ids)
    PROVE  op \in ids /\ Marked(op)
BY SizeAssumption DEF Listed, Marked, Plain, Clients

LEMMA AppliedMarked ==
    ASSUME XpInv, NEW op \in OpDoc, op.client \in Clients, NEW cloud, cloud.mark \in Marks,
           \A o \in cloud.ids : Marked(o), Below(cloud.mark), Applied(op, cloud)
    PROVE  Marked(op)
<1>1. op.seq \in Nat /\ cloud.mark[op.client] \in Nat /\ stats.mark[op.client] \in Nat
  BY QueueTyped DEF OpDoc, Marks
<1> QED BY <1>1 DEF Applied, Marked, Below

\* What is marked stays so.
LEMMA MarksGrow ==
    ASSUME XpInv, stats'.mark \in Marks, \A c \in Clients : stats.mark[c] <= stats'.mark[c],
           NEW op \in OpDoc, Marked(op)
    PROVE  op.client \in Clients /\ op.seq <= stats'.mark[op.client]
<1>1. op.seq \in Nat /\ op.client \in Clients /\ stats'.mark[op.client] \in Nat /\ stats.mark[op.client] \in Nat
  BY QueueTyped DEF OpDoc, Marks, Marked
<1> QED BY <1>1 DEF Marked

LEMMA ToldStep ==
    ASSUME XpInv, Told, stats'.mark \in Marks, \A c \in Clients : stats.mark[c] <= stats'.mark[c],
           \A op \in Ops(stats'.ledger) :
              op \in Ops(stats.ledger) \/ (op.client \in Clients /\ op.seq <= stats'.mark[op.client]),
           \A u \in Tabs : \A op \in mem'[u].ids :
              op \in mem[u].ids \/ (op.client \in Clients /\ op.seq <= stats'.mark[op.client]),
           \A u \in Tabs : load'[u].pc = "read" =>
              \/ load'[u] = load[u]
              \/ /\ \A op \in load'[u].cloud.ids : op.client \in Clients /\ op.seq <= stats'.mark[op.client]
                 /\ \A c \in Clients : load'[u].cloud.mark[c] <= stats'.mark[c],
           \A u \in Tabs : \A i \in DOMAIN saves'[u] : \A reply \in saves'[u][i].answer :
              \/ \E j \in DOMAIN saves[u] : reply \in saves[u][j].answer
              \/ /\ \A op \in reply.acked \cup reply.ids :
                       op.client \in Clients /\ op.seq <= stats'.mark[op.client]
                 /\ \A c \in Clients : reply.mark[c] <= stats'.mark[c]
    PROVE  Told'
<1> DEFINE In(op) == op.client \in Clients /\ op.seq <= stats'.mark[op.client]
           Under(mark) == \A c \in Clients : mark[c] <= stats'.mark[c]
<1>1. \A op \in OpDoc : Marked(op) => In(op)
  BY MarksGrow
<1>2. ASSUME NEW mark \in Marks, Below(mark) PROVE Under(mark)
  <2>1. \A c \in Clients : mark[c] \in Nat /\ stats.mark[c] \in Nat /\ stats'.mark[c] \in Nat
    BY QueueTyped DEF Marks
  <2> QED BY <1>2, <2>1 DEF Below
<1>3. \A op \in Ops(stats.ledger) : op \in OpDoc
  BY QueueTyped, OpIn
<1>4. \A u \in Tabs : mem[u].ids \subseteq OpDoc
  BY AroundDoc DEF XpInv
<1>5. ASSUME NEW op \in Ops(stats'.ledger) PROVE In(op)
  BY <1>1, <1>3 DEF Told
<1>6. ASSUME NEW u \in Tabs, NEW op \in mem'[u].ids PROVE In(op)
  BY <1>1, <1>4 DEF Told
<1>7. ASSUME NEW u \in Tabs, load'[u].pc = "read"
      PROVE  (\A op \in load'[u].cloud.ids : In(op)) /\ Under(load'[u].cloud.mark)
  <2>1. CASE load'[u] = load[u]
    <3>1. load[u].cloud \in CloudDoc
      BY <1>7, <2>1 DEF XpInv, LoadShape
    <3>2. load[u].cloud.ids \subseteq OpDoc /\ load[u].cloud.mark \in Marks
      BY <3>1 DEF CloudDoc
    <3>3. (\A op \in load[u].cloud.ids : Marked(op)) /\ Below(load[u].cloud.mark)
      BY <1>7, <2>1 DEF Told
    <3>4. Under(load[u].cloud.mark)
      BY <1>2, <3>2, <3>3
    <3>5. \A op \in load[u].cloud.ids : In(op)
      BY <1>1, <3>2, <3>3
    <3> QED BY <2>1, <3>4, <3>5
  <2>2. CASE load'[u] # load[u]
    BY <1>7, <2>2
  <2> QED BY <2>1, <2>2
<1>8. ASSUME NEW u \in Tabs, NEW i \in DOMAIN saves'[u], NEW reply \in saves'[u][i].answer
      PROVE  (\A op \in reply.acked \cup reply.ids : In(op)) /\ Under(reply.mark)
  <2>1. ASSUME NEW j \in DOMAIN saves[u], reply \in saves[u][j].answer
        PROVE  (\A op \in reply.acked \cup reply.ids : In(op)) /\ Under(reply.mark)
    <3>1. saves[u][j] \in SaveDoc
      BY QueueTyped, OpIn
    <3>2. reply \in AnswerDoc
      BY <2>1, <3>1 DEF SaveDoc
    <3>3. reply.acked \subseteq OpDoc /\ reply.ids \subseteq OpDoc /\ reply.mark \in Marks
      BY <3>2 DEF AnswerDoc
    <3>4. (\A op \in reply.acked \cup reply.ids : Marked(op)) /\ Below(reply.mark)
      BY <2>1 DEF Told
    <3>5. Under(reply.mark)
      BY <1>2, <3>3, <3>4
    <3>6. \A op \in reply.acked \cup reply.ids : In(op)
      BY <1>1, <3>3, <3>4
    <3> QED BY <3>5, <3>6
  <2> QED BY <1>8, <2>1
<1> QED BY <1>5, <1>6, <1>7, <1>8 DEF Told, Marked, Below

\* A step after which the cloud stands where it stood, or further.
LEMMA ListsStay ==
    ASSUME Named = {}, XpInv, GapInv, stats'.mark \in Marks,
           \A c \in Clients : stats.mark[c] <= stats'.mark[c],
           UNCHANGED <<store, mem, stream>>
    PROVE  NoGaps' /\ HasItsOwn' /\ StoreHas'
<1>1. \A c \in Clients : stats.mark[c] \in Nat /\ stats'.mark[c] \in Nat /\ stats.mark[c] <= stats'.mark[c]
  BY AllPlaced DEF Marks
<1>2. ASSUME NEW s \in Seq(OpDoc), \A op \in Ops(s) : op \in Around, NoGap(s, stats.mark)
      PROVE  NoGap(s, stats'.mark)
  <2> SUFFICES ASSUME NEW i \in DOMAIN s, NEW n \in stats'.mark[s[i].client] + 1 .. s[i].seq - 1
               PROVE  \E j \in 1 .. i - 1 : s[j].client = s[i].client /\ s[j].seq = n
    BY DEF NoGap
  <2>1. s[i].client \in Clients /\ s[i].seq \in Nat
    BY <1>2, OpIn, AllPlaced
  <2>2. n \in stats.mark[s[i].client] + 1 .. s[i].seq - 1
    BY <1>1, <2>1
  <2> QED BY <1>2, <2>2 DEF NoGap
<1>3. NoGap(store.pending, stats'.mark)
  BY <1>2, AroundDoc, AroundIs DEF XpInv, GapInv, NoGaps
<1>4. \A u \in Tabs : NoGap(mem[u].pending, stats'.mark)
  BY <1>2, AroundDoc, AroundIs DEF XpInv, GapInv, NoGaps
<1>5. NoGaps'
  BY <1>3, <1>4 DEF NoGaps
<1>6. HasItsOwn'
  <2> SUFFICES ASSUME NEW u \in Tabs, stream[u].client \in Clients,
                      NEW n \in stats'.mark[stream[u].client] + 1 .. stream[u].seq
               PROVE  \E op \in Ops(mem[u].pending) : op.client = stream[u].client /\ op.seq = n
    BY DEF HasItsOwn
  <2>1. stream[u].seq \in Nat
    BY DEF XpInv, XpShape, StreamDoc
  <2>2. n \in stats.mark[stream[u].client] + 1 .. stream[u].seq
    BY <1>1, <2>1
  <2> QED BY <2>2 DEF GapInv, HasItsOwn
<1>7. StoreHas'
  <2> SUFFICES ASSUME NEW u \in Reloaders, NEW op \in Ops(mem[u].pending)
               PROVE  (op.client \in Clients /\ op.seq <= stats'.mark[op.client]) \/ op \in Ops(store.pending)
    BY DEF StoreHas, Marked
  <2>1. u \in Tabs
    BY TabAssumption
  <2>2. op \in OpDoc
    BY <2>1, AroundIs, AllPlaced
  <2> QED BY <2>2, MarksGrow DEF GapInv, StoreHas
<1> QED BY <1>5, <1>6, <1>7

\* Requests and answers come and go.
LEMMA GapCalm ==
    ASSUME Named = {}, XpInv, GapInv, UNCHANGED <<stats, store, mem, stream, clients>>,
           \A u \in Tabs : load'[u].pc = "read" =>
              \/ load'[u] = load[u]
              \/ /\ \A op \in load'[u].cloud.ids : Marked(op)
                 /\ Below(load'[u].cloud.mark),
           \A u \in Tabs : \A i \in DOMAIN saves'[u] : \A reply \in saves'[u][i].answer :
              \E j \in DOMAIN saves[u] : reply \in saves[u][j].answer
    PROVE  GapInv'
<1>1. stats'.mark \in Marks /\ \A c \in Clients : stats.mark[c] <= stats'.mark[c]
  BY QueueTyped, AllPlaced
<1>2. NoGaps' /\ HasItsOwn' /\ StoreHas'
  BY <1>1, ListsStay
<1>3. Told'
  <2>1. Told
    BY DEF GapInv
  <2> QED BY <1>1, <2>1, ToldStep DEF Marked, Below
<1>4. NotAhead'
  BY DEF GapInv, NotAhead
<1> QED BY <1>2, <1>3, <1>4 DEF GapInv

LEMMA GapQueue ==
    ASSUME Named = {}, XpInv, GapInv, NEW t \in Tabs, NEW q, Fewer(q, saves[t]),
           saves' = [saves EXCEPT ![t] = q],
           UNCHANGED <<stats, store, mem, stream, clients, load>>
    PROVE  GapInv'
<1>1. saves \in [Tabs -> Seq(SaveDoc)]
  BY DEF XpInv, XpShape
<1>2. \A u \in Tabs : saves'[u] = IF u = t THEN q ELSE saves[u]
  BY <1>1
<1>3. ASSUME NEW u \in Tabs, NEW i \in DOMAIN saves'[u], NEW reply \in saves'[u][i].answer
      PROVE  \E j \in DOMAIN saves[u] : reply \in saves[u][j].answer
  <2>1. CASE u = t
    BY <1>2, <1>3, <2>1 DEF Fewer
  <2>2. CASE u # t
    BY <1>2, <1>3, <2>2
  <2> QED BY <2>1, <2>2
<1> QED BY <1>3, GapCalm

LEMMA GapReadCloud ==
    ASSUME Named = {}, XpInv, GapInv, NEW t \in Tabs, ReadCloud(t)
    PROVE  GapInv'
<1>1. /\ UNCHANGED <<stats, store, mem, stream, clients, saves>>
      /\ load' = [load EXCEPT ![t] =
          [pc |-> "read", exists |-> stats.exists,
           cloud |-> [points |-> stats.points, ids |-> Ops(stats.ledger),
                      mark |-> [c \in Clients |-> IF c \in load[t].asked THEN stats.mark[c] ELSE 0]]]]
  BY DEF ReadCloud
<1>2. DOMAIN load = Tabs
  BY DEF XpInv, LoadShape
<1>3. \A u \in Tabs \ {t} : load'[u] = load[u]
  BY <1>1, <1>2
<1>4. /\ load'[t].cloud.ids = Ops(stats.ledger)
      /\ load'[t].cloud.mark = [c \in Clients |-> IF c \in load[t].asked THEN stats.mark[c] ELSE 0]
  BY <1>1, <1>2
<1>5. \A op \in load'[t].cloud.ids : Marked(op)
  BY <1>4 DEF GapInv, Told
<1>6. Below(load'[t].cloud.mark)
  BY <1>4, AllPlaced DEF Below
<1> QED BY <1>1, <1>3, <1>5, <1>6, GapCalm

LEMMA GapReadFails ==
    ASSUME Named = {}, XpInv, GapInv, NEW t \in Tabs, ReadFails(t)
    PROVE  GapInv'
<1>1. /\ UNCHANGED <<stats, store, mem, stream, clients, saves>>
      /\ load' = [load EXCEPT ![t] = Done] /\ due' = [due EXCEPT ![t] = TRUE]
  BY DEF ReadFails
<1>2. load'[t] = Done /\ \A u \in Tabs \ {t} : load'[u] = load[u]
  BY <1>1, DoneShape
<1> QED BY <1>1, <1>2, GapCalm DEF Done

LEMMA GapSchedule ==
    ASSUME Named = {}, XpInv, GapInv, NEW t \in Tabs, Schedule(t)
    PROVE  GapInv'
<1> DEFINE r == [points |-> mem[t].points, pending |-> mem[t].pending, ops |-> FirstOps(mem[t].pending)]
           d == [req |-> r, live |-> TRUE, answer |-> {}]
<1>1. /\ \A u \in Tabs \ {t} : saves'[u] = saves[u]
      /\ DOMAIN saves'[t] = 1 .. Len(saves[t]) + 1 /\ saves'[t][Len(saves[t]) + 1] = d
      /\ \A i \in DOMAIN saves[t] : saves'[t][i] = saves[t][i]
      /\ DOMAIN saves[t] = 1 .. Len(saves[t]) /\ Len(saves[t]) \in Nat
      /\ UNCHANGED <<stats, store, mem, stream, clients, load>>
  BY ScheduleIs
<1>2. d.answer = {}
  OBVIOUS
<1> HIDE DEF d
<1>3. ASSUME NEW u \in Tabs, NEW i \in DOMAIN saves'[u], NEW reply \in saves'[u][i].answer
      PROVE  \E j \in DOMAIN saves[u] : reply \in saves[u][j].answer
  <2>1. CASE u # t
    BY <1>1, <1>3, <2>1
  <2>2. CASE u = t /\ i = Len(saves[t]) + 1
    BY <1>1, <1>2, <1>3, <2>2
  <2>3. CASE u = t /\ i # Len(saves[t]) + 1
    <3>1. i \in DOMAIN saves[t]
      BY <1>1, <1>3, <2>3
    <3> QED BY <1>1, <1>3, <2>3, <3>1
  <2> QED BY <2>1, <2>2, <2>3
<1> QED BY <1>1, <1>3, GapCalm

\* A watermark moves to the place of an operation that the save brings.
LEMMA MarkMoves ==
    ASSUME Named = {}, XpInv, NEW req \in Requests, NEW c \in Clients
    PROVE  \/ Outcome(req).mark[c] = stats.mark[c]
           \/ \E op \in Ops(req.pending) : op.client = c /\ op.seq = Outcome(req).mark[c]
<1>1. /\ req.pending \in Seq(OpDoc) /\ Outcome(req).mark \in Marks
      /\ stats.mark[c] \in Nat /\ c \in Nat /\ stats.mark[c] <= Outcome(req).mark[c]
  BY AroundDoc, AllPlaced, SavedIs DEF XpInv, Acceptable
<1>2. CASE stats.exists
  <2> DEFINE k == Classified(req)
  <2>1. /\ Judged(k, req.ops, Len(req.ops)) /\ Outcome(req).mark = k.mark
        /\ Ops(k.acked) \subseteq Ops(req.ops) /\ Ops(req.ops) \subseteq Ops(req.pending)
    BY <1>2, OutcomeJudged
  <2> HIDE DEF k
  <2>2. Gained(k)
    BY <2>1 DEF Judged
  <2>3. ASSUME k.mark[c] # stats.mark[c]
        PROVE  \E op \in Ops(req.pending) : op.client = c /\ op.seq = k.mark[c]
    <3>1. k.mark[c] \in stats.mark[c] + 1 .. k.mark[c]
      BY <1>1, <2>1, <2>3 DEF Marks
    <3> QED BY <2>1, <2>2, <3>1 DEF Gained
  <2> QED BY <2>1, <2>3
<1>3. CASE ~ stats.exists
  <2>1. Outcome(req).mark[c] = LastPlace(req.pending, c)
    BY <1>3 DEF Outcome
  <2>2. stats.mark[c] = 0
    BY <1>3 DEF XpInv, Unborn, NoMarks
  <2> QED BY <1>1, <2>1, <2>2, LastPlaceIs
<1> QED BY <1>2, <1>3

\* A save the transaction accepts, and its answer.
LEMMA GapAccepted ==
    ASSUME Named = {}, XpInv, GapInv, NEW req \in Requests, stats' = Saved(req),
           UNCHANGED <<store, mem, stream, clients, load>>,
           \A u \in Tabs : \A i \in DOMAIN saves'[u] : \A reply \in saves'[u][i].answer :
              reply = Answer(req) \/ \E j \in DOMAIN saves[u] : reply \in saves[u][j].answer
    PROVE  GapInv'
<1> DEFINE o == Outcome(req)
<1>1. /\ o.mark \in Marks /\ \A c \in Clients : stats.mark[c] <= o.mark[c]
      /\ Ops(o.acked) \subseteq Ops(req.pending)
      /\ \A op \in Ops(o.acked) : InStream(op) => op.client \in Clients /\ op.seq <= o.mark[op.client]
      /\ stats'.mark = o.mark
      /\ Ops(stats'.ledger) \subseteq Ops(stats.ledger) \cup Ops(o.acked)
      /\ Answer(req).acked = Ops(o.acked) /\ Answer(req).ids = Ops(stats'.ledger)
      /\ \A c \in Clients : Answer(req).mark[c] <= stats'.mark[c]
  BY SavedIs DEF Acceptable
<1>2. \A op \in Ops(req.pending) : op \in Around
  BY AroundIs
<1> HIDE DEF o
<1>3. NoGaps' /\ HasItsOwn' /\ StoreHas'
  BY <1>1, ListsStay
<1>4. \A op \in Ops(o.acked) : op.client \in Clients /\ op.seq <= stats'.mark[op.client]
  BY <1>1, <1>2, AllPlaced
<1>5. ASSUME NEW op \in Ops(stats'.ledger) PROVE op.client \in Clients /\ op.seq <= stats'.mark[op.client]
  <2>1. CASE op \in Ops(stats.ledger)
    <3>1. op \in OpDoc
      BY <2>1, QueueTyped, OpIn
    <3> QED BY <1>1, <2>1, <3>1, MarksGrow DEF GapInv, Told
  <2> QED BY <1>1, <1>4, <2>1
<1>6. ASSUME NEW reply, reply = Answer(req)
      PROVE  /\ \A op \in reply.acked \cup reply.ids : op.client \in Clients /\ op.seq <= stats'.mark[op.client]
             /\ \A c \in Clients : reply.mark[c] <= stats'.mark[c]
  BY <1>1, <1>4, <1>5, <1>6
<1>7. Told'
  <2>1. Told /\ stats'.mark \in Marks /\ \A c \in Clients : stats.mark[c] <= stats'.mark[c]
    BY <1>1 DEF GapInv
  <2> QED BY <1>5, <1>6, <2>1, ToldStep
<1>8. NotAhead'
  <2> SUFFICES ASSUME NEW c \in Clients
               PROVE  /\ c > clients => stats'.mark[c] = 0
                      /\ \A t \in Tabs : stream[t].client = c => stats'.mark[c] <= stream[t].seq
    BY DEF NotAhead
  <2>1. CASE stats'.mark[c] = stats.mark[c]
    BY <2>1 DEF GapInv, NotAhead
  <2>2. ASSUME NEW op \in Ops(req.pending), op.client = c, op.seq = stats'.mark[c]
        PROVE  /\ c > clients => stats'.mark[c] = 0
               /\ \A t \in Tabs : stream[t].client = c => stats'.mark[c] <= stream[t].seq
    <3>1. op \in Around /\ InStream(op) /\ op.client <= clients
      BY <1>2, AllPlaced
    <3>2. clients \in Nat /\ c \in Nat
      BY AllPlaced DEF XpInv, XpShape
    <3> QED BY <2>2, <3>1, <3>2 DEF XpInv, Places
  <2> QED BY <1>1, <2>1, <2>2, MarkMoves DEF o
<1> QED BY <1>3, <1>7, <1>8 DEF GapInv

LEMMA GapSave ==
    ASSUME Named = {}, XpInv, GapInv, NEW t \in Tabs, Save(t)
    PROVE  GapInv'
<1> DEFINE req == Head(saves[t]).req
<1>1. saves[t] # <<>> /\ UNCHANGED <<store, mem, stream, clients, load>>
  BY DEF Save, Open
<1>2. req \in Requests
  BY <1>1, HeadIs
<1>3. CASE Refused(req)
  <2>1. saves' = [saves EXCEPT ![t] = Failed(t)] /\ UNCHANGED stats
    BY <1>3 DEF Save
  <2>2. Fewer(Failed(t), saves[t])
    BY <1>1, FailedFewer DEF XpInv
  <2> QED BY <1>1, <2>1, <2>2, GapQueue
<1>4. CASE ~ Refused(req)
  <2>1. stats' = Saved(req) /\ saves' = [saves EXCEPT ![t][1].answer = {Answer(req)}]
    BY <1>4 DEF Save
  <2> DEFINE x == {Answer(req)}
  <2>2. x \in SUBSET AnswerDoc /\ saves' = [saves EXCEPT ![t][1].answer = x]
    BY <1>2, <2>1, SavedIs
  <2> HIDE DEF x, req
  <2>3. /\ \A u \in Tabs \ {t} : saves'[u] = saves[u]
        /\ DOMAIN saves'[t] = DOMAIN saves[t]
        /\ \A i \in DOMAIN saves[t] : /\ saves'[t][i].req = saves[t][i].req
                                      /\ saves'[t][i].live = saves[t][i].live
                                      /\ saves'[t][i].answer = IF i = 1 THEN x ELSE saves[t][i].answer
    <3>1. saves[t] # <<>>
      BY <1>1
    <3> QED BY <2>2, <3>1, AnsweredQueue
  <2>4. ASSUME NEW u \in Tabs, NEW i \in DOMAIN saves'[u], NEW reply \in saves'[u][i].answer
        PROVE  reply = Answer(req) \/ \E j \in DOMAIN saves[u] : reply \in saves[u][j].answer
    <3>1. CASE u # t
      BY <2>3, <2>4, <3>1
    <3>2. CASE u = t /\ i = 1
      BY <2>3, <2>4, <3>2 DEF x
    <3>3. CASE u = t /\ i # 1
      BY <2>3, <2>4, <3>3
    <3> QED BY <3>1, <3>2, <3>3
  <2> QED BY <1>1, <1>2, <2>1, <2>4, GapAccepted
<1> QED BY <1>3, <1>4

LEMMA GapLateSave ==
    ASSUME Named = {}, XpInv, GapInv, NEW req \in late, LateSave(req)
    PROVE  GapInv'
<1>1. /\ stats' = IF Refused(req) THEN stats ELSE Saved(req)
      /\ UNCHANGED <<store, mem, stream, clients, load, saves>>
  BY DEF LateSave, tabVars
<1>2. req \in Requests
  BY RequestsAre
<1>3. \A u \in Tabs : \A i \in DOMAIN saves'[u] : \A reply \in saves'[u][i].answer :
         \E j \in DOMAIN saves[u] : reply \in saves[u][j].answer
  BY <1>1
<1>4. CASE Refused(req)
  BY <1>1, <1>3, <1>4, GapCalm
<1>5. CASE ~ Refused(req)
  BY <1>1, <1>2, <1>3, <1>5, GapAccepted
<1> QED BY <1>4, <1>5

\* What a tab and the store have together, without what the ids name.
LEMMA TogetherIs ==
    ASSUME Named = {}, XpInv, GapInv, NEW t \in Tabs, NEW ids, \A o \in ids : Marked(o)
    PROVE  LET both == MergeOps(mem[t].pending, store.pending, ids) IN
           /\ both \in Seq(OpDoc) /\ Ops(both) \subseteq Around
           /\ NoGap(both, stats.mark)
           /\ \A op \in Ops(mem[t].pending) \cup Ops(store.pending) : op \in Ops(both) \/ Marked(op)
<1> DEFINE s == store.pending
           m == mem[t].pending
<1>1. /\ s \in Seq(OpDoc) /\ m \in Seq(OpDoc)
      /\ \A op \in Ops(m) \cup Ops(s) : op \in Around
      /\ NoGap(m, stats.mark) /\ NoGap(s, stats.mark)
  BY AroundDoc, AroundIs DEF XpInv, GapInv, NoGaps
<1> HIDE DEF s, m
<1>2. \A op \in Ops(m) \cup Ops(s) : op.client \in Clients /\ stats.mark[op.client] \in Nat
  BY <1>1, AllPlaced
<1>3. Fine(m, stats.mark, ids) /\ Fine(s, stats.mark, ids)
  BY ListedMarked DEF Fine, Marked
<1>4. NoGap(MergeOps(m, s, ids), stats.mark)
  BY <1>1, <1>2, <1>3, MergedNoGap
<1>5. /\ MergeOps(m, s, ids) \in Seq(OpDoc)
      /\ Ops(MergeOps(m, s, ids)) = {op \in Ops(m) \cup Ops(s) : ~ Listed(op, ids)}
  BY <1>1, MergedOps
<1>6. \A op \in Ops(m) \cup Ops(s) : op \in Ops(MergeOps(m, s, ids)) \/ Marked(op)
  BY <1>5, ListedMarked
<1>7. Ops(MergeOps(m, s, ids)) \subseteq Around
  BY <1>1, <1>5
<1> QED BY <1>4, <1>5, <1>6, <1>7 DEF s, m

\* A tab's own operations, without what the ids name.
LEMMA OwnIs ==
    ASSUME Named = {}, XpInv, GapInv, NEW t \in Tabs, NEW ids, \A o \in ids : Marked(o)
    PROVE  LET own == MergeOps(mem[t].pending, <<>>, ids) IN
           /\ own \in Seq(OpDoc) /\ Ops(own) \subseteq Around
           /\ NoGap(own, stats.mark)
           /\ \A op \in Ops(mem[t].pending) : op \in Ops(own) \/ Marked(op)
<1> DEFINE none == <<>>
           m == mem[t].pending
<1>1. /\ none \in Seq(OpDoc) /\ m \in Seq(OpDoc)
      /\ \A op \in Ops(m) : op \in Around
      /\ Ops(none) = {} /\ DOMAIN none = {}
      /\ NoGap(m, stats.mark) /\ NoGap(none, stats.mark)
  BY AroundDoc, AroundIs, OpsOfEmpty DEF XpInv, GapInv, NoGaps, NoGap
<1> HIDE DEF none, m
<1>2. \A op \in Ops(m) \cup Ops(none) : op.client \in Clients /\ stats.mark[op.client] \in Nat
  BY <1>1, AllPlaced
<1>3. Fine(m, stats.mark, ids) /\ Fine(none, stats.mark, ids)
  BY ListedMarked DEF Fine, Marked
<1>4. NoGap(MergeOps(m, none, ids), stats.mark)
  BY <1>1, <1>2, <1>3, MergedNoGap
<1>5. /\ MergeOps(m, none, ids) \in Seq(OpDoc)
      /\ Ops(MergeOps(m, none, ids)) = {op \in Ops(m) \cup Ops(none) : ~ Listed(op, ids)}
  BY <1>1, MergedOps
<1>6. \A op \in Ops(m) : op \in Ops(MergeOps(m, none, ids)) \/ Marked(op)
  BY <1>5, ListedMarked
<1>7. Ops(MergeOps(m, none, ids)) \subseteq Around
  BY <1>1, <1>5
<1> QED BY <1>1, <1>4, <1>5, <1>6, <1>7 DEF none, m

LEMMA AdvancedIs ==
    ASSUME NEW s \in StreamDoc, NEW n \in Nat
    PROVE  /\ Advanced(s, n) \in StreamDoc
           /\ Advanced(s, n).client = s.client /\ Advanced(s, n).seq = s.seq + n
BY DEF Advanced, StreamDoc

\* An award without a name, and the place it takes.
LEMMA AwardIs ==
    ASSUME Named = {}, XpInv, GapInv, NEW t \in Tabs, NEW a \in Awards, Award(t, a)
    PROVE  LET st == Advanced(Current(stream[t]), 1)
               op == Placed(a, st.client, st.seq) IN
           /\ st \in StreamDoc /\ op \in OpDoc
           /\ st.client = Current(stream[t]).client /\ st.seq = Current(stream[t]).seq + 1
           /\ st.client \in Clients
           /\ stream' = [stream EXCEPT ![t] = st]
           /\ clients' = IF st.client > clients THEN st.client ELSE clients
           /\ \E pending \in Seq(OpDoc) :
                 /\ Ops(pending) \subseteq Around /\ NoGap(pending, stats.mark)
                 /\ \A o \in Ops(mem[t].pending) \cup Ops(store.pending) : o \in Ops(pending) \/ Marked(o)
                 /\ mem'[t].pending = pending \o <<op>>
           /\ mem'[t].ids = mem[t].ids /\ \A u \in Tabs \ {t} : mem'[u] = mem[u]
           /\ store' = Kept(mem'[t])
           /\ made[a] = 0 /\ made' = [made EXCEPT ![a] = 1]
           /\ Restart(t, saves[t])
           /\ UNCHANGED <<stats, load, late>>
<1> DEFINE y == Synced(t)
           own == MergeOps(y.own, <<>>, mem[t].ids)
           pending == MergeOps(own, y.stored, mem[t].ids)
           others == Keep(pending, Ops(pending) \ Ops(own))
           points == Plus(mem[t].points, others)
           st == Advanced(y.next, 1)
           op == Placed(a, st.client, st.seq)
           new == <<op>>
<1>1. /\ made[a] < (IF a \in Repeated THEN 2 ELSE 1)
      /\ mem' = [mem EXCEPT ![t] = [points |-> Plus(points, new), pending |-> pending \o new, ids |-> mem[t].ids]]
      /\ store' = Kept(mem'[t])
      /\ TakeStream(t, stream[t], st)
      /\ made' = [made EXCEPT ![a] = made[a] + 1]
      /\ Restart(t, saves[t])
      /\ UNCHANGED <<stats, load, late>>
  BY DEF Award
<1>2. /\ y.stored = store.pending /\ y.own = mem[t].pending /\ y.next = Current(stream[t])
  BY SyncedSame
<1>3. stream[t] \in StreamDoc /\ Current(stream[t]) \in StreamDoc /\ made \in [Awards -> Nat]
      /\ mem \in [Tabs -> [points : Points, pending : Seq(OpDoc), ids : SUBSET OpDoc]]
  BY CurrentIs DEF XpInv, XpShape
<1> HIDE DEF y
<1>4. /\ st = Advanced(Current(stream[t]), 1)
      /\ st \in StreamDoc /\ st.client = Current(stream[t]).client /\ st.seq = Current(stream[t]).seq + 1
  <2>1. st = Advanced(Current(stream[t]), 1)
    BY <1>2
  <2>2. Advanced(Current(stream[t]), 1) \in StreamDoc
        /\ Advanced(Current(stream[t]), 1).client = Current(stream[t]).client
        /\ Advanced(Current(stream[t]), 1).seq = Current(stream[t]).seq + 1
    BY <1>3, AdvancedIs
  <2> HIDE DEF st
  <2> QED BY <2>1, <2>2
<1> HIDE DEF st
<1>5. op \in OpDoc
  BY <1>4 DEF Placed, OpDoc, StreamDoc
<1> HIDE DEF op
<1>6. st.seq # Current(stream[t]).seq
  BY <1>3, <1>4 DEF StreamDoc
<1>7. /\ st.client \in Clients /\ stream' = [stream EXCEPT ![t] = st]
      /\ clients' = IF st.client > clients THEN st.client ELSE clients
  BY <1>1, <1>6 DEF TakeStream
<1>8. made[a] = 0
  BY <1>1, <1>3, NamedAssumption
<1>9. own \in Seq(OpDoc) /\ NoGap(own, stats.mark)
      /\ Ops(own) \subseteq Around
      /\ \A o \in Ops(mem[t].pending) : o \in Ops(own) \/ Marked(o)
  <2>1. \A o \in mem[t].ids : Marked(o)
    BY DEF GapInv, Told
  <2>2. own = MergeOps(mem[t].pending, <<>>, mem[t].ids)
    BY <1>2
  <2> HIDE DEF own
  <2> QED BY <2>1, <2>2, OwnIs
<1> HIDE DEF own
<1>10. /\ pending \in Seq(OpDoc) /\ Ops(pending) \subseteq Around /\ NoGap(pending, stats.mark)
       /\ \A o \in Ops(mem[t].pending) \cup Ops(store.pending) : o \in Ops(pending) \/ Marked(o)
  <2> DEFINE s == store.pending
             ids == mem[t].ids
  <2>1. /\ s \in Seq(OpDoc) /\ NoGap(s, stats.mark) /\ \A o \in Ops(s) : o \in Around
        /\ \A o \in ids : Marked(o)
        /\ pending = MergeOps(own, s, ids)
    BY <1>2, AroundDoc, AroundIs DEF XpInv, GapInv, NoGaps, Told
  <2> HIDE DEF s, ids, pending
  <2>2. \A o \in Ops(own) \cup Ops(s) : o.client \in Clients /\ stats.mark[o.client] \in Nat
    BY <1>9, <2>1, AllPlaced
  <2>3. Fine(own, stats.mark, ids) /\ Fine(s, stats.mark, ids)
    BY <2>1, ListedMarked DEF Fine, Marked
  <2>4. NoGap(MergeOps(own, s, ids), stats.mark)
    BY <1>9, <2>1, <2>2, <2>3, MergedNoGap
  <2>5. /\ MergeOps(own, s, ids) \in Seq(OpDoc)
        /\ Ops(MergeOps(own, s, ids)) = {o \in Ops(own) \cup Ops(s) : ~ Listed(o, ids)}
    BY <1>9, <2>1, MergedOps
  <2>6. \A o \in Ops(own) \cup Ops(s) : o \in Ops(pending) \/ Marked(o)
    BY <2>1, <2>5, ListedMarked
  <2>7. Ops(pending) \subseteq Around
    BY <1>9, <2>1, <2>5
  <2>8. \A o \in Ops(mem[t].pending) \cup Ops(store.pending) : o \in Ops(pending) \/ Marked(o)
    BY <1>9, <2>6 DEF s
  <2> QED BY <2>1, <2>4, <2>5, <2>7, <2>8
<1> HIDE DEF pending, points
<1>11. /\ mem'[t].pending = pending \o <<op>> /\ mem'[t].ids = mem[t].ids
       /\ \A u \in Tabs \ {t} : mem'[u] = mem[u]
  BY <1>1, <1>3
<1>12. \E p \in Seq(OpDoc) :
          /\ Ops(p) \subseteq Around /\ NoGap(p, stats.mark)
          /\ \A o \in Ops(mem[t].pending) \cup Ops(store.pending) : o \in Ops(p) \/ Marked(o)
          /\ mem'[t].pending = p \o <<op>>
  BY <1>10, <1>11
<1>13. made' = [made EXCEPT ![a] = 1]
  BY <1>1, <1>8
<1>14. op = Placed(a, st.client, st.seq)
  BY DEF op
<1> QED BY <1>1, <1>4, <1>5, <1>7, <1>8, <1>11, <1>12, <1>13, <1>14

LEMMA GapAward ==
    ASSUME Named = {}, XpInv, GapInv, NEW t \in Tabs, NEW a \in Awards, Award(t, a)
    PROVE  GapInv'
<1> DEFINE base == Current(stream[t])
           st == Advanced(base, 1)
           op == Placed(a, st.client, st.seq)
<1>1. /\ st \in StreamDoc /\ op \in OpDoc
      /\ st.client = base.client /\ st.seq = base.seq + 1
      /\ st.client \in Clients
      /\ stream' = [stream EXCEPT ![t] = st]
      /\ clients' = IF st.client > clients THEN st.client ELSE clients
      /\ \E pending \in Seq(OpDoc) :
            /\ Ops(pending) \subseteq Around /\ NoGap(pending, stats.mark)
            /\ \A o \in Ops(mem[t].pending) \cup Ops(store.pending) : o \in Ops(pending) \/ Marked(o)
            /\ mem'[t].pending = pending \o <<op>>
      /\ mem'[t].ids = mem[t].ids /\ \A u \in Tabs \ {t} : mem'[u] = mem[u]
      /\ store' = Kept(mem'[t])
      /\ Restart(t, saves[t])
      /\ UNCHANGED <<stats, load, late>>
  BY AwardIs
<1>2. op.client = st.client /\ op.seq = st.seq
  BY DEF Placed
<1>3. /\ stream \in [Tabs -> StreamDoc] /\ base \in StreamDoc
      /\ \/ stream[t].client # 0 /\ base.client = stream[t].client /\ base.seq = stream[t].seq
         \/ base.client = clients + 1 /\ base.seq = 0
  <2>1. stream \in [Tabs -> StreamDoc]
    BY DEF XpInv, XpShape
  <2> QED BY <2>1, CurrentIs DEF XpInv
<1> HIDE DEF base, st, op
<1>4. PICK pending \in Seq(OpDoc) :
            /\ Ops(pending) \subseteq Around /\ NoGap(pending, stats.mark)
            /\ \A o \in Ops(mem[t].pending) \cup Ops(store.pending) : o \in Ops(pending) \/ Marked(o)
            /\ mem'[t].pending = pending \o <<op>>
  BY <1>1
<1>5. /\ <<op>> \in Seq(OpDoc) /\ Len(<<op>>) = 1 /\ <<op>>[1] = op /\ Ops(<<op>>) = {op}
  BY <1>1, OpsOfOne
<1>6. /\ mem'[t].pending \in Seq(OpDoc) /\ Ops(mem'[t].pending) = Ops(pending) \cup {op}
      /\ DOMAIN mem'[t].pending = 1 .. Len(pending) + 1
      /\ \A i \in 1 .. Len(pending) : mem'[t].pending[i] = pending[i]
      /\ mem'[t].pending[Len(pending) + 1] = op
      /\ Len(pending) \in Nat /\ DOMAIN pending = 1 .. Len(pending)
  <2> DEFINE new == <<op>>
  <2>1. new \in Seq(OpDoc) /\ Len(new) = 1 /\ new[1] = op /\ Ops(new) = {op} /\ 1 \in 1 .. Len(new)
    BY <1>5
  <2>2. mem'[t].pending = pending \o new
    BY <1>4
  <2> HIDE DEF new
  <2>3. /\ pending \o new \in Seq(OpDoc) /\ Ops(pending \o new) = Ops(pending) \cup Ops(new)
        /\ DOMAIN (pending \o new) = 1 .. Len(pending) + Len(new)
        /\ \A i \in 1 .. Len(pending) : (pending \o new)[i] = pending[i]
        /\ \A i \in 1 .. Len(new) : (pending \o new)[Len(pending) + i] = new[i]
    BY <2>1, <1>4, ConcatIs
  <2>4. Len(pending) \in Nat /\ DOMAIN pending = 1 .. Len(pending)
    BY <1>4, OpIn
  <2>5. (pending \o new)[Len(pending) + 1] = op
    BY <2>1, <2>3
  <2> QED BY <2>1, <2>2, <2>3, <2>4, <2>5
<1>7. /\ stats.mark[st.client] \in Nat /\ st.client \in Nat /\ st.seq \in Nat /\ base.seq \in Nat
      /\ clients \in Nat /\ stream[t].client \in Nat /\ stream[t].seq \in Nat
  <2>1. \A c \in Clients : c \in Nat /\ stats.mark[c] \in Nat
    BY AllPlaced
  <2>2. st \in StreamDoc /\ st.client \in Clients /\ base \in StreamDoc /\ stream[t] \in StreamDoc
    BY <1>1, <1>3
  <2>3. \A s \in StreamDoc : s.client \in Nat /\ s.seq \in Nat
    BY DEF StreamDoc
  <2>4. clients \in Nat
    BY DEF XpInv, XpShape
  <2> QED BY <2>1, <2>2, <2>3, <2>4
<1>8. stats.mark[st.client] <= base.seq
  BY <1>1, <1>3, <1>7 DEF GapInv, NotAhead
<1>9. ASSUME NEW n \in stats.mark[st.client] + 1 .. base.seq
      PROVE  \E o \in Ops(pending) : o.client = st.client /\ o.seq = n
  <2>1. n > 0 /\ base.client = stream[t].client /\ base.seq = stream[t].seq
    BY <1>3, <1>7
  <2>2. PICK o \in Ops(mem[t].pending) : o.client = st.client /\ o.seq = n
    BY <1>1, <2>1 DEF GapInv, HasItsOwn
  <2>3. ~ Marked(o)
    BY <1>7, <2>2 DEF Marked
  <2> QED BY <1>4, <2>2, <2>3
<1>10. NoGap(mem'[t].pending, stats.mark)
  <2> SUFFICES ASSUME NEW i \in DOMAIN mem'[t].pending,
                      NEW n \in stats.mark[mem'[t].pending[i].client] + 1 .. mem'[t].pending[i].seq - 1
               PROVE  \E j \in 1 .. i - 1 : mem'[t].pending[j].client = mem'[t].pending[i].client /\ mem'[t].pending[j].seq = n
    BY DEF NoGap
  <2>1. CASE i = Len(pending) + 1
    <3>1. n \in stats.mark[st.client] + 1 .. base.seq
      BY <1>1, <1>2, <1>6, <1>7, <2>1
    <3>2. PICK o \in Ops(pending) : o.client = st.client /\ o.seq = n
      BY <1>9, <3>1
    <3>3. PICK j \in 1 .. Len(pending) : pending[j] = o
      BY <1>6, <3>2, OpIn
    <3>4. j \in 1 .. i - 1 /\ mem'[t].pending[j] = o
      BY <1>6, <2>1, <3>3
    <3> QED BY <1>2, <1>6, <2>1, <3>2, <3>4
  <2>2. CASE i # Len(pending) + 1
    <3>1. i \in DOMAIN pending /\ mem'[t].pending[i] = pending[i] /\ i \in Nat /\ i <= Len(pending)
      BY <1>6, <2>2
    <3>2. PICK j \in 1 .. i - 1 : pending[j].client = pending[i].client /\ pending[j].seq = n
      BY <1>4, <3>1 DEF NoGap
    <3>3. mem'[t].pending[j] = pending[j]
      BY <1>6, <3>1
    <3> QED BY <3>1, <3>2, <3>3
  <2> QED BY <2>1, <2>2
<1>11. store'.pending = mem'[t].pending
  BY <1>1 DEF Kept
<1>12. UNCHANGED stats
  BY <1>1
<1>13. NoGaps'
  <2>1. \A u \in Tabs : NoGap(mem'[u].pending, stats.mark)
    BY <1>1, <1>10 DEF GapInv, NoGaps
  <2> QED BY <1>10, <1>11, <1>12, <2>1 DEF NoGaps
<1>14. stream'[t] = st /\ \A u \in Tabs \ {t} : stream'[u] = stream[u]
  BY <1>1, <1>3
<1>15. HasItsOwn'
  <2> SUFFICES ASSUME NEW u \in Tabs, stream'[u].client \in Clients,
                      NEW n \in stats.mark[stream'[u].client] + 1 .. stream'[u].seq
               PROVE  \E o \in Ops(mem'[u].pending) : o.client = stream'[u].client /\ o.seq = n
    BY <1>12 DEF HasItsOwn
  <2>1. CASE u = t /\ n = st.seq
    BY <1>2, <1>6, <1>14, <2>1
  <2>2. CASE u = t /\ n # st.seq
    <3>1. n \in stats.mark[st.client] + 1 .. base.seq
      BY <1>1, <1>7, <1>14, <2>2
    <3> QED BY <1>6, <1>9, <1>14, <2>2, <3>1
  <2>3. CASE u # t
    BY <1>1, <1>14, <2>3 DEF GapInv, HasItsOwn
  <2> QED BY <2>1, <2>2, <2>3
<1>16. NotAhead'
  <2> SUFFICES ASSUME NEW c \in Clients
               PROVE  /\ c > clients' => stats.mark[c] = 0
                      /\ \A u \in Tabs : stream'[u].client = c => stats.mark[c] <= stream'[u].seq
    BY <1>12 DEF NotAhead
  <2>1. c \in Nat
    BY AllPlaced
  <2>2. c > clients' => stats.mark[c] = 0
    BY <1>1, <1>7, <2>1 DEF GapInv, NotAhead
  <2>3. ASSUME NEW u \in Tabs, stream'[u].client = c PROVE stats.mark[c] <= stream'[u].seq
    <3>1. CASE u = t
      BY <1>1, <1>7, <1>8, <1>14, <2>3, <3>1
    <3>2. CASE u # t
      BY <1>14, <2>3, <3>2 DEF GapInv, NotAhead
    <3> QED BY <3>1, <3>2
  <2> QED BY <2>2, <2>3
<1>17. StoreHas'
  <2> SUFFICES ASSUME NEW u \in Reloaders, NEW o \in Ops(mem'[u].pending)
               PROVE  Marked(o) \/ o \in Ops(store'.pending)
    BY <1>12 DEF StoreHas, Marked
  <2>1. u \in Tabs
    BY TabAssumption
  <2>2. CASE u = t
    BY <1>11, <2>2
  <2>3. CASE u # t
    <3>1. o \in Ops(mem[u].pending)
      BY <1>1, <2>1, <2>3
    <3>2. Marked(o) \/ o \in Ops(store.pending)
      BY <3>1 DEF GapInv, StoreHas
    <3> QED BY <1>4, <1>6, <1>11, <3>2
  <2> QED BY <2>2, <2>3
<1>18. Told'
  <2>1. Fewer(saves[t], saves[t])
    BY QueueTyped DEF Fewer
  <2>2. saves' = [saves EXCEPT ![t] = Disowned(saves[t])] /\ Fewer(Disowned(saves[t]), saves[t])
    BY <1>1, <2>1, Restarted
  <2>3. saves \in [Tabs -> Seq(SaveDoc)]
    BY DEF XpInv, XpShape
  <2>4. \A u \in Tabs : saves'[u] = IF u = t THEN Disowned(saves[t]) ELSE saves[u]
    BY <2>2, <2>3
  <2>5. \A u \in Tabs : \A i \in DOMAIN saves'[u] : \A reply \in saves'[u][i].answer :
           \E j \in DOMAIN saves[u] : reply \in saves[u][j].answer
    BY <2>2, <2>4 DEF Fewer
  <2>6. Told /\ stats'.mark \in Marks /\ \A c \in Clients : stats.mark[c] <= stats'.mark[c]
    BY <1>12, QueueTyped, AllPlaced DEF GapInv
  <2>7. \A u \in Tabs : \A o \in mem'[u].ids : o \in mem[u].ids
    BY <1>1
  <2>8. \A o \in Ops(stats'.ledger) : o \in Ops(stats.ledger)
    BY <1>12
  <2>9. \A u \in Tabs : load'[u] = load[u]
    BY <1>1
  <2> QED BY <2>5, <2>6, <2>7, <2>8, <2>9, ToldStep
<1> QED BY <1>13, <1>15, <1>16, <1>17, <1>18 DEF GapInv

\* A tab and the store go on with one list.
LEMMA ListReplaced ==
    ASSUME Named = {}, XpInv, GapInv, NEW t \in Tabs, UNCHANGED stats,
           \A u \in Tabs : stream'[u].client = stream[u].client /\ stream'[u].seq = stream[u].seq,
           store'.pending = mem'[t].pending, NoGap(mem'[t].pending, stats.mark),
           \A u \in Tabs \ {t} : mem'[u] = mem[u],
           \A op \in Ops(mem[t].pending) : op \in Ops(mem'[t].pending) \/ Marked(op),
           \A u \in Reloaders \ {t} : \A op \in Ops(mem[u].pending) :
              op \in Ops(mem'[t].pending) \/ Marked(op)
    PROVE  NoGaps' /\ HasItsOwn' /\ StoreHas'
<1>1. NoGaps'
  <2>1. \A u \in Tabs : NoGap(mem'[u].pending, stats.mark)
    BY DEF GapInv, NoGaps
  <2> QED BY <2>1 DEF NoGaps
<1>2. HasItsOwn'
  <2> SUFFICES ASSUME NEW u \in Tabs, stream'[u].client \in Clients,
                      NEW n \in stats.mark[stream'[u].client] + 1 .. stream'[u].seq
               PROVE  \E o \in Ops(mem'[u].pending) : o.client = stream'[u].client /\ o.seq = n
    BY DEF HasItsOwn
  <2>1. PICK o \in Ops(mem[u].pending) : o.client = stream[u].client /\ o.seq = n
    BY DEF GapInv, HasItsOwn
  <2>2. stream[u].client \in Clients /\ stats.mark[stream[u].client] \in Nat /\ stream[u].seq \in Nat
    BY AllPlaced DEF XpInv, XpShape, StreamDoc
  <2>3. ~ Marked(o)
    BY <2>1, <2>2 DEF Marked
  <2> QED BY <2>1, <2>3
<1>3. StoreHas'
  <2> SUFFICES ASSUME NEW u \in Reloaders, NEW o \in Ops(mem'[u].pending)
               PROVE  Marked(o) \/ o \in Ops(store'.pending)
    BY DEF StoreHas, Marked
  <2>1. u \in Tabs
    BY TabAssumption
  <2> QED BY <2>1
<1> QED BY <1>1, <1>2, <1>3

LEMMA GapPublish ==
    ASSUME Named = {}, \A u \in Reloaders : Readers \subseteq {u},
           XpInv, GapInv, NEW t \in Tabs, Publish(t)
    PROVE  /\ GapInv'
           /\ mem'[t].pending \in Seq(OpDoc) /\ Ops(mem'[t].pending) \subseteq Ops(mem[t].pending)
           /\ \A op \in Ops(mem[t].pending) : op \in Ops(mem'[t].pending) \/ Marked(op)
           /\ \A u \in Tabs \ {t} : mem'[u] = mem[u]
<1> DEFINE p == mem[t].pending
           cloud == load[t].cloud
           left == {op \in Ops(p) : ~ Applied(op, cloud)}
<1>1. /\ load[t].pc = "read" /\ UNCHANGED <<stats, stream, clients, saves, late, made>>
      /\ store' = Kept(mem'[t]) /\ load' = [load EXCEPT ![t] = Done] /\ due' = [due EXCEPT ![t] = TRUE]
      /\ mem' = IF load[t].exists THEN [mem EXCEPT ![t] = Rebase(p, cloud)] ELSE mem
  BY DEF Publish
<1>2. mem \in [Tabs -> [points : Points, pending : Seq(OpDoc), ids : SUBSET OpDoc]]
  BY DEF XpInv, XpShape
<1>3. /\ cloud \in CloudDoc /\ t \in Readers
      /\ \A op \in cloud.ids : Marked(op)
      /\ Below(cloud.mark)
  BY <1>1 DEF XpInv, LoadShape, GapInv, Told
<1>4. cloud.points \in Points /\ cloud.ids \subseteq OpDoc /\ cloud.mark \in Marks
  BY <1>3 DEF CloudDoc
<1>5. p \in Seq(OpDoc) /\ NoGap(p, stats.mark) /\ \A op \in Ops(p) : op \in Around
  BY AroundDoc, AroundIs DEF XpInv, GapInv, NoGaps
<1> HIDE DEF p, cloud
<1>6. /\ Rebase(p, cloud).pending = Keep(p, left)
      /\ Rebase(p, cloud).pending \in Seq(OpDoc)
      /\ Ops(Rebase(p, cloud).pending) = left
      /\ Rebase(p, cloud).ids = cloud.ids
  <2>1. Rebase(p, cloud) \in [points : Points, pending : Seq(OpDoc), ids : SUBSET OpDoc]
        /\ Rebase(p, cloud).pending = Keep(p, left)
        /\ Ops(Rebase(p, cloud).pending) = left
        /\ Rebase(p, cloud).ids = cloud.ids
    BY <1>4, <1>5, RebaseIs
  <2> QED BY <2>1
<1>7. \A op \in Ops(p) \ left : Marked(op)
  <2> SUFFICES ASSUME NEW op \in Ops(p), Applied(op, cloud) PROVE Marked(op)
    OBVIOUS
  <2>1. op \in OpDoc /\ op.client \in Clients
    BY <1>5, AllPlaced
  <2> QED BY <1>3, <1>4, <2>1, AppliedMarked
<1> HIDE DEF left
<1>8. NoGap(Keep(p, left), stats.mark)
  <2>1. \A op \in Ops(p) : op.client \in Clients /\ stats.mark[op.client] \in Nat
    BY <1>5, AllPlaced
  <2>2. \A op \in Ops(p) \ left : op.seq <= stats.mark[op.client]
    BY <1>7 DEF Marked
  <2> QED BY <1>5, <2>1, <2>2, KeepNoGap
<1>9. /\ mem'[t].pending \in Seq(OpDoc) /\ Ops(mem'[t].pending) \subseteq Ops(p)
      /\ NoGap(mem'[t].pending, stats.mark)
      /\ \A op \in Ops(p) : op \in Ops(mem'[t].pending) \/ Marked(op)
      /\ \A u \in Tabs \ {t} : mem'[u] = mem[u]
      /\ \A op \in mem'[t].ids : op \in mem[t].ids \/ Marked(op)
  <2>1. CASE load[t].exists
    <3>1. mem' = [mem EXCEPT ![t] = Rebase(p, cloud)]
      BY <1>1, <2>1
    <3>2. mem'[t] = Rebase(p, cloud) /\ \A u \in Tabs \ {t} : mem'[u] = mem[u]
      BY <1>2, <3>1
    <3>3. left \subseteq Ops(p)
      BY DEF left
    <3> QED BY <1>3, <1>6, <1>7, <1>8, <3>2, <3>3
  <2>2. CASE ~ load[t].exists
    <3>1. mem' = mem
      BY <1>1, <2>2
    <3> QED BY <1>5, <3>1 DEF p
  <2> QED BY <2>1, <2>2
<1>10. store'.pending = mem'[t].pending
  BY <1>1 DEF Kept
<1>11. Reloaders \ {t} = {}
  BY <1>3
<1>12. NoGaps' /\ HasItsOwn' /\ StoreHas'
  <2>1. \A op \in Ops(mem[t].pending) : op \in Ops(mem'[t].pending) \/ Marked(op)
    BY <1>9 DEF p
  <2>2. \A u \in Reloaders \ {t} : \A op \in Ops(mem[u].pending) : op \in Ops(mem'[t].pending) \/ Marked(op)
    BY <1>11
  <2>3. \A u \in Tabs : stream'[u].client = stream[u].client /\ stream'[u].seq = stream[u].seq
    BY <1>1
  <2>4. UNCHANGED stats
    BY <1>1
  <2> QED BY <1>9, <1>10, <2>1, <2>2, <2>3, <2>4, ListReplaced
<1>13. Told'
  <2>1. Told /\ stats'.mark \in Marks /\ \A c \in Clients : stats.mark[c] <= stats'.mark[c]
    BY <1>1, QueueTyped, AllPlaced DEF GapInv
  <2>2. \A u \in Tabs : \A op \in mem'[u].ids : op \in mem[u].ids \/ Marked(op)
    BY <1>9
  <2>3. load'[t] = Done /\ \A u \in Tabs \ {t} : load'[u] = load[u]
    BY <1>1, DoneShape
  <2>4. \A u \in Tabs : load'[u].pc = "read" => load'[u] = load[u]
    BY <2>3 DEF Done
  <2>5. UNCHANGED <<stats, saves>>
    BY <1>1
  <2>6. \A u \in Tabs : \A op \in mem'[u].ids :
           op \in mem[u].ids \/ (op.client \in Clients /\ op.seq <= stats'.mark[op.client])
    BY <2>2, <2>5 DEF Marked
  <2>7. \A op \in Ops(stats'.ledger) : op \in Ops(stats.ledger)
    BY <2>5
  <2>8. \A u \in Tabs : \A i \in DOMAIN saves'[u] : \A reply \in saves'[u][i].answer :
           \E j \in DOMAIN saves[u] : reply \in saves[u][j].answer
    BY <2>5
  <2> QED BY <2>1, <2>4, <2>6, <2>7, <2>8, ToldStep
<1>14. NotAhead'
  BY <1>1 DEF GapInv, NotAhead
<1> QED BY <1>9, <1>12, <1>13, <1>14 DEF GapInv, p

\* An acknowledgement: what the tab and the store have that the answer does not
\* settle.
LEMMA AcknowledgeIs ==
    ASSUME Named = {}, XpInv, GapInv, NEW t \in Tabs, Acknowledge(t)
    PROVE  /\ saves[t] # <<>> /\ saves[t][1].live
           /\ \E reply \in saves[t][1].answer :
                 /\ mem'[t].pending \in Seq(OpDoc) /\ Ops(mem'[t].pending) \subseteq Around
                 /\ NoGap(mem'[t].pending, stats.mark)
                 /\ \A op \in Ops(mem[t].pending) \cup Ops(store.pending) :
                       op \in Ops(mem'[t].pending) \/ Marked(op)
                 /\ \A op \in mem'[t].ids : Marked(op)
                 /\ \A op \in Ops(mem'[t].pending) : op \notin reply.acked
           /\ \A u \in Tabs \ {t} : mem'[u] = mem[u]
           /\ store'.pending = mem'[t].pending
           /\ UNCHANGED <<stats, stream, clients, load, late, made>>
           /\ \/ mem'[t] = mem[t] /\ saves' = [saves EXCEPT ![t] = Tail(saves[t])] /\ UNCHANGED due
              \/ Restart(t, Tail(saves[t]))
<1> DEFINE y == Synced(t)
<1>1. /\ saves[t] # <<>> /\ Head(saves[t]).live
      /\ UNCHANGED <<stats, load, late, made>>
  BY DEF Acknowledge, Answered
<1>2. PICK reply \in Head(saves[t]).answer :
         LET m == Rebase(MergeOps(y.own, y.stored, reply.acked), reply) IN
         /\ store' = Kept(m)
         /\ TakeStream(t, stream[t], y.next)
         /\ IF Kept(m) = Kept(mem[t])
            THEN saves' = [saves EXCEPT ![t] = Tail(saves[t])] /\ UNCHANGED <<mem, due>>
            ELSE mem' = [mem EXCEPT ![t] = m] /\ Restart(t, Tail(saves[t]))
  BY DEF Acknowledge
<1> DEFINE merged == MergeOps(mem[t].pending, store.pending, reply.acked)
           m == Rebase(merged, reply)
<1>3. y.stored = store.pending /\ y.own = mem[t].pending /\ y.next = Current(stream[t])
  BY SyncedSame
<1> HIDE DEF y
<1>4. /\ store' = Kept(m)
      /\ TakeStream(t, stream[t], Current(stream[t]))
      /\ IF Kept(m) = Kept(mem[t])
         THEN saves' = [saves EXCEPT ![t] = Tail(saves[t])] /\ UNCHANGED <<mem, due>>
         ELSE mem' = [mem EXCEPT ![t] = m] /\ Restart(t, Tail(saves[t]))
  BY <1>2, <1>3
<1>5. /\ stream \in [Tabs -> StreamDoc]
      /\ mem \in [Tabs -> [points : Points, pending : Seq(OpDoc), ids : SUBSET OpDoc]]
  BY DEF XpInv, XpShape
<1>6. UNCHANGED <<stream, clients>>
  <2>1. stream' = [stream EXCEPT ![t] = stream[t]] /\ UNCHANGED clients
    BY <1>4, <1>5, StreamLeft
  <2> QED BY <1>5, <2>1
<1>7. Head(saves[t]) = saves[t][1] /\ 1 \in DOMAIN saves[t] /\ saves[t][1] \in SaveDoc
  BY <1>1, HeadIs
<1>8. /\ reply.points \in Points /\ reply.ids \subseteq OpDoc /\ reply.mark \in Marks
      /\ \A op \in reply.acked : Marked(op)
      /\ \A op \in reply.ids : Marked(op)
      /\ Below(reply.mark)
  <2>1. reply \in AnswerDoc
    BY <1>7 DEF SaveDoc
  <2>2. (\A op \in reply.acked \cup reply.ids : Marked(op)) /\ Below(reply.mark)
    BY <1>7 DEF GapInv, Told
  <2> QED BY <2>1, <2>2 DEF AnswerDoc
<1>9. /\ merged \in Seq(OpDoc) /\ Ops(merged) \subseteq Around
      /\ NoGap(merged, stats.mark)
      /\ \A op \in Ops(mem[t].pending) \cup Ops(store.pending) : op \in Ops(merged) \/ Marked(op)
      /\ \A op \in Ops(merged) : op \notin reply.acked
  <2> DEFINE ids == reply.acked
             p == mem[t].pending
             s == store.pending
  <2>1. \A op \in ids : Marked(op)
    BY <1>8
  <2>2. p \in Seq(OpDoc) /\ s \in Seq(OpDoc)
    BY AroundDoc DEF XpInv
  <2>3. LET both == MergeOps(mem[t].pending, store.pending, ids) IN
        /\ both \in Seq(OpDoc) /\ Ops(both) \subseteq Around
        /\ NoGap(both, stats.mark)
        /\ \A op \in Ops(mem[t].pending) \cup Ops(store.pending) : op \in Ops(both) \/ Marked(op)
    <3> HIDE DEF ids
    <3> QED BY <2>1, TogetherIs
  <2>4. \A op \in Ops(MergeOps(p, s, ids)) : op \notin ids
    <3> HIDE DEF ids, p, s
    <3>1. Ops(MergeOps(p, s, ids)) = {op \in Ops(p) \cup Ops(s) : ~ Listed(op, ids)}
      BY <2>2, MergedOps
    <3> QED BY <3>1 DEF Listed
  <2> QED BY <2>3, <2>4
<1> HIDE DEF merged
<1> DEFINE left == {op \in Ops(merged) : ~ Applied(op, reply)}
<1>10. /\ m \in [points : Points, pending : Seq(OpDoc), ids : SUBSET OpDoc]
       /\ m.pending = Keep(merged, left) /\ Ops(m.pending) = left /\ m.ids = reply.ids
  BY <1>8, <1>9, RebaseIs
<1> HIDE DEF m
<1>11. \A op \in Ops(merged) \ left : Marked(op)
  <2> SUFFICES ASSUME NEW op \in Ops(merged), Applied(op, reply) PROVE Marked(op)
    OBVIOUS
  <2>1. op \in OpDoc /\ op.client \in Clients
    BY <1>9, AllPlaced
  <2> QED BY <1>8, <2>1, AppliedMarked
<1>12. \A op \in left : op \in Ops(merged)
  OBVIOUS
<1> HIDE DEF left
<1>13. NoGap(m.pending, stats.mark)
  <2>1. \A op \in Ops(merged) : op.client \in Clients /\ stats.mark[op.client] \in Nat
    BY <1>9, AllPlaced
  <2>2. \A op \in Ops(merged) \ left : op.seq <= stats.mark[op.client]
    BY <1>11 DEF Marked
  <2>3. NoGap(Keep(merged, left), stats.mark)
    BY <1>9, <2>1, <2>2, KeepNoGap
  <2> QED BY <1>10, <2>3
<1>14. /\ m.pending \in Seq(OpDoc) /\ Ops(m.pending) \subseteq Around
       /\ \A op \in Ops(mem[t].pending) \cup Ops(store.pending) : op \in Ops(m.pending) \/ Marked(op)
       /\ \A op \in Ops(m.pending) : op \notin reply.acked
       /\ \A op \in m.ids : Marked(op)
  BY <1>8, <1>9, <1>10, <1>11, <1>12
<1>15. store'.pending = m.pending
  BY <1>4 DEF Kept
<1>16. CASE Kept(m) = Kept(mem[t])
  <2>1. saves' = [saves EXCEPT ![t] = Tail(saves[t])] /\ mem' = mem /\ UNCHANGED due
    BY <1>4, <1>16
  <2>2. mem'[t].pending = m.pending
    BY <1>16, <2>1 DEF Kept
  <2>3. \A op \in mem'[t].ids : Marked(op)
    BY <2>1 DEF GapInv, Told
  <2>4. mem'[t] = mem[t] /\ \A u \in Tabs \ {t} : mem'[u] = mem[u]
    BY <2>1
  <2> QED BY <1>1, <1>6, <1>7, <1>13, <1>14, <1>15, <2>1, <2>2, <2>3, <2>4
<1>17. CASE Kept(m) # Kept(mem[t])
  <2>1. mem' = [mem EXCEPT ![t] = m] /\ Restart(t, Tail(saves[t]))
    BY <1>4, <1>17
  <2>2. mem'[t] = m /\ \A u \in Tabs \ {t} : mem'[u] = mem[u]
    BY <1>5, <2>1
  <2> QED BY <1>1, <1>6, <1>7, <1>13, <1>14, <1>15, <2>1, <2>2
<1> QED BY <1>16, <1>17

LEMMA GapAcknowledge ==
    ASSUME Named = {}, XpInv, GapInv, NEW t \in Tabs, Acknowledge(t)
    PROVE  GapInv'
<1>1. /\ saves[t] # <<>>
      /\ NoGap(mem'[t].pending, stats.mark)
      /\ \A op \in Ops(mem[t].pending) \cup Ops(store.pending) :
            op \in Ops(mem'[t].pending) \/ Marked(op)
      /\ \A op \in mem'[t].ids : Marked(op)
      /\ \A u \in Tabs \ {t} : mem'[u] = mem[u]
      /\ store'.pending = mem'[t].pending
      /\ UNCHANGED <<stats, stream, clients, load, late>>
      /\ \/ saves' = [saves EXCEPT ![t] = Tail(saves[t])]
         \/ Restart(t, Tail(saves[t]))
  BY AcknowledgeIs
<1>2. NoGaps' /\ HasItsOwn' /\ StoreHas'
  <2>1. ASSUME NEW u \in Reloaders \ {t}, NEW op \in Ops(mem[u].pending)
        PROVE  op \in Ops(mem'[t].pending) \/ Marked(op)
    <3>1. Marked(op) \/ op \in Ops(store.pending)
      BY DEF GapInv, StoreHas
    <3> QED BY <1>1, <3>1
  <2>2. \A u \in Tabs : stream'[u].client = stream[u].client /\ stream'[u].seq = stream[u].seq
    BY <1>1
  <2>3. \A op \in Ops(mem[t].pending) : op \in Ops(mem'[t].pending) \/ Marked(op)
    BY <1>1
  <2>4. UNCHANGED stats
    BY <1>1
  <2> QED BY <1>1, <2>1, <2>2, <2>3, <2>4, ListReplaced
<1>3. Fewer(Tail(saves[t]), saves[t])
  BY <1>1, QueueTyped, TailFewer
<1>4. PICK q : Fewer(q, saves[t]) /\ saves' = [saves EXCEPT ![t] = q]
  <2>1. CASE saves' = [saves EXCEPT ![t] = Tail(saves[t])]
    BY <1>3, <2>1
  <2>2. CASE Restart(t, Tail(saves[t]))
    <3>1. /\ saves' = [saves EXCEPT ![t] = Disowned(Tail(saves[t]))]
          /\ Fewer(Disowned(Tail(saves[t])), saves[t])
      BY <1>1, <1>3, <2>2, Restarted
    <3> QED BY <3>1
  <2> QED BY <1>1, <2>1, <2>2
<1>5. Told'
  <2>1. Told /\ stats'.mark \in Marks /\ \A c \in Clients : stats.mark[c] <= stats'.mark[c]
    BY <1>1, QueueTyped, AllPlaced DEF GapInv
  <2>2. \A u \in Tabs : \A op \in mem'[u].ids : op \in mem[u].ids \/ Marked(op)
    BY <1>1
  <2>3. saves \in [Tabs -> Seq(SaveDoc)]
    BY DEF XpInv, XpShape
  <2>4. \A u \in Tabs : saves'[u] = IF u = t THEN q ELSE saves[u]
    BY <1>4, <2>3
  <2>5. \A u \in Tabs : \A i \in DOMAIN saves'[u] : \A reply \in saves'[u][i].answer :
           \E j \in DOMAIN saves[u] : reply \in saves[u][j].answer
    BY <1>4, <2>4 DEF Fewer
  <2>6. UNCHANGED <<stats, load>>
    BY <1>1
  <2>7. \A u \in Tabs : \A op \in mem'[u].ids :
           op \in mem[u].ids \/ (op.client \in Clients /\ op.seq <= stats'.mark[op.client])
    BY <2>2, <2>6 DEF Marked
  <2>8. \A op \in Ops(stats'.ledger) : op \in Ops(stats.ledger)
    BY <2>6
  <2>9. \A u \in Tabs : load'[u] = load[u]
    BY <2>6
  <2> QED BY <2>1, <2>5, <2>7, <2>8, <2>9, ToldStep
<1>6. NotAhead'
  BY <1>1 DEF GapInv, NotAhead
<1> QED BY <1>2, <1>5, <1>6 DEF GapInv

\* A tab that is loaded again has what it owes from the store.
LEMMA ReloadSame ==
    ASSUME Named = {}, XpInv, NEW t \in Tabs, NEW navigated \in BOOLEAN, Reload(t, navigated)
    PROVE  /\ mem'[t].pending = store.pending /\ mem'[t].ids = {}
           /\ \A u \in Tabs \ {t} : mem'[u] = mem[u]
           /\ store'.pending = store.pending
           /\ \A u \in Tabs : stream'[u].client = stream[u].client /\ stream'[u].seq = stream[u].seq
           /\ load'[t].pc = "reading" /\ \A u \in Tabs \ {t} : load'[u] = load[u]
           /\ saves'[t] = <<>> /\ \A u \in Tabs \ {t} : saves'[u] = saves[u]
           /\ \A u \in Tabs \ {t} : due'[u] = due[u]
           /\ t \in Reloaders /\ late' \subseteq Requests
           /\ UNCHANGED <<stats, clients, made>>
<1> DEFINE none == <<>>
           s == store.pending
           old == [stream[t] EXCEPT !.fork = navigated]
           st == Current(old)
<1>1. /\ old \in StreamDoc /\ old.client = stream[t].client /\ old.seq = stream[t].seq
      /\ st \in StreamDoc
      /\ store' = [points |-> store.points, pending |-> Upgrade(s, none, st)]
      /\ mem' = [mem EXCEPT ![t] = [points |-> store.points, pending |-> Upgrade(s, none, st), ids |-> {}]]
      /\ TakeStream(t, old, Advanced(st, Cardinality(Unplaced(s, none))))
      /\ load' = [load EXCEPT ![t] = Reading(ClientsOf(FirstOps(Upgrade(s, none, st))))]
      /\ saves' = [saves EXCEPT ![t] = <<>>] /\ due' = [due EXCEPT ![t] = FALSE]
      /\ late' \subseteq Requests
      /\ t \in Reloaders
      /\ UNCHANGED <<stats, made>>
  BY ReloadIs
<1>2. s \in Seq(OpDoc) /\ \A op \in Ops(s) : InStream(op)
  BY AroundDoc, AroundIs, AllPlaced DEF XpInv
<1>3. /\ stream \in [Tabs -> StreamDoc] /\ saves \in [Tabs -> Seq(SaveDoc)] /\ due \in [Tabs -> BOOLEAN]
      /\ mem \in [Tabs -> [points : Points, pending : Seq(OpDoc), ids : SUBSET OpDoc]] /\ DOMAIN load = Tabs
  BY DEF XpInv, XpShape, LoadShape
<1> HIDE DEF none, st, old, s
<1>4. Upgrade(s, none, st) = s /\ Unplaced(s, none) = {} /\ Advanced(st, Cardinality({})) = st
  BY <1>1, <1>2, PlacedKept, NoneAdvanced
<1>5. stream' = [stream EXCEPT ![t] = old] /\ UNCHANGED clients
  <2>1. TakeStream(t, old, Current(old))
    BY <1>1, <1>4 DEF st
  <2> QED BY <1>1, <2>1, StreamLeft
<1>6. store'.pending = s /\ mem'[t].pending = s /\ mem'[t].ids = {} /\ \A u \in Tabs \ {t} : mem'[u] = mem[u]
  BY <1>1, <1>3, <1>4
<1>7. \A u \in Tabs : stream'[u].client = stream[u].client /\ stream'[u].seq = stream[u].seq
  <2> SUFFICES ASSUME NEW u \in Tabs
               PROVE  stream'[u].client = stream[u].client /\ stream'[u].seq = stream[u].seq
    OBVIOUS
  <2>1. CASE u = t
    BY <1>1, <1>3, <1>5, <2>1
  <2>2. CASE u # t
    BY <1>3, <1>5, <2>2
  <2> QED BY <2>1, <2>2
<1>8. load'[t].pc = "reading" /\ \A u \in Tabs \ {t} : load'[u] = load[u]
  BY <1>1, <1>3 DEF Reading
<1>9. /\ saves'[t] = <<>> /\ \A u \in Tabs \ {t} : saves'[u] = saves[u]
      /\ \A u \in Tabs \ {t} : due'[u] = due[u]
  BY <1>1, <1>3
<1> QED BY <1>1, <1>5, <1>6, <1>7, <1>8, <1>9 DEF s

LEMMA GapReload ==
    ASSUME Named = {}, XpInv, GapInv, NEW t \in Tabs, NEW navigated \in BOOLEAN, Reload(t, navigated)
    PROVE  GapInv'
<1>1. /\ mem'[t].pending = store.pending /\ mem'[t].ids = {}
      /\ \A u \in Tabs \ {t} : mem'[u] = mem[u]
      /\ store'.pending = store.pending
      /\ \A u \in Tabs : stream'[u].client = stream[u].client /\ stream'[u].seq = stream[u].seq
      /\ load'[t].pc = "reading" /\ \A u \in Tabs \ {t} : load'[u] = load[u]
      /\ saves'[t] = <<>> /\ \A u \in Tabs \ {t} : saves'[u] = saves[u]
      /\ t \in Reloaders
      /\ UNCHANGED <<stats, clients, made>>
  BY ReloadSame
<1>2. NoGaps' /\ HasItsOwn' /\ StoreHas'
  <2>1. ASSUME NEW u \in Reloaders, NEW op \in Ops(mem[u].pending)
        PROVE  op \in Ops(mem'[t].pending) \/ Marked(op)
    BY <1>1 DEF GapInv, StoreHas
  <2>2. NoGap(mem'[t].pending, stats.mark)
    BY <1>1 DEF GapInv, NoGaps
  <2>3. UNCHANGED stats
    BY <1>1
  <2> QED BY <1>1, <2>1, <2>2, <2>3, ListReplaced
<1>3. Told'
  <2>1. Told /\ stats'.mark \in Marks /\ \A c \in Clients : stats.mark[c] <= stats'.mark[c]
    BY <1>1, QueueTyped, AllPlaced DEF GapInv
  <2>2. \A u \in Tabs : \A op \in mem'[u].ids : op \in mem[u].ids
    BY <1>1
  <2>3. \A u \in Tabs : \A i \in DOMAIN saves'[u] : \A reply \in saves'[u][i].answer :
           \E j \in DOMAIN saves[u] : reply \in saves[u][j].answer
    <3> SUFFICES ASSUME NEW u \in Tabs, NEW i \in DOMAIN saves'[u], NEW reply \in saves'[u][i].answer
                 PROVE  \E j \in DOMAIN saves[u] : reply \in saves[u][j].answer
      OBVIOUS
    <3>1. u # t
      <4> SUFFICES ASSUME u = t PROVE FALSE
        OBVIOUS
      <4>1. DOMAIN saves'[t] = {}
        BY <1>1
      <4> QED BY <4>1
    <3> QED BY <1>1, <3>1
  <2>4. \A op \in Ops(stats'.ledger) : op \in Ops(stats.ledger)
    BY <1>1
  <2>5. \A u \in Tabs : load'[u].pc = "read" => load'[u] = load[u]
    BY <1>1
  <2> QED BY <2>1, <2>2, <2>3, <2>4, <2>5, ToldStep
<1>4. NotAhead'
  BY <1>1 DEF GapInv, NotAhead
<1> QED BY <1>2, <1>3, <1>4 DEF GapInv

LEMMA GapStart == XpInit => GapInv
<1> SUFFICES ASSUME XpInit PROVE GapInv
  OBVIOUS
<1> DEFINE none == <<>>
<1>1. /\ stats.mark = NoMarks /\ stats.ledger = none /\ store.pending = none
      /\ \A t \in Tabs : /\ mem[t].pending = none /\ mem[t].ids = {}
                         /\ stream[t] = NoStream /\ load[t] = Reading({}) /\ saves[t] = none
      /\ clients = 0
  BY DEF XpInit
<1>2. Ops(none) = {} /\ DOMAIN none = {}
  BY OpsOfEmpty
<1> HIDE DEF none
<1>3. Told
  BY <1>1, <1>2 DEF Told, Reading
<1>4. NotAhead /\ HasItsOwn
  BY <1>1, SizeAssumption DEF NotAhead, HasItsOwn, NoMarks, NoStream, Clients
<1>5. NoGaps /\ StoreHas
  BY <1>1, <1>2, TabAssumption DEF NoGaps, NoGap, StoreHas
<1> QED BY <1>3, <1>4, <1>5 DEF GapInv

LEMMA GapStep ==
    ASSUME Named = {}, \A t \in Reloaders : Readers \subseteq {t}
    PROVE  XpInv /\ GapInv /\ [XpNext]_xpVars => GapInv'
<1> SUFFICES ASSUME XpInv, GapInv, [XpNext]_xpVars PROVE GapInv'
  OBVIOUS
<1>1. ASSUME NEW t \in Tabs, Proceed(t) PROVE GapInv'
  <2>1. ASSUME Ignore(t) PROVE GapInv'
    <3>1. /\ saves[t] # <<>> /\ saves' = [saves EXCEPT ![t] = Tail(saves[t])]
          /\ UNCHANGED <<stats, store, mem, stream, clients, load>>
      BY <2>1 DEF Ignore, Answered
    <3>2. Fewer(Tail(saves[t]), saves[t])
      BY <3>1, QueueTyped, TailFewer
    <3> QED BY <3>1, <3>2, GapQueue
  <2> QED BY <1>1, <2>1, GapReadCloud, GapPublish, GapReadFails, GapSchedule, GapSave, GapAcknowledge
          DEF Proceed
<1>2. ASSUME NEW t \in Tabs, Fault(t) PROVE GapInv'
  <2>1. /\ saves[t] # <<>> /\ saves' = [saves EXCEPT ![t] = Failed(t)]
        /\ UNCHANGED <<stats, store, mem, stream, clients, load>>
    BY <1>2 DEF Fault
  <2>2. Fewer(Failed(t), saves[t])
    BY <2>1, FailedFewer DEF XpInv
  <2> QED BY <2>1, <2>2, GapQueue
<1>3. ASSUME NEW t \in Tabs, NEW a \in Awards, Award(t, a) PROVE GapInv'
  BY <1>3, GapAward
<1>4. ASSUME NEW t \in Tabs, NEW navigated \in BOOLEAN, Reload(t, navigated) PROVE GapInv'
  BY <1>4, GapReload
<1>5. ASSUME NEW req \in late, LateSave(req) PROVE GapInv'
  BY <1>5, GapLateSave
<1>6. CASE UNCHANGED xpVars
  BY <1>6, GapCalm DEF xpVars
<1> QED BY <1>1, <1>2, <1>3, <1>4, <1>5, <1>6 DEF XpNext

LEMMA GapImplies == XpInv /\ GapInv => NoStreamGap
<1> SUFFICES ASSUME XpInv, GapInv, NEW t \in Tabs, NEW i \in DOMAIN mem[t].pending,
                    InStream(mem[t].pending[i]),
                    NEW n \in stats.mark[mem[t].pending[i].client] + 1 .. mem[t].pending[i].seq - 1
             PROVE  \E j \in 1 .. i - 1 : /\ mem[t].pending[j].client = mem[t].pending[i].client
                                          /\ mem[t].pending[j].seq = n
  BY DEF NoStreamGap
<1>1. NoGap(mem[t].pending, stats.mark)
  BY DEF GapInv, NoGaps
<1> QED BY <1>1 DEF NoGap

\* When no award has a name and no tab reads the cloud while another is loaded
\* again, every tab holds what the cloud misses of a stream before what it sends
\* of it (gamificationPersistence.ts:483).
THEOREM XpNoStreamGap ==
    ASSUME Named = {}, \A t \in Reloaders : Readers \subseteq {t}
    PROVE  XpSpec => []NoStreamGap
<1>1. XpInit => GapInv
  BY GapStart
<1>2. XpInv /\ GapInv /\ [XpNext]_xpVars => GapInv'
  BY GapStep
<1>3. XpInv /\ GapInv => NoStreamGap
  BY GapImplies
<1> QED BY <1>1, <1>2, <1>3, XpInvariant, PTL DEF XpSpec

-----------------------------------------------------------------------------
(* What a tab owes, it saves.                                              *)

LEMMA RestTyped ==
    ASSUME Named = {}, XpInv
    PROVE  /\ \A a \in Awards : made[a] \in Nat /\ stats.points[a] \in {0, 1}
           /\ \A t \in Tabs : mem[t].pending \in Seq(OpDoc) /\ saves[t] \in Seq(SaveDoc)
           /\ \A t \in Tabs : due[t] \in BOOLEAN /\ (load[t] # Done => saves[t] = <<>>)
<1>1. \A a \in Awards : made[a] \in Nat /\ stats.points[a] \in {0, 1}
  BY AllPlaced DEF XpInv, XpShape, Credits
<1>2. \A t \in Tabs : due[t] \in BOOLEAN /\ (load[t] # Done => saves[t] = <<>>)
  BY DEF XpInv, LoadShape
<1>3. \A t \in Tabs : mem[t].pending \in Seq(OpDoc)
  BY AroundDoc DEF XpInv
<1> QED BY <1>1, <1>2, <1>3, QueueTyped

\* What a tab's list loses is in the account.
LEMMA OwedStay ==
    ASSUME Named = {}, XpInv, RestInv, NEW t \in Tabs, UNCHANGED <<stats, made>>,
           \A u \in Tabs \ {t} : mem'[u] = mem[u],
           \A op \in Ops(mem[t].pending) : op \in Ops(mem'[t].pending) \/ Marked(op)
    PROVE  Owed'
<1> SUFFICES ASSUME NEW a \in Awards, made[a] > 0, stats.points[a] = 0
             PROVE  \E u \in Tabs : a \in AwardsOf(mem'[u].pending)
  BY DEF Owed, AwardsOf
<1>1. PICK u \in Tabs : a \in AwardsOf(mem[u].pending)
  BY DEF RestInv, Owed
<1>2. CASE u # t
  BY <1>1, <1>2
<1>3. CASE u = t
  <2>1. PICK op \in Ops(mem[t].pending) : op.award = a
    BY <1>1, <1>3 DEF AwardsOf
  <2>2. ~ Marked(op)
    BY <2>1, AroundIs DEF RestInv, Counting
  <2>3. op \in Ops(mem'[t].pending)
    BY <2>2
  <2> QED BY <2>1, <2>3 DEF AwardsOf
<1> QED BY <1>2, <1>3

LEMMA CountingStay ==
    ASSUME RestInv, UNCHANGED stats, Around' \subseteq Around
    PROVE  Counting'
BY DEF RestInv, Counting, Marked

\* A queue that keeps an awaited save, if it had one.
LEMMA QueueRest ==
    ASSUME XpInv, RestInv, NEW t \in Tabs, NEW q, Fewer(q, saves[t]),
           saves' = [saves EXCEPT ![t] = q], UNCHANGED due, \A u \in Tabs : mem'[u].pending = mem[u].pending,
           \A u \in Tabs : load'[u] = Done => load[u] = Done,
           mem[t].pending # <<>> /\ (\E i \in DOMAIN saves[t] : saves[t][i].live) => \E i \in DOMAIN q : q[i].live
    PROVE  Awaited' /\ Saving'
<1>1. saves \in [Tabs -> Seq(SaveDoc)]
  BY DEF XpInv, XpShape
<1>2. saves'[t] = q /\ \A u \in Tabs \ {t} : saves'[u] = saves[u]
  BY <1>1
<1>3. ASSUME NEW u \in Tabs, NEW i \in DOMAIN saves'[u], saves'[u][i].live
      PROVE  /\ saves'[u][i].req.pending = mem[u].pending
             /\ \A reply \in saves'[u][i].answer :
                   mem[u].pending # <<>> => mem[u].pending[1] \in reply.acked
  <2>1. PICK j \in DOMAIN saves[u] : /\ saves'[u][i].req = saves[u][j].req
                                     /\ saves'[u][i].live => saves[u][j].live
                                     /\ saves'[u][i].answer \subseteq saves[u][j].answer
    <3>1. CASE u = t
      BY <1>2, <1>3, <3>1 DEF Fewer
    <3>2. CASE u # t
      BY <1>2, <1>3, <3>2
    <3> QED BY <3>1, <3>2
  <2> QED BY <1>3, <2>1 DEF RestInv, Awaited
<1>4. Awaited'
  BY <1>3 DEF Awaited
<1>5. ASSUME NEW u \in Tabs, load'[u] = Done, mem[u].pending # <<>>
      PROVE  due[u] \/ \E i \in DOMAIN saves'[u] : saves'[u][i].live
  <2>1. due[u] \/ \E i \in DOMAIN saves[u] : saves[u][i].live
    BY <1>5 DEF RestInv, Saving
  <2> QED BY <1>2, <1>5, <2>1
<1>6. Saving'
  BY <1>5 DEF Saving
<1> QED BY <1>4, <1>6

\* A queue whose saves are awaited no more.
LEMMA RestartRest ==
    ASSUME XpInv, RestInv, NEW t \in Tabs, NEW q, Fewer(q, saves[t]), Restart(t, q), UNCHANGED load,
           \A u \in Tabs \ {t} : mem'[u] = mem[u]
    PROVE  Awaited' /\ Saving'
<1>1. saves \in [Tabs -> Seq(SaveDoc)] /\ due \in [Tabs -> BOOLEAN]
  BY DEF XpInv, XpShape, LoadShape
<1>2. q \in Seq(SaveDoc)
  BY DEF Fewer
<1>3. DOMAIN Disowned(q) = DOMAIN q /\ \A i \in DOMAIN q : ~ Disowned(q)[i].live
  BY <1>2, DisownedFewer
<1>4. /\ saves'[t] = Disowned(q) /\ \A u \in Tabs \ {t} : saves'[u] = saves[u]
      /\ due'[t] = (load[t] = Done) /\ \A u \in Tabs \ {t} : due'[u] = due[u]
  BY <1>1 DEF Restart
<1>5. Awaited'
  <2> SUFFICES ASSUME NEW u \in Tabs, NEW i \in DOMAIN saves'[u], saves'[u][i].live
               PROVE  /\ saves'[u][i].req.pending = mem'[u].pending
                      /\ \A reply \in saves'[u][i].answer :
                            mem'[u].pending # <<>> => mem'[u].pending[1] \in reply.acked
    BY DEF Awaited
  <2>1. u # t
    BY <1>3, <1>4
  <2> QED BY <1>4, <2>1 DEF RestInv, Awaited
<1>6. Saving'
  <2> SUFFICES ASSUME NEW u \in Tabs, load'[u] = Done, mem'[u].pending # <<>>
               PROVE  due'[u] \/ \E i \in DOMAIN saves'[u] : saves'[u][i].live
    BY DEF Saving
  <2>1. CASE u = t
    BY <1>4, <2>1
  <2>2. CASE u # t
    BY <1>4, <2>2 DEF RestInv, Saving
  <2> QED BY <2>1, <2>2
<1> QED BY <1>5, <1>6

\* Requests come and go, and no tab's operations change.
LEMMA RestQueue ==
    ASSUME Named = {}, XpInv, RestInv, NEW t \in Tabs, NEW q, Fewer(q, saves[t]),
           saves' = [saves EXCEPT ![t] = q], late' \subseteq Requests,
           UNCHANGED <<stats, store, mem, load, due, made>>,
           (\E i \in DOMAIN saves[t] : saves[t][i].live) => \E i \in DOMAIN q : q[i].live
    PROVE  RestInv'
<1>1. Awaited' /\ Saving'
  BY QueueRest
<1>2. Requests' \subseteq Requests
  BY RequestsKept DEF XpInv
<1>3. Around' \subseteq Around
  BY <1>2, AroundIs, AroundIsNext
<1>4. Counting'
  BY <1>3, CountingStay
<1>5. Owed'
  BY OwedStay
<1> QED BY <1>1, <1>4, <1>5 DEF RestInv

\* The save at the head is sent again, or was not awaited.
LEMMA FailedLive ==
    ASSUME XpInv, NEW t \in Tabs, saves[t] # <<>>
    PROVE  (\E i \in DOMAIN saves[t] : saves[t][i].live) => \E i \in DOMAIN Failed(t) : Failed(t)[i].live
<1>1. saves[t] \in Seq(SaveDoc) /\ Head(saves[t]) = saves[t][1] /\ 1 \in DOMAIN saves[t]
  BY QueueTyped, HeadIs
<1>2. CASE Head(saves[t]).live
  <2> DEFINE q == [saves[t] EXCEPT ![1].answer = {}]
  <2>1. DOMAIN q = DOMAIN saves[t] /\ q[1].live = saves[t][1].live
    BY <1>1, UnansweredFewer
  <2>2. Failed(t) = q
    BY <1>2 DEF Failed
  <2> HIDE DEF q
  <2> QED BY <1>1, <1>2, <2>1, <2>2
<1>3. CASE ~ Head(saves[t]).live
  <2>1. Failed(t) = Tail(saves[t])
    BY <1>3 DEF Failed
  <2> SUFFICES ASSUME NEW i \in DOMAIN saves[t], saves[t][i].live
               PROVE  \E j \in DOMAIN Tail(saves[t]) : Tail(saves[t])[j].live
    BY <2>1
  <2>2. i # 1 /\ i \in 1 .. Len(saves[t]) /\ Len(saves[t]) \in Nat
    BY <1>1, <1>3
  <2>3. Len(Tail(saves[t])) = Len(saves[t]) - 1 /\ Tail(saves[t]) \in Seq(SaveDoc)
        /\ \A j \in DOMAIN Tail(saves[t]) : Tail(saves[t])[j] = saves[t][j + 1]
    <3>1. Fewer(Tail(saves[t]), saves[t])
      BY <1>1, TailFewer
    <3> QED BY <1>1, <3>1, TailFewer DEF Fewer
  <2>4. i - 1 \in DOMAIN Tail(saves[t]) /\ (i - 1) + 1 = i
    BY <2>2, <2>3
  <2> QED BY <2>3, <2>4
<1> QED BY <1>2, <1>3

LEMMA RestIgnore ==
    ASSUME Named = {}, XpInv, RestInv, NEW t \in Tabs, Ignore(t)
    PROVE  RestInv'
<1>1. /\ saves[t] # <<>> /\ ~ Head(saves[t]).live /\ saves' = [saves EXCEPT ![t] = Tail(saves[t])]
      /\ UNCHANGED <<stats, store, mem, load, due, late, made>>
  BY DEF Ignore, Answered
<1>2. Failed(t) = Tail(saves[t])
  BY <1>1 DEF Failed
<1>3. Fewer(Tail(saves[t]), saves[t])
  BY <1>1, QueueTyped, TailFewer
<1>4. (\E i \in DOMAIN saves[t] : saves[t][i].live) => \E i \in DOMAIN Tail(saves[t]) : Tail(saves[t])[i].live
  BY <1>1, <1>2, FailedLive
<1>5. late' \subseteq Requests
  BY <1>1, RequestsAre
<1> QED BY <1>1, <1>3, <1>4, <1>5, RestQueue

LEMMA RestFault ==
    ASSUME Named = {}, XpInv, RestInv, NEW t \in Tabs, Fault(t)
    PROVE  RestInv'
<1>1. /\ saves[t] # <<>> /\ saves' = [saves EXCEPT ![t] = Failed(t)]
      /\ late' \subseteq late \cup {Head(saves[t]).req}
      /\ UNCHANGED <<stats, store, mem, load, due, made>>
  BY DEF Fault
<1>2. Fewer(Failed(t), saves[t])
  BY <1>1, FailedFewer DEF XpInv
<1>3. late' \subseteq Requests
  BY <1>1, RequestsAre, HeadIs
<1>4. (\E i \in DOMAIN saves[t] : saves[t][i].live) => \E i \in DOMAIN Failed(t) : Failed(t)[i].live
  BY <1>1, FailedLive
<1> QED BY <1>1, <1>2, <1>3, <1>4, RestQueue

\* A tab's first read begins or ends; it had nothing on the way.
LEMMA RestLoad ==
    ASSUME Named = {}, XpInv, RestInv, NEW t \in Tabs,
           UNCHANGED <<stats, saves, late, made>>,
           \A u \in Tabs \ {t} : mem'[u] = mem[u] /\ load'[u] = load[u] /\ due'[u] = due[u],
           load[t] # Done, load'[t] = Done => due'[t],
           Around' \subseteq Around,
           \A op \in Ops(mem[t].pending) : op \in Ops(mem'[t].pending) \/ Marked(op)
    PROVE  RestInv'
<1>1. Counting' /\ Owed'
  BY CountingStay, OwedStay
<1>2. saves[t] = <<>> /\ DOMAIN saves[t] = {}
  BY RestTyped
<1>3. Awaited'
  <2> SUFFICES ASSUME NEW u \in Tabs, NEW i \in DOMAIN saves[u], saves[u][i].live
               PROVE  /\ saves[u][i].req.pending = mem'[u].pending
                      /\ \A reply \in saves[u][i].answer :
                            mem'[u].pending # <<>> => mem'[u].pending[1] \in reply.acked
    BY DEF Awaited
  <2>1. u # t
    BY <1>2
  <2> QED BY <2>1 DEF RestInv, Awaited
<1>4. Saving'
  <2> SUFFICES ASSUME NEW u \in Tabs, load'[u] = Done, mem'[u].pending # <<>>
               PROVE  due'[u] \/ \E i \in DOMAIN saves[u] : saves[u][i].live
    BY DEF Saving
  <2>1. CASE u = t
    BY <2>1
  <2>2. CASE u # t
    BY <2>2 DEF RestInv, Saving
  <2> QED BY <2>1, <2>2
<1> QED BY <1>1, <1>3, <1>4 DEF RestInv

LEMMA RestRead ==
    ASSUME Named = {}, XpInv, RestInv, NEW t \in Tabs, ReadCloud(t) \/ ReadFails(t)
    PROVE  RestInv'
<1>1. load[t].pc = "reading" /\ UNCHANGED <<stats, store, mem, saves, late, made>>
  BY DEF ReadCloud, ReadFails
<1>2. load[t] # Done /\ DOMAIN load = Tabs /\ due \in [Tabs -> BOOLEAN]
  BY <1>1 DEF Done, XpInv, LoadShape
<1>3. Around' \subseteq Around
  <2>1. Requests' = Requests
    BY <1>1 DEF Requests
  <2> QED BY <1>1, <2>1, AroundIs, AroundIsNext
<1>4. \A u \in Tabs \ {t} : mem'[u] = mem[u] /\ load'[u] = load[u] /\ due'[u] = due[u]
  BY <1>1, <1>2 DEF ReadCloud, ReadFails
<1>5. load'[t] = Done => due'[t]
  <2>1. CASE ReadFails(t)
    BY <1>2, <2>1 DEF ReadFails
  <2>2. CASE ReadCloud(t)
    <3>1. load'[t].pc = "read"
      BY <1>2, <2>2 DEF ReadCloud
    <3> QED BY <3>1 DEF Done
  <2> QED BY <2>1, <2>2
<1> QED BY <1>1, <1>2, <1>3, <1>4, <1>5, RestLoad

LEMMA RestPublish ==
    ASSUME Named = {}, \A u \in Reloaders : Readers \subseteq {u},
           XpInv, GapInv, RestInv, NEW t \in Tabs, Publish(t)
    PROVE  RestInv'
<1>1. /\ load[t].pc = "read" /\ UNCHANGED <<stats, saves, late, made>>
      /\ store' = Kept(mem'[t]) /\ load' = [load EXCEPT ![t] = Done] /\ due' = [due EXCEPT ![t] = TRUE]
  BY DEF Publish
<1>2. /\ Ops(mem'[t].pending) \subseteq Ops(mem[t].pending)
      /\ \A op \in Ops(mem[t].pending) : op \in Ops(mem'[t].pending) \/ Marked(op)
      /\ \A u \in Tabs \ {t} : mem'[u] = mem[u]
  BY GapPublish
<1>3. load[t] # Done /\ DOMAIN load = Tabs /\ due \in [Tabs -> BOOLEAN]
  BY <1>1 DEF Done, XpInv, LoadShape
<1>4. Around' \subseteq Around
  <2>1. Requests' = Requests
    BY <1>1 DEF Requests
  <2>2. store'.pending = mem'[t].pending
    BY <1>1 DEF Kept
  <2>3. \A u \in Tabs : \A op \in Ops(mem'[u].pending) : op \in Around
    BY <1>2, AroundIs
  <2> QED BY <2>1, <2>2, <2>3, AroundIs, AroundIsNext
<1>5. due'[t] /\ \A u \in Tabs \ {t} : load'[u] = load[u] /\ due'[u] = due[u]
  BY <1>1, <1>3
<1> QED BY <1>1, <1>2, <1>3, <1>4, <1>5, RestLoad

LEMMA RestSchedule ==
    ASSUME Named = {}, XpInv, RestInv, NEW t \in Tabs, Schedule(t)
    PROVE  RestInv'
<1> DEFINE r == [points |-> mem[t].points, pending |-> mem[t].pending, ops |-> FirstOps(mem[t].pending)]
           d == [req |-> r, live |-> TRUE, answer |-> {}]
<1>1. /\ \A u \in Tabs \ {t} : saves'[u] = saves[u]
      /\ DOMAIN saves'[t] = 1 .. Len(saves[t]) + 1 /\ saves'[t][Len(saves[t]) + 1] = d
      /\ \A i \in DOMAIN saves[t] : saves'[t][i] = saves[t][i]
      /\ DOMAIN saves[t] = 1 .. Len(saves[t]) /\ Len(saves[t]) \in Nat
      /\ Requests' \subseteq Requests \cup {r}
      /\ due' = [due EXCEPT ![t] = FALSE]
      /\ UNCHANGED <<stats, store, mem, stream, clients, load, late, made>>
  BY ScheduleIs
<1>2. r.pending = mem[t].pending /\ d.req = r /\ d.live /\ d.answer = {}
  OBVIOUS
<1> HIDE DEF r, d
<1>3. Around' \subseteq Around
  BY <1>1, <1>2, AroundIs, AroundIsNext
<1>4. Counting' /\ Owed'
  BY <1>1, <1>3, CountingStay, OwedStay
<1>5. Awaited'
  <2> SUFFICES ASSUME NEW u \in Tabs, NEW i \in DOMAIN saves'[u], saves'[u][i].live
               PROVE  /\ saves'[u][i].req.pending = mem[u].pending
                      /\ \A reply \in saves'[u][i].answer :
                            mem[u].pending # <<>> => mem[u].pending[1] \in reply.acked
    BY <1>1 DEF Awaited
  <2>1. CASE u = t /\ i = Len(saves[t]) + 1
    BY <1>1, <1>2, <2>1
  <2>2. CASE u = t /\ i # Len(saves[t]) + 1
    <3>1. i \in DOMAIN saves[t] /\ saves'[t][i] = saves[t][i]
      BY <1>1, <2>2
    <3> QED BY <2>2, <3>1 DEF RestInv, Awaited
  <2>3. CASE u # t
    BY <1>1, <2>3 DEF RestInv, Awaited
  <2> QED BY <2>1, <2>2, <2>3
<1>6. Saving'
  <2>1. due \in [Tabs -> BOOLEAN]
    BY DEF XpInv, LoadShape
  <2> SUFFICES ASSUME NEW u \in Tabs, load[u] = Done, mem[u].pending # <<>>
               PROVE  due'[u] \/ \E i \in DOMAIN saves'[u] : saves'[u][i].live
    BY <1>1 DEF Saving
  <2>2. CASE u = t
    <3>1. Len(saves[t]) + 1 \in DOMAIN saves'[t] /\ saves'[t][Len(saves[t]) + 1].live
      BY <1>1, <1>2
    <3> QED BY <2>2, <3>1
  <2>3. CASE u # t
    BY <1>1, <2>1, <2>3 DEF RestInv, Saving
  <2> QED BY <2>2, <2>3
<1> QED BY <1>4, <1>5, <1>6 DEF RestInv

\* What a watermark passes, the account has got.
LEMMA SavedCounts ==
    ASSUME Named = {}, XpInv, GapInv, RestInv, NEW req \in Requests, ~ Refused(req),
           NEW op \in Around, op.seq <= Outcome(req).mark[op.client]
    PROVE  Outcome(req).points[op.award] = 1
<1> DEFINE o == Outcome(req)
           a == op.award
           c == op.client
<1>1. /\ a \in Awards /\ a \in Unnamed /\ c \in Clients /\ c \in Nat /\ op.seq \in Nat /\ stats.mark[c] \in Nat
      /\ InStream(op) /\ op \in OpDoc
  BY AllPlaced
<1>2. /\ o.points[a] \in {0, 1} /\ stats.points[a] <= o.points[a] /\ o.mark \in Marks
      /\ stats.points[a] \in {0, 1}
  BY <1>1, SavedIs DEF Acceptable, XpInv, Credits
<1>3. CASE Marked(op)
  <2>1. stats.points[a] = 1
    BY <1>3 DEF RestInv, Counting
  <2> QED BY <1>2, <2>1
<1>4. CASE ~ Marked(op) /\ stats.exists
  <2> DEFINE k == Classified(req)
  <2>1. /\ Judged(k, req.ops, Len(req.ops)) /\ k \in AccDoc
        /\ o.points = Plus(stats.points, k.fresh) /\ o.mark = k.mark
        /\ Ops(k.acked) \subseteq Ops(req.ops) /\ Ops(k.fresh) \subseteq Ops(k.acked)
        /\ Ops(req.ops) \subseteq Ops(req.pending)
        /\ \A b \in Unnamed : Single(k.fresh, b)
    BY <1>4, OutcomeJudged
  <2> HIDE DEF k, o
  <2>2. Gained(k)
    BY <2>1 DEF Judged
  <2>3. op.seq \in stats.mark[c] + 1 .. k.mark[c]
    BY <1>1, <1>2, <1>4, <2>1 DEF Marked, Marks, o
  <2>4. PICK p \in Ops(k.acked) : /\ p.client = c /\ p.seq = op.seq
                                  /\ Listed(p, Ops(stats.ledger)) \/ p \in Ops(k.fresh)
    BY <1>1, <2>2, <2>3 DEF Gained
  <2>5. p \in Around
    BY <2>1, <2>4, AroundIs
  <2>6. p = op
    BY <1>1, <2>4, <2>5 DEF XpInv, OnePlace
  <2>7. ~ Listed(op, Ops(stats.ledger))
    BY <1>4, ListedMarked DEF GapInv, Told
  <2>8. op \in Ops(k.fresh)
    BY <2>4, <2>6, <2>7
  <2>9. a \in AwardsOf(k.fresh) /\ k.fresh \in Seq(OpDoc) /\ stats.points \in Points /\ Single(k.fresh, a)
    BY <1>1, <2>1, <2>8, QueueTyped DEF AwardsOf, AccDoc
  <2>10. Plus(stats.points, k.fresh)[a] = stats.points[a] + 1
    <3> HIDE DEF a
    <3> QED BY <1>1, <2>9, PlusIs
  <2> QED BY <1>2, <2>1, <2>10 DEF o
<1>5. CASE ~ Marked(op) /\ ~ stats.exists
  <2> DEFINE s == req.pending
  <2>1. o.points = req.points /\ o.mark = [d \in Clients |-> LastPlace(s, d)]
    BY <1>5 DEF Outcome
  <2>2. stats.mark[c] = 0 /\ Counted(req) /\ s \in Seq(OpDoc) /\ ~ BootstrapGap(req)
    BY <1>1, <1>5, AroundDoc DEF XpInv, Unborn, NoMarks, Refused
  <2> HIDE DEF o
  <2>3. op.seq > 0 /\ op.seq <= LastPlace(s, c)
    BY <1>1, <1>5, <2>1, <2>2 DEF Marked, o
  <2> HIDE DEF s
  <2>4. LastPlace(s, c) \in Nat /\ \E p \in Ops(s) : p.client = c /\ p.seq = LastPlace(s, c)
    BY <1>1, <2>2, <2>3, LastPlaceIs
  <2>5. PICK p \in Ops(s) : p.client = c /\ p.seq = LastPlace(s, c)
    BY <2>4
  <2>6. PICK q \in Ops(req.pending) : q.client = p.client /\ q.seq = op.seq
    <3>1. p \in Ops(req.pending) /\ req.pending \in Seq(OpDoc) /\ 1 <= op.seq /\ op.seq <= p.seq
      BY <1>1, <2>2, <2>3, <2>5 DEF s
    <3> QED BY <1>1, <2>2, <3>1, NoBootstrapGap
  <2>7. q \in Around
    BY AroundIs
  <2>8. q = op
    BY <1>1, <2>5, <2>6, <2>7 DEF XpInv, OnePlace
  <2>9. a \in AwardsOf(req.pending)
    BY <2>6, <2>8 DEF AwardsOf
  <2>10. req.points[a] = 1
    BY <1>1, <2>2, <2>9 DEF Counted
  <2> QED BY <2>1, <2>10 DEF o
<1> QED BY <1>3, <1>4, <1>5

\* The answer to a save acknowledges the first of its operations.
LEMMA FirstAcked ==
    ASSUME Named = {}, XpInv, GapInv, NEW t \in Tabs, NEW req \in Requests,
           req.pending = mem[t].pending, mem[t].pending # <<>>
    PROVE  mem[t].pending[1] \in Ops(Outcome(req).acked)
<1> DEFINE s == mem[t].pending
           op == s[1]
<1>1. s \in Seq(OpDoc) /\ 1 \in DOMAIN s /\ NoGap(s, stats.mark)
  BY AroundDoc DEF XpInv, GapInv, NoGaps
<1>2. op \in Ops(s) /\ op \in Around
  BY <1>1, OpIn, AroundIs
<1>3. InStream(op) /\ op.client \in Clients /\ stats.mark[op.client] \in Nat /\ op.seq \in Nat
  BY <1>2, AllPlaced
<1> HIDE DEF s
<1>4. op.seq <= stats.mark[op.client] + 1
  <2> SUFFICES ASSUME op.seq > stats.mark[op.client] + 1 PROVE FALSE
    BY <1>3
  <2>1. stats.mark[op.client] + 1 \in stats.mark[op.client] + 1 .. op.seq - 1
    BY <1>3
  <2>2. \E j \in 1 .. 0 : s[j].client = op.client /\ s[j].seq = stats.mark[op.client] + 1
    BY <1>1, <2>1 DEF NoGap
  <2> QED BY <2>2
<1>5. CASE stats.exists
  <2> DEFINE k == Classified(req)
  <2>1. Judged(k, req.ops, Len(req.ops)) /\ Outcome(req).acked = k.acked
    BY <1>5, OutcomeJudged
  <2> HIDE DEF k
  <2>2. req.ops = FirstOps(s)
    BY DEF XpInv, ReqShape, s
  <2>3. FirstOps(s) \in Seq(OpDoc) /\ FirstOps(s) # <<>> /\ FirstOps(s)[1] = op
    BY <1>1, FirstOpsIs DEF s
  <2>4. Len(req.ops) >= 1
    BY <2>2, <2>3
  <2>5. op \in Ops(k.acked)
    BY <1>3, <1>4, <2>1, <2>2, <2>3, <2>4 DEF Judged
  <2> QED BY <2>1, <2>5 DEF s
<1>6. CASE ~ stats.exists
  <2>1. Outcome(req).acked = Bootstrapped(s)
    BY <1>6 DEF Outcome, s
  <2>2. Ops(Bootstrapped(s)) = Ops(s)
    BY <1>1, BootstrappedOps
  <2> QED BY <1>2, <2>1, <2>2 DEF s
<1> QED BY <1>5, <1>6

LEMMA RestSaved ==
    ASSUME Named = {}, XpInv, GapInv, RestInv, NEW req \in Requests, ~ Refused(req), stats' = Saved(req),
           UNCHANGED <<store, mem, made>>, Requests' \subseteq Requests
    PROVE  Counting' /\ Owed'
<1>1. stats'.points = Outcome(req).points /\ stats'.mark = Outcome(req).mark
  BY SavedIs
<1>2. Around' \subseteq Around
  BY AroundIs, AroundIsNext
<1>3. Counting'
  BY <1>1, <1>2, SavedCounts DEF Counting, Marked
<1>4. \A a \in Awards : stats.points[a] <= stats'.points[a] /\ stats.points[a] \in {0, 1} /\ stats'.points[a] \in {0, 1}
  BY <1>1, SavedIs, AllPlaced DEF Acceptable, XpInv, Credits
<1>5. \A a \in Awards : stats'.points[a] = 0 => stats.points[a] = 0
  BY <1>4
<1>6. Owed'
  BY <1>5 DEF RestInv, Owed
<1> QED BY <1>3, <1>6

LEMMA RestSave ==
    ASSUME Named = {}, XpInv, GapInv, RestInv, NEW t \in Tabs, Save(t)
    PROVE  RestInv'
<1> DEFINE req == Head(saves[t]).req
<1>1. saves[t] # <<>> /\ UNCHANGED <<store, mem, load, due, late, made>>
  BY DEF Save, Open
<1>2. req \in Requests
  BY <1>1, HeadIs
<1>3. CASE Refused(req)
  <2>1. saves' = [saves EXCEPT ![t] = Failed(t)] /\ UNCHANGED stats
    BY <1>3 DEF Save
  <2>2. Fewer(Failed(t), saves[t])
    BY <1>1, FailedFewer DEF XpInv
  <2>3. late' \subseteq Requests
    BY <1>1, RequestsAre
  <2>4. (\E i \in DOMAIN saves[t] : saves[t][i].live) => \E i \in DOMAIN Failed(t) : Failed(t)[i].live
    BY <1>1, FailedLive
  <2> QED BY <1>1, <2>1, <2>2, <2>3, <2>4, RestQueue
<1>4. CASE ~ Refused(req)
  <2>1. stats' = Saved(req) /\ saves' = [saves EXCEPT ![t][1].answer = {Answer(req)}]
    BY <1>4 DEF Save
  <2> DEFINE x == {Answer(req)}
  <2>2. x \in SUBSET AnswerDoc /\ saves' = [saves EXCEPT ![t][1].answer = x]
    BY <1>2, <2>1, SavedIs
  <2>3. req = saves[t][1].req
    BY <1>1, HeadIs
  <2>4. Answer(req).acked = Ops(Outcome(req).acked)
    BY <1>2, SavedIs
  <2>5. \A reply \in x : reply = Answer(req)
    OBVIOUS
  <2> HIDE DEF x, req
  <2>6. /\ \A u \in Tabs \ {t} : saves'[u] = saves[u]
        /\ DOMAIN saves'[t] = DOMAIN saves[t]
        /\ \A i \in DOMAIN saves[t] : /\ saves'[t][i].req = saves[t][i].req
                                      /\ saves'[t][i].live = saves[t][i].live
                                      /\ saves'[t][i].answer = IF i = 1 THEN x ELSE saves[t][i].answer
    <3>1. saves[t] # <<>>
      BY <1>1
    <3> QED BY <2>2, <3>1, AnsweredQueue
  <2>7. Requests' \subseteq Requests
    <3>1. \A u \in Tabs : \A i \in DOMAIN saves'[u] : saves'[u][i].req \in Requests
      <4> SUFFICES ASSUME NEW u \in Tabs, NEW i \in DOMAIN saves'[u] PROVE saves'[u][i].req \in Requests
        OBVIOUS
      <4>1. CASE u = t
        BY <2>6, <4>1, RequestsAre
      <4>2. CASE u # t
        BY <2>6, <4>2, RequestsAre
      <4> QED BY <4>1, <4>2
    <3> QED BY <1>1, <3>1, RequestsAre, RequestsAreNext
  <2>8. Counting' /\ Owed'
    BY <1>1, <1>2, <1>4, <2>1, <2>7, RestSaved
  <2>9. Awaited'
    <3> SUFFICES ASSUME NEW u \in Tabs, NEW i \in DOMAIN saves'[u], saves'[u][i].live
                 PROVE  /\ saves'[u][i].req.pending = mem[u].pending
                        /\ \A reply \in saves'[u][i].answer :
                              mem[u].pending # <<>> => mem[u].pending[1] \in reply.acked
      BY <1>1 DEF Awaited
    <3>1. CASE u # t
      BY <2>6, <3>1 DEF RestInv, Awaited
    <3>2. CASE u = t /\ i # 1
      <4>1. i \in DOMAIN saves[t] /\ saves[t][i].live
        BY <2>6, <3>2
      <4>2. saves'[t][i].req = saves[t][i].req /\ saves'[t][i].answer = saves[t][i].answer
        BY <2>6, <3>2, <4>1
      <4> QED BY <3>2, <4>1, <4>2 DEF RestInv, Awaited
    <3>3. CASE u = t /\ i = 1
      <4>1. 1 \in DOMAIN saves[t] /\ saves[t][1].live
        BY <2>6, <3>3
      <4>2. req.pending = mem[t].pending
        BY <2>3, <4>1 DEF RestInv, Awaited
      <4>3. saves'[t][1].req = req /\ saves'[t][1].answer = x
        BY <2>3, <2>6, <4>1
      <4>4. mem[t].pending # <<>> => mem[t].pending[1] \in Answer(req).acked
        BY <1>2, <2>4, <4>2, FirstAcked
      <4> QED BY <2>5, <3>3, <4>2, <4>3, <4>4
    <3> QED BY <3>1, <3>2, <3>3
  <2>10. Saving'
    <3> SUFFICES ASSUME NEW u \in Tabs, load[u] = Done, mem[u].pending # <<>>
                 PROVE  due[u] \/ \E i \in DOMAIN saves'[u] : saves'[u][i].live
      BY <1>1 DEF Saving
    <3>1. due[u] \/ \E i \in DOMAIN saves[u] : saves[u][i].live
      BY DEF RestInv, Saving
    <3>2. CASE u = t
      BY <2>6, <3>1, <3>2
    <3>3. CASE u # t
      BY <2>6, <3>1, <3>3
    <3> QED BY <3>2, <3>3
  <2> QED BY <2>8, <2>9, <2>10 DEF RestInv
<1> QED BY <1>3, <1>4

LEMMA RestLateSave ==
    ASSUME Named = {}, XpInv, GapInv, RestInv, NEW req \in late, LateSave(req)
    PROVE  RestInv'
<1>1. /\ stats' = IF Refused(req) THEN stats ELSE Saved(req)
      /\ late' = late \ {req} /\ UNCHANGED <<store, mem, load, due, saves, made>>
  BY DEF LateSave, tabVars
<1>2. req \in Requests
  BY RequestsAre
<1>3. Requests' \subseteq Requests
  <2>1. \A r \in Requests' : r \in Requests
    BY <1>1, RequestsAre, RequestsAreNext
  <2> QED BY <2>1
<1>4. Awaited' /\ Saving'
  BY <1>1 DEF RestInv, Awaited, Saving
<1>5. Counting' /\ Owed'
  <2>1. CASE Refused(req)
    <3>1. Around' \subseteq Around
      BY <1>1, <1>3, AroundIs, AroundIsNext
    <3>2. UNCHANGED <<stats, mem, made>>
      BY <1>1, <2>1
    <3> QED BY <3>1, <3>2, CountingStay DEF RestInv, Owed
  <2>2. CASE ~ Refused(req)
    BY <1>1, <1>2, <1>3, <2>2, RestSaved
  <2> QED BY <2>1, <2>2
<1> QED BY <1>4, <1>5 DEF RestInv

LEMMA RestAward ==
    ASSUME Named = {}, XpInv, GapInv, RestInv, NEW t \in Tabs, NEW a \in Awards, Award(t, a)
    PROVE  RestInv'
<1> DEFINE base == Current(stream[t])
           st == Advanced(base, 1)
           op == Placed(a, st.client, st.seq)
<1>1. /\ op \in OpDoc
      /\ st.client = base.client /\ st.seq = base.seq + 1
      /\ st.client \in Clients
      /\ \E pending \in Seq(OpDoc) :
            /\ Ops(pending) \subseteq Around /\ NoGap(pending, stats.mark)
            /\ \A o \in Ops(mem[t].pending) \cup Ops(store.pending) : o \in Ops(pending) \/ Marked(o)
            /\ mem'[t].pending = pending \o <<op>>
      /\ \A u \in Tabs \ {t} : mem'[u] = mem[u]
      /\ store' = Kept(mem'[t])
      /\ made[a] = 0 /\ made' = [made EXCEPT ![a] = 1]
      /\ Restart(t, saves[t])
      /\ UNCHANGED <<stats, load, late>>
  BY AwardIs
<1>2. op.award = a /\ op.client = st.client /\ op.seq = st.seq
  BY DEF Placed
<1>3. /\ stream \in [Tabs -> StreamDoc] /\ base \in StreamDoc /\ made \in [Awards -> Nat]
      /\ \/ stream[t].client # 0 /\ base.client = stream[t].client /\ base.seq = stream[t].seq
         \/ base.client = clients + 1 /\ base.seq = 0
  <2>1. stream \in [Tabs -> StreamDoc] /\ made \in [Awards -> Nat]
    BY DEF XpInv, XpShape
  <2> QED BY <2>1, CurrentIs DEF XpInv
<1> HIDE DEF base, st, op
<1>4. PICK pending \in Seq(OpDoc) :
            /\ Ops(pending) \subseteq Around
            /\ \A o \in Ops(mem[t].pending) \cup Ops(store.pending) : o \in Ops(pending) \/ Marked(o)
            /\ mem'[t].pending = pending \o <<op>>
  BY <1>1
<1>5. Ops(mem'[t].pending) = Ops(pending) \cup {op}
  <2> DEFINE new == <<op>>
  <2>1. new \in Seq(OpDoc) /\ Ops(new) = {op}
    BY <1>1, OpsOfOne
  <2>2. mem'[t].pending = pending \o new
    BY <1>4
  <2> HIDE DEF new
  <2> QED BY <2>1, <2>2, ConcatIs
<1>6. ~ Marked(op)
  <2>1. /\ stats.mark[st.client] \in Nat /\ base.seq \in Nat /\ base.client \in Nat /\ clients \in Nat
    BY <1>1, <1>3, AllPlaced DEF StreamDoc, XpInv, XpShape
  <2>2. stats.mark[st.client] <= base.seq
    BY <1>1, <1>3, <2>1 DEF GapInv, NotAhead
  <2> QED BY <1>1, <1>2, <2>1, <2>2 DEF Marked
<1>7. Requests' \subseteq Requests /\ Fewer(saves[t], saves[t])
  <2>1. Fewer(saves[t], saves[t])
    BY QueueTyped DEF Fewer
  <2> QED BY <1>1, <2>1, Restarted
<1>8. Awaited' /\ Saving'
  BY <1>1, <1>7, RestartRest
<1>9. ASSUME NEW o \in Around' PROVE o \in Around \/ o = op
  <2>1. store'.pending = mem'[t].pending
    BY <1>1 DEF Kept
  <2>2. \A u \in Tabs : \A p \in Ops(mem'[u].pending) : p \in Around \/ p = op
    BY <1>1, <1>4, <1>5, AroundIs
  <2> QED BY <1>7, <2>1, <2>2, AroundIs, AroundIsNext
<1>10. Counting'
  <2>1. UNCHANGED stats
    BY <1>1
  <2> QED BY <1>6, <1>9, <2>1 DEF RestInv, Counting, Marked
<1>11. Owed'
  <2> SUFFICES ASSUME NEW b \in Awards, made'[b] > 0, stats.points[b] = 0
               PROVE  \E u \in Tabs : b \in AwardsOf(mem'[u].pending)
    BY <1>1 DEF Owed, AwardsOf
  <2>1. CASE b = a
    BY <1>2, <1>5, <2>1 DEF AwardsOf
  <2>2. CASE b # a
    <3>1. made[b] > 0
      BY <1>1, <1>3, <2>2
    <3>2. PICK u \in Tabs : b \in AwardsOf(mem[u].pending)
      BY <3>1 DEF RestInv, Owed
    <3>3. CASE u # t
      BY <1>1, <3>2, <3>3
    <3>4. CASE u = t
      <4>1. PICK o \in Ops(mem[t].pending) : o.award = b
        BY <3>2, <3>4 DEF AwardsOf
      <4>2. ~ Marked(o)
        BY <4>1, AroundIs DEF RestInv, Counting
      <4>3. o \in Ops(mem'[t].pending)
        BY <1>4, <1>5, <4>2
      <4> QED BY <4>1, <4>3 DEF AwardsOf
    <3> QED BY <3>3, <3>4
  <2> QED BY <2>1, <2>2
<1> QED BY <1>8, <1>10, <1>11 DEF RestInv

LEMMA RestAcknowledge ==
    ASSUME Named = {}, XpInv, GapInv, RestInv, NEW t \in Tabs, Acknowledge(t)
    PROVE  RestInv'
<1>1. /\ saves[t] # <<>> /\ saves[t][1].live
      /\ \E reply \in saves[t][1].answer :
            /\ Ops(mem'[t].pending) \subseteq Around
            /\ \A op \in Ops(mem[t].pending) \cup Ops(store.pending) :
                  op \in Ops(mem'[t].pending) \/ Marked(op)
            /\ \A op \in Ops(mem'[t].pending) : op \notin reply.acked
      /\ \A u \in Tabs \ {t} : mem'[u] = mem[u]
      /\ store'.pending = mem'[t].pending
      /\ UNCHANGED <<stats, stream, clients, load, late, made>>
      /\ \/ mem'[t] = mem[t] /\ saves' = [saves EXCEPT ![t] = Tail(saves[t])] /\ UNCHANGED due
         \/ Restart(t, Tail(saves[t]))
  BY AcknowledgeIs
<1>2. PICK reply \in saves[t][1].answer :
         /\ Ops(mem'[t].pending) \subseteq Around
         /\ \A op \in Ops(mem[t].pending) : op \in Ops(mem'[t].pending) \/ Marked(op)
         /\ \A op \in Ops(mem'[t].pending) : op \notin reply.acked
  BY <1>1
<1>3. Fewer(Tail(saves[t]), saves[t]) /\ 1 \in DOMAIN saves[t]
  BY <1>1, QueueTyped, TailFewer, HeadIs
<1>4. Owed'
  BY <1>1, <1>2, OwedStay
<1>5. Awaited' /\ Saving' /\ Requests' \subseteq Requests
  <2>1. CASE mem'[t] = mem[t] /\ saves' = [saves EXCEPT ![t] = Tail(saves[t])] /\ UNCHANGED due
    <3>1. mem[t].pending = <<>>
      <4> SUFFICES ASSUME mem[t].pending # <<>> PROVE FALSE
        OBVIOUS
      <4>1. mem[t].pending[1] \in reply.acked
        BY <1>1, <1>2, <1>3 DEF RestInv, Awaited
      <4>2. mem[t].pending \in Seq(OpDoc) /\ 1 \in DOMAIN mem[t].pending
        BY RestTyped
      <4>3. mem[t].pending[1] \in Ops(mem[t].pending)
        BY <4>2, OpIn
      <4> QED BY <1>2, <2>1, <4>1, <4>3
    <3>2. \A u \in Tabs : mem'[u].pending = mem[u].pending
      BY <1>1, <2>1
    <3>3. \A u \in Tabs : load'[u] = Done => load[u] = Done
      BY <1>1
    <3>4. late' \subseteq Requests
      BY <1>1, RequestsAre
    <3>5. Requests' \subseteq Requests
      BY <1>3, <2>1, <3>4, RequestsKept DEF XpInv
    <3> QED BY <1>3, <2>1, <3>1, <3>2, <3>3, <3>5, QueueRest
  <2>2. CASE Restart(t, Tail(saves[t]))
    <3>1. Awaited' /\ Saving'
      BY <1>1, <1>3, <2>2, RestartRest
    <3>2. Requests' \subseteq Requests
      BY <1>1, <1>3, <2>2, Restarted
    <3> QED BY <3>1, <3>2
  <2> QED BY <1>1, <2>1, <2>2
<1>6. Around' \subseteq Around
  <2>1. \A u \in Tabs : \A op \in Ops(mem'[u].pending) : op \in Around
    BY <1>1, <1>2, AroundIs
  <2> QED BY <1>1, <1>5, <2>1, AroundIs, AroundIsNext
<1>7. Counting'
  BY <1>1, <1>6, CountingStay
<1> QED BY <1>4, <1>5, <1>7 DEF RestInv

LEMMA RestReload ==
    ASSUME Named = {}, XpInv, GapInv, RestInv, NEW t \in Tabs, NEW navigated \in BOOLEAN,
           Reload(t, navigated)
    PROVE  RestInv'
<1>1. /\ mem'[t].pending = store.pending
      /\ \A u \in Tabs \ {t} : mem'[u] = mem[u]
      /\ store'.pending = store.pending
      /\ load'[t].pc = "reading" /\ \A u \in Tabs \ {t} : load'[u] = load[u]
      /\ saves'[t] = <<>> /\ \A u \in Tabs \ {t} : saves'[u] = saves[u]
      /\ \A u \in Tabs \ {t} : due'[u] = due[u]
      /\ t \in Reloaders /\ late' \subseteq Requests
      /\ UNCHANGED <<stats, made>>
  BY ReloadSame
<1>2. DOMAIN saves'[t] = {}
  BY <1>1
<1>3. Owed'
  <2>1. \A op \in Ops(mem[t].pending) : op \in Ops(mem'[t].pending) \/ Marked(op)
    BY <1>1 DEF GapInv, StoreHas
  <2> QED BY <1>1, <2>1, OwedStay
<1>4. Requests' \subseteq Requests
  <2>1. ASSUME NEW u \in Tabs, NEW i \in DOMAIN saves'[u] PROVE saves'[u][i].req \in Requests
    <3>1. u # t
      BY <1>2
    <3> QED BY <1>1, <3>1, RequestsAre
  <2> QED BY <1>1, <2>1, RequestsAreNext
<1>5. Around' \subseteq Around
  <2>1. \A u \in Tabs : \A op \in Ops(mem'[u].pending) : op \in Around
    BY <1>1, AroundIs
  <2> QED BY <1>1, <1>4, <2>1, AroundIs, AroundIsNext
<1>6. Counting'
  BY <1>1, <1>5, CountingStay
<1>7. Awaited'
  <2> SUFFICES ASSUME NEW u \in Tabs, NEW i \in DOMAIN saves'[u], saves'[u][i].live
               PROVE  /\ saves'[u][i].req.pending = mem'[u].pending
                      /\ \A reply \in saves'[u][i].answer :
                            mem'[u].pending # <<>> => mem'[u].pending[1] \in reply.acked
    BY DEF Awaited
  <2>1. u # t
    BY <1>2
  <2> QED BY <1>1, <2>1 DEF RestInv, Awaited
<1>8. Saving'
  <2> SUFFICES ASSUME NEW u \in Tabs, load'[u] = Done, mem'[u].pending # <<>>
               PROVE  due'[u] \/ \E i \in DOMAIN saves'[u] : saves'[u][i].live
    BY DEF Saving
  <2>1. u # t
    BY <1>1 DEF Done
  <2> QED BY <1>1, <2>1 DEF RestInv, Saving
<1> QED BY <1>3, <1>6, <1>7, <1>8 DEF RestInv

LEMMA RestStart == XpInit => RestInv
<1> SUFFICES ASSUME XpInit PROVE RestInv
  OBVIOUS
<1> DEFINE none == <<>>
<1>1. /\ stats.points = None /\ stats.mark = NoMarks /\ store.pending = none /\ late = {}
      /\ \A t \in Tabs : mem[t].pending = none /\ load[t] = Reading({}) /\ saves[t] = none
      /\ made = None
  BY DEF XpInit
<1>2. Ops(none) = {} /\ DOMAIN none = {}
  BY OpsOfEmpty
<1> HIDE DEF none
<1>3. Requests = {}
  BY <1>1, <1>2 DEF Requests
<1>4. Around = {}
  BY <1>1, <1>2, <1>3, AroundIs
<1>5. Counting
  BY <1>4 DEF Counting
<1>6. Owed
  BY <1>1 DEF Owed, None
<1>7. Awaited
  BY <1>1, <1>2 DEF Awaited
<1>8. Saving
  BY <1>1 DEF Saving, Reading, Done
<1> QED BY <1>5, <1>6, <1>7, <1>8 DEF RestInv

LEMMA RestStay ==
    ASSUME RestInv, UNCHANGED xpVars
    PROVE  RestInv'
<1>1. UNCHANGED <<stats, store, mem, load, due, saves, late, made>>
  BY DEF xpVars
<1>2. Requests' = Requests
  BY <1>1 DEF Requests
<1>3. Around' \subseteq Around
  BY <1>1, <1>2, AroundIs, AroundIsNext
<1>4. Counting'
  BY <1>1, <1>3, CountingStay
<1>5. Owed' /\ Awaited' /\ Saving'
  BY <1>1 DEF RestInv, Owed, Awaited, Saving, AwardsOf
<1> QED BY <1>4, <1>5 DEF RestInv

LEMMA RestStep ==
    ASSUME Named = {}, \A t \in Reloaders : Readers \subseteq {t}
    PROVE  XpInv /\ GapInv /\ RestInv /\ [XpNext]_xpVars => RestInv'
<1> SUFFICES ASSUME XpInv, GapInv, RestInv, [XpNext]_xpVars PROVE RestInv'
  OBVIOUS
<1>1. ASSUME NEW t \in Tabs, Proceed(t) PROVE RestInv'
  BY <1>1, RestRead, RestPublish, RestSchedule, RestSave, RestIgnore, RestAcknowledge DEF Proceed
<1>2. ASSUME NEW t \in Tabs, Fault(t) PROVE RestInv'
  BY <1>2, RestFault
<1>3. ASSUME NEW t \in Tabs, NEW a \in Awards, Award(t, a) PROVE RestInv'
  BY <1>3, RestAward
<1>4. ASSUME NEW t \in Tabs, NEW navigated \in BOOLEAN, Reload(t, navigated) PROVE RestInv'
  BY <1>4, RestReload
<1>5. ASSUME NEW req \in late, LateSave(req) PROVE RestInv'
  BY <1>5, RestLateSave
<1>6. CASE UNCHANGED xpVars
  BY <1>6, RestStay
<1> QED BY <1>1, <1>2, <1>3, <1>4, <1>5, <1>6 DEF XpNext

LEMMA RestImplies ==
    ASSUME Named = {}
    PROVE  XpInv /\ RestInv => CreditedAtRest
<1> SUFFICES ASSUME XpInv, RestInv, \A t \in Tabs : AtRest(t), NEW a \in Awards, made[a] > 0
             PROVE  stats.points[a] > 0
  BY DEF CreditedAtRest
<1>1. ASSUME NEW t \in Tabs PROVE mem[t].pending = <<>>
  <2>1. load[t] = Done /\ ~ due[t] /\ saves[t] = <<>>
    BY DEF AtRest
  <2>2. DOMAIN saves[t] = {}
    BY <2>1
  <2> QED BY <2>1, <2>2 DEF RestInv, Saving
<1>2. \A t \in Tabs : AwardsOf(mem[t].pending) = {}
  BY <1>1, OpsOfEmpty DEF AwardsOf
<1>3. stats.points[a] # 0
  BY <1>2 DEF RestInv, Owed
<1>4. stats.points[a] \in {0, 1}
  BY RestTyped
<1> QED BY <1>3, <1>4

\* Under the same conditions, when every tab has saved what it scheduled and
\* heard the answers, every award is in the account (useGamification.ts:176).
THEOREM XpCreditedAtRest ==
    ASSUME Named = {}, \A t \in Reloaders : Readers \subseteq {t}
    PROVE  XpSpec => []CreditedAtRest
<1>1. XpInit => GapInv /\ RestInv
  BY GapStart, RestStart
<1>2. XpInv /\ GapInv /\ RestInv /\ [XpNext]_xpVars => GapInv' /\ RestInv'
  BY GapStep, RestStep
<1>3. XpInv /\ RestInv => CreditedAtRest
  BY RestImplies
<1> QED BY <1>1, <1>2, <1>3, XpInvariant, PTL DEF XpSpec
=============================================================================
