------------------------ MODULE DeckMigrationProofs -------------------------
(***************************************************************************)
(* For every set of shares, every page and chunk size and every document   *)
(* they may start with: a sealed inventory can be read back whole, no job  *)
(* lets a share live longer or lose its deck, and nothing of an old kind   *)
(* is left when the callables open again, whatever jobs threw or died.     *)
(***************************************************************************)
EXTENDS DeckMigration, FiniteSetTheorems, SequenceTheorems,
        WellFoundedInduction, TLAPS

-----------------------------------------------------------------------------
(* The shape of the state.                                                 *)

PubOK(p) == p # NoDoc =>
    /\ p.created \in Int /\ p.expires \in Int /\ p.deck \in Decks
PrivOK(q) == q # NoDoc =>
    /\ q.created \in Int /\ q.expires \in Int /\ q.version \in Nat
EntryOK(e) == e.share \in Shares /\ PubOK(e.pub) /\ PrivOK(e.priv)
Values(s) == {s[i] : i \in DOMAIN s}
IsList(s) == Len(s) \in Nat /\ DOMAIN s = 1 .. Len(s) /\ s \in Seq(Values(s))
EntriesOK(s) == IsList(s) /\ \A i \in 1 .. Len(s) : EntryOK(s[i])
InvOK(inv) == inv.scanAt \in Nat /\ EntriesOK(inv.entries)

Phases == {"frozen", "sealing", "superseded"} \cup SealedPhases
FenceFields == {"phase", "rev", "scanAt", "inv", "sealed", "next", "ready",
                "verifying", "pub", "pubEnded", "priv", "privEnded", "checked"}
FenceShape ==
    /\ DOMAIN fence = FenceFields
    /\ fence.phase \in Phases /\ fence.scanAt \in Nat
    /\ fence.next \in Nat /\ fence.pub \in Nat /\ fence.priv \in Nat
    /\ fence.checked \in Nat
    /\ {fence.ready, fence.verifying, fence.pubEnded, fence.privEnded} \subseteq BOOLEAN
    /\ fence.phase \in SealedPhases => InvOK(fence.inv)
    /\ fence.verifying => fence.phase \in {"applied", "verified"}

StreamOK(x) == /\ DOMAIN x = {"buffer", "cursor", "ended"}
               /\ x.cursor \in Nat /\ x.ended \in BOOLEAN
               /\ DOMAIN x.buffer \subseteq Shares
Scans == run.at \in {"public", "private"}
Applies == run.at \in {"preflight", "check", "write", "begin", "verify"}
RunShape ==
    \/ run = Idle \/ run = Died
    \/ /\ run.at = "freeze" /\ DOMAIN run = {"at", "rev", "scanAt"}
       /\ run.scanAt \in Nat
    \/ /\ Scans /\ DOMAIN run = {"at", "rev", "scanAt", "pub", "priv", "entries"}
       /\ run.scanAt \in Nat /\ fence # NoDoc
       /\ StreamOK(run.pub) /\ \A s \in DOMAIN run.pub.buffer : PubOK(run.pub.buffer[s])
       /\ StreamOK(run.priv) /\ \A s \in DOMAIN run.priv.buffer : PrivOK(run.priv.buffer[s])
       /\ EntriesOK(run.entries)
    \/ /\ run.at = "seal" /\ DOMAIN run = {"at", "next", "inv"}
       /\ run.next \in Nat /\ fence # NoDoc /\ InvOK(run.inv)
    \/ /\ Applies /\ DOMAIN run = {"at", "inv", "next"}
       /\ run.next \in Nat /\ fence # NoDoc
       /\ InvOK(run.inv) /\ Eligible(run.inv)

MigShape ==
    /\ clock \in Nat
    /\ public = [s \in Shares |-> public[s]] /\ \A s \in Shares : PubOK(public[s])
    /\ private = [s \in Shares |-> private[s]] /\ \A s \in Shares : PrivOK(private[s])
    /\ quarantine = [s \in Shares |-> quarantine[s]]
    /\ fence # NoDoc => FenceShape
    /\ RunShape

-----------------------------------------------------------------------------
(* Sets of numbers, and the pages of a collection.                         *)

\* A finite set of numbers that is not empty has a greatest one: the least set
\* without one would be one number more than a set that has one.
LEMMA MaxExists ==
    ASSUME NEW S, S \subseteq Nat, IsFiniteSet(S), S # {}
    PROVE  Max(S) \in S /\ \A y \in S : y <= Max(S)
<1> DEFINE HasMax(T) == \E x \in T : \A y \in T : x >= y
           Bad == {T \in FiniteSubsetsOf(S) : T # {} /\ ~HasMax(T)}
<1>1. Bad = {}
  <2> SUFFICES ASSUME Bad # {} PROVE FALSE
    OBVIOUS
  <2>1. IsWellFoundedOn(StrictSubsetOrdering(S), FiniteSubsetsOf(S))
    BY FS_StrictSubsetOrderingWellFounded
  <2>2. Bad \subseteq FiniteSubsetsOf(S)
    OBVIOUS
  <2>3. PICK T \in Bad : \A U \in Bad : ~(<<U, T>> \in StrictSubsetOrdering(S))
    <3> HIDE DEF Bad
    <3> QED BY <2>1, <2>2, WFMin
  <2>4. T \subseteq S /\ IsFiniteSet(T) /\ T # {} /\ ~HasMax(T)
    BY <2>3 DEF FiniteSubsetsOf
  <2>5. PICK x \in T : TRUE
    BY <2>4
  <2>6. T \ {x} \subseteq S /\ IsFiniteSet(T \ {x}) /\ T \ {x} # T
    BY <2>4, <2>5, FS_RemoveElement
  <2>7. <<T \ {x}, T>> \in StrictSubsetOrdering(S)
    BY <2>4, <2>6 DEF StrictSubsetOrdering
  <2>8. T \ {x} \in FiniteSubsetsOf(S)
    BY <2>6 DEF FiniteSubsetsOf
  <2>9. T \ {x} = {} \/ HasMax(T \ {x})
    BY <2>3, <2>7, <2>8
  <2>10. CASE T \ {x} = {}
    BY <2>4, <2>5, <2>10
  <2>11. CASE HasMax(T \ {x})
    <3>1. PICK z \in T \ {x} : \A y \in T \ {x} : z >= y
      BY <2>11
    <3>2. x \in Nat /\ z \in Nat /\ \A y \in T : y \in Nat
      BY <2>4, <2>5, <3>1
    <3>3. \A y \in T : (IF x >= z THEN x ELSE z) >= y
      BY <3>1, <3>2
    <3> QED BY <2>4, <2>5, <3>1, <3>3
  <2> QED BY <2>9, <2>10, <2>11
<1>2. S \in FiniteSubsetsOf(S)
  BY DEF FiniteSubsetsOf
<1>3. HasMax(S)
  BY <1>1, <1>2
<1>4. Max(S) \in S /\ \A y \in S : Max(S) >= y
  BY <1>3, Zenon DEF Max
<1> QED BY <1>4

\* A page holds what follows its cursor up to the next one, and a page that is
\* not full holds all that is left.
LEMMA PageIs ==
    ASSUME NEW S, S \subseteq Nat, IsFiniteSet(S), NEW after \in Nat,
           NEW n \in Nat \ {0}
    PROVE  LET page == FirstOf(S, after, n)
               last == LastOf(page, after)
           IN /\ page \subseteq S /\ last \in Nat /\ last >= after
              /\ \A s \in page : s > after /\ s <= last
              /\ \A s \in S : s > after /\ s <= last => s \in page
              /\ Cardinality(page) < n => \A s \in S : s > after => s \in page
<1> DEFINE page == FirstOf(S, after, n)
           last == LastOf(page, after)
           Between(s) == {x \in S : after < x /\ x < s}
<1>1. \A s : s \in page <=> s \in S /\ s > after /\ Cardinality(Between(s)) < n
  BY DEF FirstOf
<1>2. page \subseteq S /\ IsFiniteSet(page)
  BY <1>1, FS_Subset
<1>3. \A s : Between(s) \subseteq S /\ IsFiniteSet(Between(s))
  BY FS_Subset
<1> HIDE DEF page
<1>4. /\ page = {} => last = after
      /\ page # {} => last \in page /\ \A s \in page : s <= last
  BY <1>2, MaxExists DEF LastOf
<1> HIDE DEF last, Between
<1>5. last \in Nat /\ last >= after /\ \A s \in page : s > after /\ s <= last
  <2>1. \A s \in page : s \in Nat /\ s > after
    BY <1>1
  <2>2. CASE page = {}
    BY <1>4, <2>2
  <2>3. CASE page # {}
    <3>1. last \in Nat /\ last > after
      BY <1>4, <2>1, <2>3
    <3> QED BY <1>4, <2>1, <2>3, <3>1
  <2> QED BY <2>2, <2>3
<1>6. ASSUME NEW s \in S, s > after, s <= last
      PROVE  s \in page
  <2>1. last \in page
    BY <1>4, <1>6
  <2>2. Between(s) \subseteq Between(last)
    <3>1. s \in Nat /\ last \in Nat /\ \A x \in S : x \in Nat
      BY <1>5, <1>6
    <3>2. \A x \in S : x < s => x < last
      BY <1>6, <3>1
    <3> QED BY <3>2 DEF Between
  <2>3. Cardinality(Between(s)) <= Cardinality(Between(last))
    BY <1>3, <2>2, FS_Subset
  <2>4. Cardinality(Between(s)) \in Nat /\ Cardinality(Between(last)) \in Nat
    BY <1>3, FS_CardinalityType
  <2> QED BY <1>1, <1>6, <2>1, <2>3, <2>4
<1>7. ASSUME Cardinality(page) < n, NEW s \in S, s > after, s \notin page
      PROVE  FALSE
  <2> DEFINE Left == {x \in S : x > after /\ x \notin page}
             R == {ss \in Nat \X Nat : ss[1] < ss[2]}
  <2>1. IsWellFoundedOn(R, Nat)
    BY NatLessThanWellFounded, Zenon DEF OpToRel
  <2>2. Left \subseteq Nat /\ Left # {}
    BY <1>7
  <2> HIDE DEF R, Left
  <2>3. PICK m \in Left : \A y \in Left : ~(<<y, m>> \in R)
    BY <2>1, <2>2, WFMin
  <2>4. m \in S /\ m > after /\ m \notin page /\ \A y \in Left : ~(y < m)
    BY <2>2, <2>3 DEF R, Left
  <2>5. Between(m) \subseteq page
    BY <2>4 DEF Between, Left
  <2>6. Cardinality(Between(m)) <= Cardinality(page)
    BY <1>2, <2>5, FS_Subset
  <2>7. Cardinality(Between(m)) \in Nat /\ Cardinality(page) \in Nat
    BY <1>2, <1>3, FS_CardinalityType
  <2> QED BY <1>1, <1>7, <2>4, <2>6, <2>7
<1> QED BY <1>2, <1>5, <1>6, <1>7 DEF last, page

\* A finite set of numbers can be put in order, and the order has them all.
LEMMA OrderIs ==
    ASSUME NEW S, S \subseteq Nat, IsFiniteSet(S)
    PROVE  /\ InOrder(S) \in [1 .. Cardinality(S) -> S]
           /\ Cardinality(S) \in Nat
           /\ \A i, j \in 1 .. Cardinality(S) :
                 InOrder(S)[i] = InOrder(S)[j] => i = j
           /\ \A s \in S : \E i \in 1 .. Cardinality(S) : InOrder(S)[i] = s
<1> DEFINE Sorts(f, T) == /\ f \in [1 .. Cardinality(T) -> T]
                          /\ \A i, j \in 1 .. Cardinality(T) : i < j => f[i] < f[j]
           Ordered(T) == \E f : Sorts(f, T)
           Bad == {T \in FiniteSubsetsOf(S) : ~Ordered(T)}
<1>1. Bad = {}
  <2> SUFFICES ASSUME Bad # {} PROVE FALSE
    OBVIOUS
  <2>1. IsWellFoundedOn(StrictSubsetOrdering(S), FiniteSubsetsOf(S))
    BY FS_StrictSubsetOrderingWellFounded
  <2>2. Bad \subseteq FiniteSubsetsOf(S)
    OBVIOUS
  <2>3. PICK T \in Bad : \A U \in Bad : ~(<<U, T>> \in StrictSubsetOrdering(S))
    <3> HIDE DEF Bad
    <3> QED BY <2>1, <2>2, WFMin
  <2>4. T \subseteq S /\ IsFiniteSet(T) /\ ~Ordered(T)
    BY <2>3 DEF FiniteSubsetsOf
  <2>5. T # {}
    <3>1. ASSUME T = {} PROVE FALSE
      <4>1. Cardinality(T) = 0
        BY <3>1, FS_EmptySet
      <4>2. [i \in 1 .. 0 |-> i] \in [1 .. 0 -> {}]
        OBVIOUS
      <4>3. Sorts([i \in 1 .. 0 |-> i], T)
        BY <3>1, <4>1, <4>2
      <4> QED BY <2>4, <4>3
    <3> QED BY <3>1
  <2> DEFINE x == Max(T)
             U == T \ {x}
  <2>6. x \in T /\ \A y \in T : y <= x
    BY <2>4, <2>5, MaxExists
  <2>7. U \subseteq S /\ IsFiniteSet(U) /\ U # T /\ U \subseteq T
        /\ Cardinality(U) = Cardinality(T) - 1 /\ Cardinality(T) \in Nat
    BY <2>4, <2>6, FS_RemoveElement, FS_CardinalityType
  <2>8. <<U, T>> \in StrictSubsetOrdering(S)
    BY <2>4, <2>7 DEF StrictSubsetOrdering
  <2>9. U \in FiniteSubsetsOf(S)
    BY <2>7 DEF FiniteSubsetsOf
  <2>10. Ordered(U)
    BY <2>3, <2>8, <2>9
  <2>11. PICK f : Sorts(f, U)
    BY <2>10
  <2>12. \A y \in U : y < x /\ y \in Nat
    <3>1. \A y \in T : y \in Nat
      BY <2>4
    <3>2. \A y \in U : y \in T /\ y # x
      OBVIOUS
    <3> HIDE DEF x, U
    <3> QED BY <2>6, <3>1, <3>2
  <2> HIDE DEF x, U
  <2> DEFINE n == Cardinality(T)
             g == [i \in 1 .. n |-> IF i = n THEN x ELSE f[i]]
  <2>13. \A i \in 1 .. n : i # n => i \in 1 .. Cardinality(U)
    BY <2>7
  <2>14. \A i \in 1 .. n : i # n => f[i] \in U
    BY <2>11, <2>13
  <2>15. g \in [1 .. n -> T]
    BY <2>6, <2>7, <2>14
  <2>16. ASSUME NEW i \in 1 .. n, NEW j \in 1 .. n, i < j
         PROVE  g[i] < g[j]
    <3>1. i # n /\ i \in 1 .. Cardinality(U) /\ g[i] = f[i] /\ f[i] \in U
      BY <2>7, <2>13, <2>14, <2>16
    <3>2. CASE j = n
      BY <2>12, <3>1, <3>2
    <3>3. CASE j # n
      BY <2>11, <2>13, <2>16, <3>1, <3>3
    <3> QED BY <3>2, <3>3
  <2>17. Sorts(g, T)
    BY <2>15, <2>16
  <2> QED BY <2>4, <2>17
<1>2. S \in FiniteSubsetsOf(S)
  BY DEF FiniteSubsetsOf
<1>3. Ordered(S)
  BY <1>1, <1>2
<1> DEFINE g == InOrder(S)
           n == Cardinality(S)
<1>4. g \in [1 .. n -> S] /\ \A i, j \in 1 .. n : i < j => g[i] < g[j]
  <2>1. \E f \in [1 .. n -> S] : \A i, j \in 1 .. n : i < j => f[i] < f[j]
    BY <1>3
  <2> QED BY <2>1, Zenon DEF InOrder
<1>5. n \in Nat
  BY FS_CardinalityType
<1> HIDE DEF g, n
<1>6. ASSUME NEW i \in 1 .. n, NEW j \in 1 .. n, g[i] = g[j]
      PROVE  i = j
  <2>1. g[i] \in Nat /\ g[j] \in Nat
    BY <1>4
  <2>2. ~(i < j) /\ ~(j < i)
    BY <1>4, <1>6, <2>1
  <2> QED BY <1>5, <2>2
<1>7. \A s \in S : \E i \in 1 .. n : g[i] = s
  <2>1. IsFiniteSet(1 .. n) /\ Cardinality(1 .. n) = n
    BY <1>5, FS_Interval
  <2>2. g \in Injection(1 .. n, S)
    BY <1>4, <1>6 DEF Injection, IsInjective
  <2>3. g \in Surjection(1 .. n, S)
    BY <2>1, <2>2, FS_Injection DEF n
  <2> QED BY <2>3 DEF Surjection
<1> QED BY <1>4, <1>5, <1>6, <1>7 DEF g, n

-----------------------------------------------------------------------------
(* What a step does.                                                       *)

Changes(F) == /\ DOMAIN fence' = FenceFields
              /\ \A x \in FenceFields \ F : fence'[x] = fence[x]
Docs == <<public, private>>
History == <<clock, origin, revoked, lost>>
Jobs == <<fence, run, chunks, quarantine>>

\* A create makes a complete pair of a share that had no document, and only
\* when the callables are open.
Creates(s, d, o) ==
    /\ FenceOpen /\ o \in Owners /\ d \in Decks
    /\ public[s] = NoDoc /\ private[s] = NoDoc
    /\ public' = [public EXCEPT ![s] = SharePublic(d, clock, clock + Lifetime)]
    /\ private' = [private EXCEPT ![s] = SharePrivate(o, d, clock, clock + Lifetime)]
\* A create touches neither a job nor the history, and makes at most one pair.
LEMMA CreateStep ==
    ASSUME NEW o \in Owners, NEW d \in Decks, Create(o, d)
    PROVE  /\ UNCHANGED <<Jobs, History>>
           /\ UNCHANGED Docs \/ \E s \in Shares : Creates(s, d, o)
<1>1. UNCHANGED <<Jobs, History>>
  BY DEF Create, migVars, Jobs, History
<1>2. PICK a : CreateTx(o, NoOp, clock, d, a)
  BY DEF Create
<1>3. Receipt(o, NoOp) = NoDoc
  BY DEF Receipt
<1>4. PICK s \in (IF FreshShares = {} THEN {0} ELSE FreshShares) :
          LET answer == CreateAnswer(o, NoOp, clock, d, s)
              writes == answer.result = "created" /\ Receipt(o, NoOp) = NoDoc
          IN /\ writes => s # 0
             /\ IF writes THEN CreateShareDoc(o, NoOp, clock, d, s)
                          ELSE UNCHANGED <<shareVars, made>>
  BY <1>2 DEF CreateTx
<1>5. CASE CreateAnswer(o, NoOp, clock, d, s).result = "created"
  <2>1. FenceOpen
    BY <1>3, <1>5 DEF CreateAnswer, NoOp
  <2>2. s # 0 /\ CreateShareDoc(o, NoOp, clock, d, s)
    BY <1>3, <1>4, <1>5
  <2>3. s \in Shares /\ public[s] = NoDoc /\ private[s] = NoDoc
    BY <1>4, <2>2 DEF FreshShares
  <2> QED BY <1>1, <2>1, <2>2, <2>3 DEF CreateShareDoc, Creates
<1>6. CASE CreateAnswer(o, NoOp, clock, d, s).result # "created"
  BY <1>1, <1>4, <1>6 DEF shareVars, Docs
<1> QED BY <1>5, <1>6

\* A revocation takes both documents of a share away, and only when the
\* callables are open.
Revokes(s) ==
    /\ FenceOpen /\ revoked' = revoked \cup {s}
    /\ public' = [public EXCEPT ![s] = NoDoc]
    /\ private' = [private EXCEPT ![s] = NoDoc]
\* A revocation touches no job and takes one share away.
LEMMA RevokeStep ==
    ASSUME NEW o \in Owners, NEW s \in Shares, Revoke(o, s)
    PROVE  Revokes(s) /\ UNCHANGED <<Jobs, clock, origin, lost>>
<1>1. FenceOpen
  BY DEF Revoke, RevokeAnswer
<1> QED BY <1>1 DEF Revoke, RevokeTx, Revokes, Jobs

\* Deletion takes an expired document away; it costs the migration something
\* while the callables are closed.
Deletes(s) ==
    /\ lost' = (lost \/ ~FenceOpen)
    /\ UNCHANGED <<Jobs, clock, origin, revoked>>
    /\ \/ /\ Expired(public[s])
          /\ public' = [public EXCEPT ![s] = NoDoc] /\ private' = private
       \/ /\ Expired(private[s])
          /\ private' = [private EXCEPT ![s] = NoDoc] /\ public' = public
\* What Firestore deletes had expired.
LEMMA TtlStep ==
    ASSUME NEW s \in Shares, Ttl(s)
    PROVE  Deletes(s)
BY DEF Ttl, TtlPublic, TtlPrivate, Deletes, Jobs

\* Time passes for everything alike.
LEMMA PassStep ==
    ASSUME Pass
    PROVE  clock' = clock + 1 /\ UNCHANGED <<Docs, Jobs, origin, revoked, lost>>
BY DEF Pass, Tick, migVars, shareVars, Docs, Jobs

\* An apply writes the share at the stored progress: as it should become, or
\* aside.
Advances(e) ==
    /\ run.at = "write" /\ run.next < Count /\ e = Entry_(run.next)
    /\ StateHeld /\ Expected(e) /\ fence.phase = "applying" /\ fence.next = run.next
    /\ fence' = [fence EXCEPT !.next = run.next + 1]
    /\ run' = [run EXCEPT !.next = run.next + 1]
    /\ UNCHANGED <<chunks, ledger, History>>
Writes(e) ==
    /\ Advances(e) /\ ~Quarantines(e.pub, e.priv, run.inv.scanAt)
    /\ public' = [public EXCEPT ![e.share] = TargetPublic(e, run.inv.scanAt)]
    /\ private' = [private EXCEPT ![e.share] = TargetPrivate(e, run.inv.scanAt)]
    /\ quarantine' = quarantine
SetsAside(e) ==
    /\ Advances(e) /\ Quarantines(e.pub, e.priv, run.inv.scanAt)
    /\ quarantine' = [quarantine EXCEPT ![e.share] = [pub |-> e.pub, priv |-> e.priv]]
    /\ UNCHANGED Docs
Passes ==
    /\ run.at = "write" /\ run.next < Count
    /\ run' = Idle \/ run' = [run EXCEPT !.next = run.next + 1]
    /\ UNCHANGED <<fence, chunks, quarantine, ledger, Docs, History>>
\* A write of an apply passes a share by, rewrites it or sets it aside.
LEMMA WriteStep ==
    ASSUME WriteShare
    PROVE  Passes \/ \E e : Writes(e) \/ SetsAside(e)
<1> DEFINE e == Entry_(run.next)
<1>1. /\ run.at = "write" /\ run.next < Count /\ UNCHANGED History
  BY DEF WriteShare, restVars, History
<1>2. CASE \/ ~StateHeld \/ ~Expected(e)
           \/ ~Validating /\ ~(fence.phase = "applying" /\ fence.next = run.next)
  BY <1>1, <1>2 DEF WriteShare, Throw, Passes, Docs
<1>3. CASE Validating /\ StateHeld /\ Expected(e)
  BY <1>1, <1>3 DEF WriteShare, SameDocs, Passes, Docs
<1>4. CASE ~Validating /\ StateHeld /\ Expected(e)
           /\ fence.phase = "applying" /\ fence.next = run.next
  <2>1. Advances(e)
    BY <1>1, <1>4 DEF WriteShare, Advances
  <2>2. CASE Quarantines(e.pub, e.priv, run.inv.scanAt)
    <3>1. SetsAside(e)
      BY <1>4, <2>1, <2>2 DEF WriteShare, SetsAside, Docs
    <3> QED BY <3>1
  <2>3. CASE ~Quarantines(e.pub, e.priv, run.inv.scanAt)
    <3>1. Writes(e)
      BY <1>4, <2>1, <2>3 DEF WriteShare, Writes
    <3> QED BY <3>1
  <2> QED BY <2>2, <2>3
<1> QED BY <1>2, <1>3, <1>4

\* Every other step of a job or of the operator leaves the documents alone.
Bookkeeping == \/ BeginFreeze \/ ReadPublic \/ ReadPrivate \/ Seal \/ SealRoot
               \/ Preflight \/ Check \/ BeginApply \/ WriteLedger \/ Verify \/ Operator
\* Whatever else a job or the operator does, no document changes.
LEMMA BookkeepingStep ==
    ASSUME Bookkeeping
    PROVE  UNCHANGED <<Docs, quarantine, History>>
<1> USE DEF Docs, History, restVars, Throw, SameDocs
<1>1. CASE BeginFreeze \/ ReadPublic \/ ReadPrivate
  BY <1>1 DEF BeginFreeze, ReadPublic, ReadPrivate
<1>2. CASE Seal \/ SealRoot
  BY <1>2 DEF Seal, SealRoot
<1>3. CASE Preflight \/ Check \/ BeginApply \/ WriteLedger
  BY <1>3 DEF Preflight, Check, BeginApply, WriteLedger
<1>4. CASE Verify
  BY <1>4 DEF Verify, BeginVerify, VerifyPublic, VerifyPrivate, VerifySealed,
              FinishVerify, VerifyStep
<1>5. CASE Operator
  BY <1>5 DEF Operator, StartInventory, Supersede, StartApply, StartVerify, Crash,
              Start, deckVars, shareVars
<1> QED BY <1>1, <1>2, <1>3, <1>4, <1>5 DEF Bookkeeping

\* The kinds of step there are.
LEMMA StepKinds ==
    ASSUME [MigNext]_allVars
    PROVE  \/ UNCHANGED <<Docs, Jobs, History>>
           \/ Bookkeeping
           \/ WriteShare
           \/ \E o \in Owners, d \in Decks : Create(o, d)
           \/ \E o \in Owners, s \in Shares : Revoke(o, s)
           \/ Pass
           \/ \E s \in Shares : Ttl(s)
BY DEF MigNext, Inventory, Apply, World, Bookkeeping, allVars, migVars, deckVars,
       shareVars, Docs, Jobs, History

-----------------------------------------------------------------------------
(* The scan.                                                               *)

Seen(x, s) == x.ended \/ s <= x.cursor

\* The shares that have a document are a finite set of numbers.
LEMMA SomeIs ==
    ASSUME NEW docs
    PROVE  /\ Some(docs) \subseteq Nat /\ IsFiniteSet(Some(docs))
           /\ \A s : s \in Some(docs) <=> s \in Shares /\ docs[s] # NoDoc
<1>1. Some(docs) \subseteq Shares
  BY DEF Some
<1>2. IsFiniteSet(Some(docs))
  BY <1>1, SharesAssumption, FS_Subset
<1> QED BY <1>1, <1>2, OrderAssumption DEF Some

\* Reading on keeps what is in the buffer, or fills an empty one with what
\* there is between the two cursors.
LEMMA NextPageIs ==
    ASSUME NEW x, StreamOK(x), NEW docs
    PROVE  LET y == NextPage(x, docs)
           IN /\ StreamOK(y)
              /\ \A s \in DOMAIN y.buffer :
                    y.buffer[s] = IF s \in DOMAIN x.buffer THEN x.buffer[s] ELSE docs[s]
              /\ \A s \in Shares : Seen(x, s) => Seen(y, s)
              /\ \A s \in Shares : s \in DOMAIN y.buffer <=>
                    \/ s \in DOMAIN x.buffer
                    \/ docs[s] # NoDoc /\ Seen(y, s) /\ ~Seen(x, s)
<1> DEFINE y == NextPage(x, docs)
           page == FirstOf(Some(docs), x.cursor, PageDocs)
           last == LastOf(page, x.cursor)
<1>1. CASE DOMAIN x.buffer # {} \/ x.ended
  <2>1. y = x
    BY <1>1 DEF NextPage
  <2> QED BY <2>1
<1>2. CASE DOMAIN x.buffer = {} /\ ~x.ended
  <2>1. y = [buffer |-> [s \in page |-> docs[s]], cursor |-> last,
             ended |-> Cardinality(page) < PageDocs]
    BY <1>2 DEF NextPage
  <2>2. x.cursor \in Nat /\ PageDocs \in Nat \ {0}
    BY PageAssumption DEF StreamOK
  <2>3. /\ page \subseteq Some(docs) /\ last \in Nat /\ last >= x.cursor
        /\ \A s \in page : s > x.cursor /\ s <= last
        /\ \A s \in Some(docs) : s > x.cursor /\ s <= last => s \in page
        /\ Cardinality(page) < PageDocs =>
               \A s \in Some(docs) : s > x.cursor => s \in page
    BY <2>2, SomeIs, PageIs
  <2> HIDE DEF page, last, y
  <2>4. /\ DOMAIN y = {"buffer", "cursor", "ended"} /\ DOMAIN y.buffer = page
        /\ y.cursor = last /\ y.ended = (Cardinality(page) < PageDocs)
        /\ \A s \in page : y.buffer[s] = docs[s]
    BY <2>1
  <2>5. \A s : s \in Some(docs) <=> s \in Shares /\ docs[s] # NoDoc
    BY SomeIs
  <2>6. \A s \in Shares : s \in Nat
    BY OrderAssumption
  <2>7. StreamOK(y)
    BY <2>3, <2>4, <2>5 DEF StreamOK
  <2>8. \A s \in Shares : Seen(x, s) => Seen(y, s)
    BY <1>2, <2>2, <2>3, <2>4, <2>6 DEF Seen
  <2>9. \A s \in Shares : s \in page <=> docs[s] # NoDoc /\ Seen(y, s) /\ ~Seen(x, s)
    <3> SUFFICES ASSUME NEW s \in Shares
                 PROVE  s \in page <=> docs[s] # NoDoc /\ Seen(y, s) /\ ~Seen(x, s)
      OBVIOUS
    <3>1. s \in Nat /\ (~Seen(x, s) <=> s > x.cursor)
      BY <1>2, <2>2, <2>6 DEF Seen
    <3>2. s \in page => docs[s] # NoDoc /\ Seen(y, s) /\ ~Seen(x, s)
      BY <2>3, <2>4, <2>5, <3>1 DEF Seen
    <3>3. docs[s] # NoDoc /\ Seen(y, s) /\ s > x.cursor => s \in page
      BY <2>3, <2>4, <2>5, <3>1 DEF Seen
    <3> QED BY <3>1, <3>2, <3>3
  <2> QED BY <1>2, <2>4, <2>7, <2>8, <2>9 DEF y
<1> QED BY <1>1, <1>2

\* Two lists one after the other.
LEMMA JoinIs ==
    ASSUME NEW s, NEW t, IsList(s), IsList(t)
    PROVE  /\ IsList(s \o t) /\ Len(s \o t) = Len(s) + Len(t)
           /\ \A i \in 1 .. Len(s) : (s \o t)[i] = s[i]
           /\ \A i \in 1 .. Len(t) : (s \o t)[Len(s) + i] = t[i]
<1> DEFINE A == Values(s) \cup Values(t)
           u == s \o t
<1>1. s \in Seq(A) /\ t \in Seq(A)
  BY DEF IsList
<1> HIDE DEF A
<1>2. /\ u \in Seq(A) /\ Len(u) = Len(s) + Len(t)
      /\ \A i \in 1 .. Len(s) + Len(t) :
            u[i] = IF i <= Len(s) THEN s[i] ELSE t[i - Len(s)]
  BY <1>1, ConcatProperties
<1>3. Len(s) \in Nat /\ Len(t) \in Nat /\ DOMAIN u = 1 .. Len(u)
  BY <1>2, LenProperties DEF IsList
<1> HIDE DEF u
<1>4. IsList(u)
  <2>1. \A i \in 1 .. Len(u) : u[i] \in Values(u)
    BY <1>3 DEF Values
  <2>2. u \in [1 .. Len(u) -> Values(u)]
    BY <1>2, <2>1, LenProperties
  <2> QED BY <1>2, <1>3, <2>2 DEF IsList
<1>5. \A i \in 1 .. Len(s) : u[i] = s[i]
  BY <1>2, <1>3
<1>6. \A i \in 1 .. Len(t) : u[Len(s) + i] = t[i]
  <2> SUFFICES ASSUME NEW i \in 1 .. Len(t) PROVE u[Len(s) + i] = t[i]
    OBVIOUS
  <2>1. Len(s) + i \in 1 .. Len(s) + Len(t) /\ ~(Len(s) + i <= Len(s))
        /\ (Len(s) + i) - Len(s) = i
    BY <1>3
  <2> QED BY <1>2, <2>1
<1> QED BY <1>2, <1>4, <1>5, <1>6 DEF u

\* What a read of the private collection decides: the shares that both streams
\* have been read past, each with the documents it has in the buffers.
PrivNow == NextPage(run.priv, private)
Whole == {s \in DOMAIN run.pub.buffer \cup DOMAIN PrivNow.buffer :
             Seen(run.pub, s) /\ Seen(PrivNow, s)}
DocIn(x, s) == IF s \in DOMAIN x.buffer THEN x.buffer[s] ELSE NoDoc
EntryFor(s) == [share |-> s, pub |-> DocIn(run.pub, s), priv |-> DocIn(PrivNow, s)]
News == [i \in 1 .. Cardinality(Whole) |-> EntryFor(InOrder(Whole)[i])]
Rest(x) == [x EXCEPT !.buffer = [s \in DOMAIN x.buffer \ Whole |-> x.buffer[s]]]
\* A read of the private collection decides those shares and no others.
LEMMA ReadPrivateStep ==
    ASSUME ReadPrivate, StreamOK(run.pub), StreamOK(PrivNow)
    PROVE  /\ run.at = "private" /\ UNCHANGED <<fence, chunks>>
           /\ run' = IF run.pub.ended /\ PrivNow.ended
                     THEN [at |-> "seal", next |-> 0,
                           inv |-> [rev |-> run.rev, scanAt |-> run.scanAt,
                                    entries |-> run.entries \o News]]
                     ELSE [run EXCEPT !.at = "public", !.pub = Rest(run.pub),
                                      !.priv = Rest(PrivNow),
                                      !.entries = run.entries \o News]
<1> DEFINE priv == NextPage(run.priv, private)
           known == DOMAIN run.pub.buffer \cup DOMAIN priv.buffer
           whole == {s \in known : \A x \in {run.pub, priv} : x.ended \/ s <= x.cursor}
           ids == InOrder(whole)
           Doc(x, s) == IF s \in DOMAIN x.buffer THEN x.buffer[s] ELSE NoDoc
           New(s) == [share |-> s, pub |-> Doc(run.pub, s), priv |-> Doc(priv, s)]
           Left(x) == [x EXCEPT !.buffer = [s \in DOMAIN x.buffer \ whole |-> x.buffer[s]]]
           news == [i \in DOMAIN ids |-> New(ids[i])]
<1>1. run.at = "private" /\ UNCHANGED <<fence, chunks>>
  BY DEF ReadPrivate
<1>2. run' = IF run.pub.ended /\ priv.ended
             THEN [at |-> "seal", next |-> 0,
                   inv |-> [rev |-> run.rev, scanAt |-> run.scanAt,
                            entries |-> run.entries \o news]]
             ELSE [run EXCEPT !.at = "public", !.pub = Left(run.pub),
                              !.priv = Left(priv), !.entries = run.entries \o news]
  BY Zenon DEF ReadPrivate
<1>3. priv = PrivNow
  BY DEF PrivNow
<1>4. whole = Whole
  BY <1>3 DEF Whole, Seen
<1>5. Whole \subseteq Nat /\ IsFiniteSet(Whole)
  <2>1. Whole \subseteq Shares
    BY DEF Whole, StreamOK
  <2> QED BY <2>1, OrderAssumption, SharesAssumption, FS_Subset
<1>6. DOMAIN ids = 1 .. Cardinality(Whole)
  BY <1>4, <1>5, OrderIs
<1>7. \A s : New(s) = EntryFor(s)
  BY <1>3 DEF EntryFor, DocIn
<1>8. Left(run.pub) = Rest(run.pub) /\ Left(priv) = Rest(PrivNow)
  BY <1>3, <1>4 DEF Rest
<1> HIDE DEF New, Left, priv
<1>9. news = News
  BY <1>4, <1>6, <1>7 DEF News
<1> HIDE DEF news, ids
<1> QED BY <1>1, <1>2, <1>3, <1>8, <1>9

\* The entries it adds are of the shares it decided, each once.
LEMMA NewsAre ==
    ASSUME StreamOK(run.pub), StreamOK(PrivNow)
    PROVE  /\ IsList(News)
           /\ \A i \in 1 .. Len(News) : \E s \in Whole : News[i] = EntryFor(s)
           /\ \A s \in Whole : \E i \in 1 .. Len(News) : News[i] = EntryFor(s)
           /\ \A i, j \in 1 .. Len(News) : News[i].share = News[j].share => i = j
           /\ Whole \subseteq Shares
<1> DEFINE n == Cardinality(Whole)
           f == InOrder(Whole)
<1>1. Whole \subseteq Shares
  BY DEF Whole, StreamOK
<1>2. Whole \subseteq Nat /\ IsFiniteSet(Whole)
  BY <1>1, OrderAssumption, SharesAssumption, FS_Subset
<1>3. /\ n \in Nat /\ f \in [1 .. n -> Whole]
      /\ \A i, j \in 1 .. n : f[i] = f[j] => i = j
      /\ \A s \in Whole : \E i \in 1 .. n : f[i] = s
  BY <1>2, OrderIs
<1>4. News = [i \in 1 .. n |-> EntryFor(f[i])]
  BY DEF News
<1> HIDE DEF n, f
<1>5. DOMAIN News = 1 .. n /\ \A i \in 1 .. n : News[i] = EntryFor(f[i])
  BY <1>4
<1>6. \A i \in 1 .. n : News[i] \in Values(News)
  BY <1>5 DEF Values
<1>7. News \in [1 .. n -> Values(News)]
  BY <1>4, <1>5, <1>6
<1>8. News \in Seq(Values(News)) /\ Len(News) = n
  BY <1>3, <1>7
<1>9. \A s : EntryFor(s).share = s
  BY DEF EntryFor
<1> QED BY <1>1, <1>3, <1>5, <1>8, <1>9 DEF IsList

-----------------------------------------------------------------------------
(* Every state has its shape.                                              *)

ApplyRun == /\ Applies /\ DOMAIN run = {"at", "inv", "next"} /\ run.next \in Nat
            /\ fence # NoDoc /\ InvOK(run.inv) /\ Eligible(run.inv)
SealRun == /\ run.at = "seal" /\ DOMAIN run = {"at", "next", "inv"}
           /\ run.next \in Nat /\ fence # NoDoc /\ InvOK(run.inv)
ScanRun == /\ Scans /\ DOMAIN run = {"at", "rev", "scanAt", "pub", "priv", "entries"}
           /\ run.scanAt \in Nat /\ fence # NoDoc
           /\ StreamOK(run.pub) /\ \A s \in DOMAIN run.pub.buffer : PubOK(run.pub.buffer[s])
           /\ StreamOK(run.priv) /\ \A s \in DOMAIN run.priv.buffer : PrivOK(run.priv.buffer[s])
           /\ EntriesOK(run.entries)
\* What a job holds in memory, by how far it has got.
LEMMA RunIs ==
    ASSUME RunShape
    PROVE  /\ Applies => ApplyRun
           /\ run.at = "seal" => SealRun
           /\ Scans => ScanRun
           /\ run.at = "freeze" => DOMAIN run = {"at", "rev", "scanAt"} /\ run.scanAt \in Nat
           /\ ~NoJob => Applies \/ run.at = "seal" \/ Scans \/ run.at = "freeze"
BY DEF RunShape, ApplyRun, SealRun, ScanRun, Applies, Scans, Idle, Died, NoJob

\* The documents of an entry that a share is made from.
LEMMA EntryIs ==
    ASSUME ApplyRun, run.next < Count
    PROVE  LET e == Entry_(run.next)
           IN /\ EntryOK(e) /\ e \in Entries(run.inv)
              /\ run.next + 1 \in 1 .. Len(run.inv.entries)
              /\ e = run.inv.entries[run.next + 1]
              /\ run.inv.scanAt \in Nat
              /\ ~Quarantines(e.pub, e.priv, run.inv.scanAt) => Copies(e)
<1> DEFINE e == Entry_(run.next)
<1>1. run.next \in Nat /\ EntriesOK(run.inv.entries) /\ run.inv.scanAt \in Nat
  BY DEF ApplyRun, InvOK
<1>2. /\ Len(run.inv.entries) \in Nat
      /\ DOMAIN run.inv.entries = 1 .. Len(run.inv.entries)
  BY <1>1 DEF EntriesOK, IsList
<1>3. run.next + 1 \in 1 .. Len(run.inv.entries)
  BY <1>1, <1>2 DEF Count
<1>4. EntryOK(e) /\ e = run.inv.entries[run.next + 1]
  BY <1>1, <1>3 DEF EntriesOK, Entry_
<1>5. e \in Entries(run.inv)
  BY <1>2, <1>3, <1>4 DEF Entries, ToSet
<1>6. ~Blocks(e.pub, e.priv, run.inv.scanAt)
  BY <1>5 DEF ApplyRun, Eligible
<1> QED BY <1>1, <1>3, <1>4, <1>5, <1>6 DEF Blocks, Copies

\* An expiry is a time, at most a lifetime after the scan, and at most the
\* expiry of a private document that is there.
LEMMA ExpiryIs ==
    ASSUME NEW e, EntryOK(e), NEW at \in Nat, Copies(e)
    PROVE  /\ e.pub # NoDoc /\ ExpiryOf(e, at) \in Int
           /\ ExpiryOf(e, at) <= at + Lifetime
           /\ e.priv # NoDoc => /\ ExpiryOf(e, at) <= e.priv.expires
                                /\ e.priv.version \in {1, 2}
<1>1. /\ e.pub # NoDoc /\ e.pub.expires \in Int
      /\ e.priv # NoDoc => e.priv.expires \in Int
      /\ Lifetime \in Int
  BY TimeAssumption DEF EntryOK, PubOK, PrivOK, Copies, Keeps, Migrates
<1>2. Existing(e, at) \in Int
  BY <1>1 DEF Existing
<1>3. e.priv # NoDoc => Existing(e, at) = e.priv.expires /\ e.priv.version \in {1, 2}
  BY <1>1 DEF Existing, Copies, Keeps, Migrates, SameTimes, OwnedV1
<1> QED BY <1>1, <1>2, <1>3 DEF ExpiryOf, Min2

TargetShape(e, at) ==
    /\ TargetPublic(e, at) # NoDoc /\ TargetPrivate(e, at) # NoDoc
    /\ TargetPublic(e, at).kind = "current" /\ TargetPublic(e, at).deck = e.pub.deck
    /\ TargetPublic(e, at).created = e.pub.created
    /\ TargetPublic(e, at).expires = ExpiryOf(e, at)
    /\ TargetPrivate(e, at).version = 2 /\ TargetPrivate(e, at).owner = Migrant
    /\ TargetPrivate(e, at).created = e.pub.created
    /\ TargetPrivate(e, at).expires = ExpiryOf(e, at)
    /\ TargetPrivate(e, at).bytes = DeckBytes[e.pub.deck]
\* The pair a migrated share ends as.
LEMMA TargetIs ==
    ASSUME NEW e, NEW at
    PROVE  TargetShape(e, at)
BY DEF TargetShape, TargetPublic, TargetPrivate, SharePublic, SharePrivate,
       PublicDoc, PrivateDoc, NoDoc

DocsOK == /\ public = [s \in Shares |-> public[s]] /\ \A s \in Shares : PubOK(public[s])
          /\ private = [s \in Shares |-> private[s]] /\ \A s \in Shares : PrivOK(private[s])
\* Whoever writes a document gives it its shape.
LEMMA DocsKept ==
    ASSUME MigShape, [MigNext]_allVars
    PROVE  /\ clock' \in Nat /\ DocsOK'
           /\ quarantine' = [s \in Shares |-> quarantine'[s]]
<1> /\ clock \in Nat /\ DocsOK /\ quarantine = [s \in Shares |-> quarantine[s]]
    /\ RunShape
  BY DEF MigShape, DocsOK
<1>1. CASE UNCHANGED <<Docs, quarantine, clock>>
  BY <1>1 DEF DocsOK, Docs
<1>2. CASE WriteShare
  <2>1. CASE Passes
    BY <1>1, <2>1 DEF Passes, History
  <2>2. ASSUME NEW e, Advances(e)
        PROVE  /\ EntryOK(e) /\ clock' = clock /\ run.inv.scanAt \in Nat
               /\ ~Quarantines(e.pub, e.priv, run.inv.scanAt) => Copies(e)
    <3>1. Applies
      BY <2>2 DEF Advances, Applies
    <3> QED BY <2>2, <3>1, RunIs, EntryIs DEF Advances, History
  <2>3. ASSUME NEW e, SetsAside(e) PROVE DocsOK' /\ clock' \in Nat
                  /\ quarantine' = [s \in Shares |-> quarantine'[s]]
    BY <2>2, <2>3 DEF SetsAside, DocsOK, Docs, Advances
  <2>4. ASSUME NEW e, Writes(e) PROVE DocsOK' /\ clock' \in Nat
                  /\ quarantine' = [s \in Shares |-> quarantine'[s]]
    <3> DEFINE p == TargetPublic(e, run.inv.scanAt)
               q == TargetPrivate(e, run.inv.scanAt)
    <3>1. EntryOK(e) /\ Copies(e) /\ clock' = clock /\ run.inv.scanAt \in Nat
      BY <2>2, <2>4 DEF Writes
    <3>2. PubOK(p) /\ PrivOK(q)
      BY <3>1, TargetIs, ExpiryIs DEF TargetShape, PubOK, PrivOK, EntryOK
    <3>3. /\ public' = [public EXCEPT ![e.share] = p]
          /\ private' = [private EXCEPT ![e.share] = q] /\ quarantine' = quarantine
      BY <2>4 DEF Writes
    <3> HIDE DEF p, q
    <3> QED BY <3>1, <3>2, <3>3 DEF DocsOK
  <2> QED BY <1>2, <2>1, <2>3, <2>4, WriteStep
<1>3. ASSUME NEW o \in Owners, NEW d \in Decks, Create(o, d)
      PROVE  DocsOK' /\ UNCHANGED <<clock, quarantine>>
  <2>1. UNCHANGED <<clock, quarantine>>
    BY <1>3, CreateStep DEF Jobs, History
  <2>2. CASE UNCHANGED Docs
    BY <1>1, <2>1, <2>2
  <2>3. ASSUME NEW s \in Shares, Creates(s, d, o) PROVE DocsOK'
    <3> DEFINE p == SharePublic(d, clock, clock + Lifetime)
               q == SharePrivate(o, d, clock, clock + Lifetime)
    <3>1. PubOK(p) /\ PrivOK(q)
      BY TimeAssumption DEF PubOK, PrivOK, SharePublic, SharePrivate, PublicDoc, PrivateDoc
    <3>2. public' = [public EXCEPT ![s] = p] /\ private' = [private EXCEPT ![s] = q]
      BY <2>3 DEF Creates
    <3> HIDE DEF p, q
    <3> QED BY <3>1, <3>2 DEF DocsOK
  <2> QED BY <1>3, <2>1, <2>2, <2>3, CreateStep
<1>4. PubOK(NoDoc) /\ PrivOK(NoDoc)
  BY DEF PubOK, PrivOK
<1>5. ASSUME NEW o \in Owners, NEW s \in Shares, Revoke(o, s)
      PROVE  DocsOK' /\ UNCHANGED <<clock, quarantine>>
  BY <1>4, <1>5, RevokeStep DEF Revokes, DocsOK, Jobs
<1>6. CASE Pass
  BY <1>6, PassStep DEF DocsOK, Docs, Jobs
<1>7. ASSUME NEW s \in Shares, Ttl(s)
      PROVE  DocsOK' /\ UNCHANGED <<clock, quarantine>>
  BY <1>4, <1>7, TtlStep DEF Deletes, DocsOK, Jobs
<1>8. CASE Bookkeeping
  BY <1>1, <1>8, BookkeepingStep DEF History
<1> QED BY <1>1, <1>2, <1>3, <1>5, <1>6, <1>7, <1>8, StepKinds DEF Jobs, History

\* How the jobs change the fence: by name, which fields and to what.
Fresh(rev, at) == /\ fence = NoDoc \/ fence.phase = "superseded"
                  /\ at \in Nat /\ fence' = Fence(rev, at)
Sealing(k) == /\ fence.phase \in {"frozen", "sealing"}
              /\ fence' = [fence EXCEPT !.phase = "sealing", !.sealed = k]
Sealed == /\ run.at = "seal" /\ fence.phase \in {"frozen", "sealing"}
          /\ run.next = ChunkCount(run.inv)
          /\ fence' = [fence EXCEPT !.phase = "sealed", !.inv = run.inv]
Superseded == /\ NoJob /\ fence.phase = "sealed"
              /\ fence' = [fence EXCEPT !.phase = "superseded", !.ready = FALSE]
Applying == /\ run.at = "check" /\ fence.phase = "sealed"
            /\ fence' = [fence EXCEPT !.phase = "applying"]
Progress == /\ fence.phase = "applying" /\ run.at = "write"
            /\ \E e : Writes(e) \/ SetsAside(e)
            /\ fence' = [fence EXCEPT !.next = run.next + 1]
Applied_ == /\ fence.phase = "applying"
            /\ fence' = [fence EXCEPT !.phase = "applied", !.ready = TRUE]
Verifying == /\ Validating /\ ~fence.verifying
             /\ fence' = [fence EXCEPT !.verifying = TRUE, !.checked = 0,
                                !.pub = 0, !.pubEnded = FALSE,
                                !.priv = 0, !.privEnded = FALSE]
PubPage == FirstOf(Some(public), fence.pub, VerifyDocs)
PrivPage == FirstOf(Some(private), fence.priv, VerifyDocs)
ReadsPub == /\ Validating /\ fence.verifying /\ ~fence.pubEnded
            /\ \A s \in PubPage : Verified(s)
            /\ fence' = [fence EXCEPT !.pub = LastOf(PubPage, fence.pub),
                                      !.pubEnded = Cardinality(PubPage) < VerifyDocs]
ReadsPriv == /\ Validating /\ fence.verifying /\ fence.pubEnded /\ ~fence.privEnded
             /\ \A s \in PrivPage : Verified(s)
             /\ fence' = [fence EXCEPT !.priv = LastOf(PrivPage, fence.priv),
                                       !.privEnded = Cardinality(PrivPage) < VerifyDocs]
ReadsSealed == /\ Validating /\ fence.verifying /\ run.at = "verify"
               /\ fence' = [fence EXCEPT !.checked =
                              Min2(fence.checked + VerifyDocs, Count)]
Finished == /\ Validating /\ fence.verifying /\ fence.pubEnded /\ fence.privEnded
            /\ fence' = [fence EXCEPT !.phase = "verified", !.verifying = FALSE]
FenceSteps ==
    \/ \E rev, at : Fresh(rev, at)
    \/ /\ fence # NoDoc
       /\ \/ \E k : Sealing(k)
          \/ Sealed \/ Superseded \/ Applying \/ Progress \/ Applied_
          \/ Verifying \/ ReadsPub \/ ReadsPriv \/ ReadsSealed \/ Finished

\* Every step leaves the fence or changes it in one of these ways.
LEMMA FenceStep ==
    ASSUME RunShape, [MigNext]_allVars
    PROVE  fence' = fence \/ FenceSteps
<1>0. Applies \/ run.at = "seal" => fence # NoDoc
  BY RunIs DEF ApplyRun, SealRun
<1>1. CASE UNCHANGED Jobs
  BY <1>1 DEF Jobs
<1>2. CASE BeginFreeze
  <2>1. run.at = "freeze" /\ run.scanAt \in Nat
    BY <1>2, RunIs DEF BeginFreeze
  <2>2. \/ fence' = fence
        \/ /\ fence = NoDoc \/ fence.phase = "superseded"
           /\ fence' = Fence(run.rev, run.scanAt)
    BY <1>2 DEF BeginFreeze, Throw
  <2>3. fence' = fence \/ Fresh(run.rev, run.scanAt)
    BY <2>1, <2>2 DEF Fresh
  <2> QED BY <2>3 DEF FenceSteps
<1>3. CASE Seal
  <2>1. fence' = fence \/ Sealing(run.next + 1)
    BY <1>3 DEF Seal, Throw, Sealing
  <2> QED BY <1>0, <1>3, <2>1 DEF FenceSteps, Seal
<1>4. CASE SealRoot
  BY <1>0, <1>4 DEF SealRoot, FenceSteps, Sealed
<1>5. CASE ReadPublic \/ ReadPrivate \/ Preflight \/ Check
  BY <1>5 DEF ReadPublic, ReadPrivate, Preflight, Check, Throw
<1>6. CASE BeginApply \/ WriteLedger
  BY <1>0, <1>6 DEF Applies, BeginApply, WriteLedger, Throw, FenceSteps, Applying, Applied_,
              StateHeld, SealedPhases, Validating
<1>7. CASE BeginVerify
  BY <1>0, <1>7 DEF Applies, BeginVerify, Throw, FenceSteps, Verifying, VerifyHeld
<1>8. CASE VerifyPublic
  BY <1>0, <1>8 DEF Applies, VerifyPublic, VerifyStep, Throw, FenceSteps, ReadsPub, PubPage, VerifyHeld
<1>9. CASE VerifyPrivate
  BY <1>0, <1>9 DEF Applies, VerifyPrivate, VerifyStep, Throw, FenceSteps, ReadsPriv, PrivPage, VerifyHeld
<1>10. CASE VerifySealed
  BY <1>0, <1>10 DEF Applies, VerifySealed, VerifyStep, Throw, FenceSteps, ReadsSealed, VerifyHeld
<1>11. CASE FinishVerify
  BY <1>0, <1>11 DEF Applies, FinishVerify, FenceSteps, Finished, VerifyHeld
<1>12. CASE Operator
  BY <1>12 DEF Operator, StartInventory, StartApply, StartVerify, Crash, Start,
               Supersede, deckVars, FenceSteps, Superseded
<1>13. CASE WriteShare
  <2>1. ASSUME NEW e, Writes(e) \/ SetsAside(e) PROVE Progress /\ fence # NoDoc
    <3>1. Advances(e)
      BY <2>1 DEF Writes, SetsAside
    <3> QED BY <1>0, <2>1, <3>1 DEF Applies, Advances, Progress
  <2>2. CASE Passes
    BY <2>2 DEF Passes
  <2> QED BY <1>13, <2>1, <2>2, WriteStep DEF FenceSteps
<1>14. ASSUME NEW o \in Owners, NEW d \in Decks, Create(o, d) PROVE UNCHANGED Jobs
  BY <1>14, CreateStep
<1>15. ASSUME NEW o \in Owners, NEW s \in Shares, Revoke(o, s) PROVE UNCHANGED Jobs
  BY <1>15, RevokeStep
<1>16. CASE Pass
  BY <1>16, PassStep DEF Jobs
<1>17. ASSUME NEW s \in Shares, Ttl(s) PROVE UNCHANGED Jobs
  BY <1>17, TtlStep DEF Deletes
<1>18. Bookkeeping => fence' = fence \/ FenceSteps
  BY <1>2, <1>3, <1>4, <1>5, <1>6, <1>7, <1>8, <1>9, <1>10, <1>11, <1>12
     DEF Bookkeeping, Verify
<1> QED BY <1>1, <1>13, <1>14, <1>15, <1>16, <1>17, <1>18, StepKinds DEF Jobs

\* What each of them leaves of the fence.
LEMMA FenceChange ==
    ASSUME FenceShape
    PROVE  /\ \A k : Sealing(k) => Changes({"phase", "sealed"}) /\ fence'.phase = "sealing"
           /\ Sealed => /\ Changes({"phase", "inv"})
                        /\ fence'.phase = "sealed" /\ fence'.inv = run.inv
           /\ Superseded => Changes({"phase", "ready"}) /\ fence'.phase = "superseded"
                            /\ fence'.ready = FALSE
           /\ Applying => Changes({"phase"}) /\ fence'.phase = "applying"
           /\ Progress => Changes({"next"}) /\ fence'.next = run.next + 1
           /\ Applied_ => Changes({"phase", "ready"}) /\ fence'.phase = "applied"
                           /\ fence'.ready = TRUE
           /\ Verifying => /\ Changes({"verifying", "checked", "pub", "pubEnded",
                                        "priv", "privEnded"})
                           /\ fence'.verifying = TRUE /\ fence'.checked = 0
                           /\ fence'.pub = 0 /\ fence'.priv = 0
                           /\ fence'.pubEnded = FALSE /\ fence'.privEnded = FALSE
           /\ ReadsPub => /\ Changes({"pub", "pubEnded"})
                          /\ fence'.pub = LastOf(PubPage, fence.pub)
                          /\ fence'.pubEnded = (Cardinality(PubPage) < VerifyDocs)
           /\ ReadsPriv => /\ Changes({"priv", "privEnded"})
                           /\ fence'.priv = LastOf(PrivPage, fence.priv)
                           /\ fence'.privEnded = (Cardinality(PrivPage) < VerifyDocs)
           /\ ReadsSealed => /\ Changes({"checked"})
                             /\ fence'.checked = Min2(fence.checked + VerifyDocs, Count)
           /\ Finished => /\ Changes({"phase", "verifying"})
                          /\ fence'.phase = "verified" /\ fence'.verifying = FALSE
<1> USE DEF Changes, FenceShape, FenceFields
<1>1. ASSUME NEW k, Sealing(k)
      PROVE  Changes({"phase", "sealed"}) /\ fence'.phase = "sealing"
  BY <1>1 DEF Sealing
<1>2. ASSUME Sealed
      PROVE  Changes({"phase", "inv"}) /\ fence'.phase = "sealed" /\ fence'.inv = run.inv
  BY <1>2 DEF Sealed
<1>3. ASSUME Superseded
      PROVE  Changes({"phase", "ready"}) /\ fence'.phase = "superseded" /\ fence'.ready = FALSE
  BY <1>3 DEF Superseded
<1>4. ASSUME Applying PROVE Changes({"phase"}) /\ fence'.phase = "applying"
  BY <1>4 DEF Applying
<1>5. ASSUME Progress PROVE Changes({"next"}) /\ fence'.next = run.next + 1
  BY <1>5 DEF Progress
<1>6. ASSUME Applied_
      PROVE  Changes({"phase", "ready"}) /\ fence'.phase = "applied" /\ fence'.ready = TRUE
  BY <1>6 DEF Applied_
<1>7. ASSUME Verifying
      PROVE  /\ Changes({"verifying", "checked", "pub", "pubEnded", "priv", "privEnded"})
             /\ fence'.verifying = TRUE /\ fence'.checked = 0
             /\ fence'.pub = 0 /\ fence'.priv = 0
             /\ fence'.pubEnded = FALSE /\ fence'.privEnded = FALSE
  BY <1>7 DEF Verifying
<1>8. ASSUME ReadsPub
      PROVE  /\ Changes({"pub", "pubEnded"})
             /\ fence'.pub = LastOf(PubPage, fence.pub)
             /\ fence'.pubEnded = (Cardinality(PubPage) < VerifyDocs)
  BY <1>8 DEF ReadsPub
<1>9. ASSUME ReadsPriv
      PROVE  /\ Changes({"priv", "privEnded"})
             /\ fence'.priv = LastOf(PrivPage, fence.priv)
             /\ fence'.privEnded = (Cardinality(PrivPage) < VerifyDocs)
  BY <1>9 DEF ReadsPriv
<1>10. ASSUME ReadsSealed
       PROVE  /\ Changes({"checked"})
              /\ fence'.checked = Min2(fence.checked + VerifyDocs, Count)
  BY <1>10 DEF ReadsSealed
<1>11. ASSUME Finished
       PROVE  /\ Changes({"phase", "verifying"})
              /\ fence'.phase = "verified" /\ fence'.verifying = FALSE
  BY <1>11 DEF Finished
<1> QED BY <1>1, <1>2, <1>3, <1>4, <1>5, <1>6, <1>7, <1>8, <1>9, <1>10, <1>11

\* A fence that is there stays, with its shape.
LEMMA FenceKept ==
    ASSUME MigShape, [MigNext]_allVars
    PROVE  /\ fence' # NoDoc => FenceShape'
           /\ fence # NoDoc => fence' # NoDoc
<1> RunShape /\ (fence # NoDoc => FenceShape)
  BY DEF MigShape
<1>1. CASE fence' = fence
  BY <1>1 DEF FenceShape
<1>2. ASSUME NEW rev, NEW at, Fresh(rev, at) PROVE FenceShape' /\ fence' # NoDoc
  BY <1>2 DEF Fresh, Fence, FenceShape, FenceFields, Phases, SealedPhases, NoDoc
<1>3. DOMAIN fence' = FenceFields => fence' # NoDoc
  BY DEF FenceFields, NoDoc
<1>a. SealedPhases = {"sealed", "applying", "applied", "verified"}
      /\ Phases = {"frozen", "sealing", "superseded"} \cup SealedPhases
  BY DEF SealedPhases, Phases
<1>4. ASSUME fence # NoDoc, FenceSteps, ~\E rev, at : Fresh(rev, at) PROVE FenceShape'
  <2>0. FenceShape
    BY <1>4
  <2>1. ASSUME NEW k, Sealing(k) PROVE FenceShape'
    <3>1. Changes({"phase", "sealed"}) /\ fence'.phase = "sealing"
      BY <2>0, <2>1, FenceChange
    <3> QED BY <1>a, <2>0, <2>1, <3>1 DEF Changes, FenceShape, FenceFields, Sealing
  <2>2. ASSUME Sealed PROVE FenceShape'
    <3>1. InvOK(run.inv)
      BY <2>2, RunIs DEF Sealed, SealRun
    <3>2. Changes({"phase", "inv"}) /\ fence'.phase = "sealed" /\ InvOK(fence'.inv)
      BY <2>0, <2>2, <3>1, FenceChange
    <3> QED BY <1>a, <2>0, <2>2, <3>2 DEF Changes, FenceShape, FenceFields, Sealed, InvOK
  <2>3. ASSUME Superseded PROVE FenceShape'
    <3>1. Changes({"phase", "ready"}) /\ fence'.phase = "superseded" /\ fence'.ready = FALSE
      BY <2>0, <2>3, FenceChange
    <3> QED BY <1>a, <2>0, <2>3, <3>1 DEF Changes, FenceShape, FenceFields, Superseded
  <2>4. ASSUME Applying PROVE FenceShape'
    <3>1. Changes({"phase"}) /\ fence'.phase = "applying"
      BY <2>0, <2>4, FenceChange
    <3> QED BY <1>a, <2>0, <2>4, <3>1 DEF Changes, FenceShape, FenceFields, Applying
  <2>5. ASSUME Progress PROVE FenceShape'
    <3>1. run.next + 1 \in Nat
      BY <2>5, RunIs DEF Progress, Applies, ApplyRun
    <3>2. Changes({"next"}) /\ fence'.next \in Nat
      BY <2>0, <2>5, <3>1, FenceChange
    <3> QED BY <1>a, <2>0, <3>2 DEF Changes, FenceShape, FenceFields
  <2>6. ASSUME Applied_ PROVE FenceShape'
    <3>1. Changes({"phase", "ready"}) /\ fence'.phase = "applied" /\ fence'.ready = TRUE
      BY <2>0, <2>6, FenceChange
    <3> QED BY <1>a, <2>0, <2>6, <3>1 DEF Changes, FenceShape, FenceFields, Applied_
  <2>7. ASSUME Verifying PROVE FenceShape'
    <3>1. /\ Changes({"verifying", "checked", "pub", "pubEnded", "priv", "privEnded"})
          /\ fence'.verifying = TRUE /\ fence'.checked = 0
          /\ fence'.pub = 0 /\ fence'.priv = 0
          /\ fence'.pubEnded = FALSE /\ fence'.privEnded = FALSE
      BY <2>0, <2>7, FenceChange
    <3> QED BY <1>a, <2>0, <2>7, <3>1
            DEF Changes, FenceShape, FenceFields, Verifying, Validating
  <2>8. ASSUME ReadsPub PROVE FenceShape'
    <3>1. fence.pub \in Nat /\ VerifyDocs \in Nat \ {0}
      BY <2>0, PageAssumption DEF FenceShape
    <3>2. LastOf(PubPage, fence.pub) \in Nat
      BY <3>1, SomeIs, PageIs DEF PubPage
    <3>3. fence'.pubEnded = (Cardinality(PubPage) < VerifyDocs)
      BY <2>0, <2>8, FenceChange
    <3>4. fence'.pubEnded \in BOOLEAN
      BY <3>3
    <3>5. Changes({"pub", "pubEnded"}) /\ fence'.pub \in Nat
      BY <2>0, <2>8, <3>2, FenceChange
    <3> QED BY <1>a, <2>0, <3>4, <3>5 DEF Changes, FenceShape, FenceFields
  <2>9. ASSUME ReadsPriv PROVE FenceShape'
    <3>1. fence.priv \in Nat /\ VerifyDocs \in Nat \ {0}
      BY <2>0, PageAssumption DEF FenceShape
    <3>2. LastOf(PrivPage, fence.priv) \in Nat
      BY <3>1, SomeIs, PageIs DEF PrivPage
    <3>3. fence'.privEnded = (Cardinality(PrivPage) < VerifyDocs)
      BY <2>0, <2>9, FenceChange
    <3>4. fence'.privEnded \in BOOLEAN
      BY <3>3
    <3>5. Changes({"priv", "privEnded"}) /\ fence'.priv \in Nat
      BY <2>0, <2>9, <3>2, FenceChange
    <3> QED BY <1>a, <2>0, <3>4, <3>5 DEF Changes, FenceShape, FenceFields
  <2>10. ASSUME ReadsSealed PROVE FenceShape'
    <3>1. Count \in Nat
      BY <2>10, RunIs DEF ReadsSealed, Applies, ApplyRun, Count, InvOK, EntriesOK, IsList
    <3>2. Min2(fence.checked + VerifyDocs, Count) \in Nat
      BY <2>0, <3>1, PageAssumption DEF Min2, FenceShape
    <3>3. Changes({"checked"}) /\ fence'.checked \in Nat
      BY <2>0, <2>10, <3>2, FenceChange
    <3> QED BY <1>a, <2>0, <3>3 DEF Changes, FenceShape, FenceFields
  <2>11. ASSUME Finished PROVE FenceShape'
    <3>1. /\ Changes({"phase", "verifying"})
          /\ fence'.phase = "verified" /\ fence'.verifying = FALSE
      BY <2>0, <2>11, FenceChange
    <3> QED BY <1>a, <2>0, <2>11, <3>1
            DEF Changes, FenceShape, FenceFields, Finished, Validating
  <2> QED BY <1>4, <2>1, <2>2, <2>3, <2>4, <2>5, <2>6, <2>7, <2>8, <2>9, <2>10, <2>11
          DEF FenceSteps
<1>5. ASSUME fence = NoDoc, FenceSteps PROVE \E rev, at : Fresh(rev, at)
  BY <1>5 DEF FenceSteps
<1>6. FenceShape' => fence' # NoDoc
  BY <1>3 DEF FenceShape
<1> QED BY <1>1, <1>2, <1>4, <1>5, <1>6, FenceStep

\* The streams and entries of a scan, and what a decided share leaves of them.
LEMMA ScanNext ==
    ASSUME MigShape, ScanRun
    PROVE  /\ LET y == NextPage(run.pub, public)
              IN StreamOK(y) /\ \A s \in DOMAIN y.buffer : PubOK(y.buffer[s])
           /\ StreamOK(PrivNow) /\ \A s \in DOMAIN PrivNow.buffer : PrivOK(PrivNow.buffer[s])
           /\ EntriesOK(run.entries \o News)
           /\ \A x : StreamOK(x) => /\ StreamOK(Rest(x))
                                    /\ Rest(x).cursor = x.cursor /\ Rest(x).ended = x.ended
                                    /\ DOMAIN Rest(x).buffer = DOMAIN x.buffer \ Whole
                                    /\ \A s \in DOMAIN Rest(x).buffer :
                                          s \in DOMAIN x.buffer /\ Rest(x).buffer[s] = x.buffer[s]
<1>1. LET y == NextPage(run.pub, public)
      IN StreamOK(y) /\ \A s \in DOMAIN y.buffer : PubOK(y.buffer[s])
  <2> DEFINE y == NextPage(run.pub, public)
  <2>1. StreamOK(y) /\ \A s \in DOMAIN y.buffer :
           y.buffer[s] = IF s \in DOMAIN run.pub.buffer THEN run.pub.buffer[s] ELSE public[s]
    BY NextPageIs DEF ScanRun
  <2> HIDE DEF y
  <2>2. \A s \in DOMAIN y.buffer : s \in Shares
    BY <2>1 DEF StreamOK
  <2>3. \A s \in DOMAIN y.buffer : PubOK(y.buffer[s])
    BY <2>1, <2>2 DEF MigShape, ScanRun
  <2> QED BY <2>1, <2>3 DEF y
<1>2. StreamOK(PrivNow) /\ \A s \in DOMAIN PrivNow.buffer : PrivOK(PrivNow.buffer[s])
  <2>1. StreamOK(PrivNow) /\ \A s \in DOMAIN PrivNow.buffer : PrivNow.buffer[s] =
           IF s \in DOMAIN run.priv.buffer THEN run.priv.buffer[s] ELSE private[s]
    BY NextPageIs DEF ScanRun, PrivNow
  <2>2. \A s \in DOMAIN PrivNow.buffer : s \in Shares
    BY <2>1 DEF StreamOK
  <2>3. \A s \in DOMAIN PrivNow.buffer : PrivOK(PrivNow.buffer[s])
    BY <2>1, <2>2 DEF MigShape, ScanRun
  <2> QED BY <2>1, <2>3
<1>3. EntriesOK(run.entries \o News)
  <2> DEFINE all == run.entries \o News
  <2>1. /\ IsList(News) /\ Whole \subseteq Shares
        /\ \A i \in 1 .. Len(News) : \E s \in Whole : News[i] = EntryFor(s)
    BY <1>2, NewsAre DEF ScanRun
  <2>2. PubOK(NoDoc) /\ PrivOK(NoDoc)
    BY DEF PubOK, PrivOK
  <2>3. \A s \in Whole : EntryOK(EntryFor(s))
    BY <1>2, <2>1, <2>2 DEF EntryFor, EntryOK, DocIn, ScanRun
  <2>4. IsList(run.entries) /\ \A i \in 1 .. Len(run.entries) : EntryOK(run.entries[i])
    BY DEF ScanRun, EntriesOK
  <2>5. /\ IsList(all) /\ Len(all) = Len(run.entries) + Len(News)
        /\ \A i \in 1 .. Len(run.entries) : all[i] = run.entries[i]
        /\ \A i \in 1 .. Len(News) : all[Len(run.entries) + i] = News[i]
    BY <2>1, <2>4, JoinIs
  <2> HIDE DEF all
  <2>6. Len(run.entries) \in Nat /\ Len(News) \in Nat
    BY <2>1, <2>4 DEF IsList
  <2>7. ASSUME NEW i \in 1 .. Len(all) PROVE EntryOK(all[i])
    <3>1. CASE i <= Len(run.entries)
      BY <2>4, <2>5, <2>6, <3>1
    <3>2. CASE ~(i <= Len(run.entries))
      <4>1. i - Len(run.entries) \in 1 .. Len(News)
            /\ i = Len(run.entries) + (i - Len(run.entries))
        BY <2>5, <2>6, <3>2
      <4>2. all[i] = News[i - Len(run.entries)]
        BY <2>5, <4>1
      <4> QED BY <2>1, <2>3, <4>1, <4>2
    <3> QED BY <3>1, <3>2
  <2> QED BY <2>5, <2>7 DEF all, EntriesOK
<1>4. ASSUME NEW x, StreamOK(x)
      PROVE  /\ StreamOK(Rest(x))
             /\ Rest(x).cursor = x.cursor /\ Rest(x).ended = x.ended
             /\ DOMAIN Rest(x).buffer = DOMAIN x.buffer \ Whole
             /\ \A s \in DOMAIN Rest(x).buffer :
                   s \in DOMAIN x.buffer /\ Rest(x).buffer[s] = x.buffer[s]
  BY <1>4 DEF Rest, StreamOK
<1> QED BY <1>1, <1>2, <1>3, <1>4

\* A job goes on in its shape, or is over.
LEMMA RunKept ==
    ASSUME MigShape, [MigNext]_allVars
    PROVE  RunShape'
<1> RunShape /\ clock \in Nat /\ (fence # NoDoc => FenceShape)
  BY DEF MigShape
<1>0. /\ fence' # NoDoc => FenceShape'
      /\ fence # NoDoc => fence' # NoDoc
  BY FenceKept
<1>1. CASE run' = run
  BY <1>0, <1>1 DEF RunShape, Scans, Applies
<1>2. CASE run' = Idle \/ run' = Died
  BY <1>2 DEF RunShape
<1>3. CASE BeginFreeze
  <2>1. run.at = "freeze" /\ run.scanAt \in Nat
    BY <1>3, RunIs DEF BeginFreeze
  <2>2. CASE run' = Idle
    BY <1>2, <2>2
  <2>3. CASE run' # Idle
    <3>1. PICK at \in Nat : /\ fence' # NoDoc
                            /\ run' = [at |-> "public", rev |-> run.rev, scanAt |-> at,
                                       pub |-> Stream, priv |-> Stream, entries |-> <<>>]
      BY <1>3, <2>1, <2>3 DEF BeginFreeze, Throw, FenceShape, Fence, NoDoc
    <3>2. StreamOK(Stream) /\ DOMAIN Stream.buffer = {}
      BY DEF Stream, StreamOK
    <3>3. EntriesOK(<<>>)
      BY DEF EntriesOK, IsList, Values
    <3> HIDE DEF Stream
    <3>4. ScanRun'
      BY <3>1, <3>2, <3>3 DEF ScanRun, Scans
    <3> QED BY <3>4 DEF ScanRun, RunShape
  <2> QED BY <2>2, <2>3
<1>4. CASE ReadPublic
  <2> DEFINE y == NextPage(run.pub, public)
  <2>1. ScanRun /\ run.at = "public"
    BY <1>4, RunIs DEF ReadPublic, Scans
  <2>2. StreamOK(y) /\ \A s \in DOMAIN y.buffer : PubOK(y.buffer[s])
    BY <2>1, ScanNext
  <2>3. run' = [run EXCEPT !.pub = y, !.at = "private"] /\ fence' = fence
    BY <1>4 DEF ReadPublic
  <2> HIDE DEF y
  <2>4. ScanRun'
    BY <2>1, <2>2, <2>3 DEF ScanRun, Scans
  <2> QED BY <2>4 DEF ScanRun, RunShape
<1>5. CASE ReadPrivate
  <2>1. ScanRun
    BY <1>5, RunIs DEF ReadPrivate, Scans
  <2> DEFINE all == run.entries \o News
             p == Rest(run.pub)
             q == Rest(PrivNow)
  <2>2. /\ StreamOK(p) /\ \A s \in DOMAIN p.buffer : PubOK(p.buffer[s])
        /\ StreamOK(q) /\ \A s \in DOMAIN q.buffer : PrivOK(q.buffer[s])
        /\ EntriesOK(all) /\ StreamOK(PrivNow) /\ StreamOK(run.pub)
    BY <2>1, ScanNext DEF ScanRun
  <2>3. /\ fence' = fence
        /\ run' = IF run.pub.ended /\ PrivNow.ended
                  THEN [at |-> "seal", next |-> 0,
                        inv |-> [rev |-> run.rev, scanAt |-> run.scanAt, entries |-> all]]
                  ELSE [run EXCEPT !.at = "public", !.pub = p, !.priv = q, !.entries = all]
    BY <1>5, <2>2, ReadPrivateStep
  <2> HIDE DEF all, p, q
  <2>4. CASE run.pub.ended /\ PrivNow.ended
    <3>1. SealRun'
      BY <2>1, <2>2, <2>3, <2>4 DEF ScanRun, SealRun, InvOK
    <3> QED BY <3>1 DEF SealRun, RunShape
  <2>5. CASE ~(run.pub.ended /\ PrivNow.ended)
    <3>1. ScanRun'
      BY <2>1, <2>2, <2>3, <2>5 DEF ScanRun, Scans
    <3> QED BY <3>1 DEF ScanRun, RunShape
  <2> QED BY <2>4, <2>5
<1>6. CASE Seal
  <2>1. SealRun
    BY <1>6, RunIs DEF Seal
  <2>2. run' = Idle \/ run' = [run EXCEPT !.next = run.next + 1]
    BY <1>6 DEF Seal, Throw
  <2>3. run' = [run EXCEPT !.next = run.next + 1] => SealRun'
    BY <1>0, <2>1 DEF SealRun
  <2> QED BY <1>2, <2>2, <2>3 DEF SealRun, RunShape
<1>7. CASE SealRoot \/ FinishVerify
  BY <1>2, <1>7 DEF SealRoot, FinishVerify
<1>8. ASSUME Applies, NEW a \in {"preflight", "check", "write", "begin", "verify"},
             NEW k \in Nat, run' = [run EXCEPT !.at = a, !.next = k]
      PROVE  RunShape'
  <2>1. ApplyRun
    BY <1>8, RunIs
  <2>2. ApplyRun'
    BY <1>0, <1>8, <2>1 DEF ApplyRun, Applies
  <2> QED BY <2>2 DEF ApplyRun, RunShape
<1>9. ASSUME Applies, run' = [run EXCEPT !.next = run.next + 1]
      PROVE  RunShape'
  <2>1. ApplyRun
    BY <1>9, RunIs
  <2>2. ApplyRun'
    BY <1>0, <1>9, <2>1 DEF ApplyRun, Applies
  <2> QED BY <2>2 DEF ApplyRun, RunShape
<1>10. CASE Preflight
  BY <1>2, <1>8, <1>10 DEF Preflight, Go, Throw, Applies
<1>11. CASE Check
  BY <1>2, <1>9, <1>11 DEF Check, Throw, Applies
<1>12. CASE BeginApply
  <2>1. Applies /\ fence.next \in Nat
    BY <1>12, RunIs DEF BeginApply, Applies, ApplyRun, FenceShape
  <2>2. run' = Idle \/ \E k \in Nat : run' = [run EXCEPT !.at = "write", !.next = k]
    BY <1>12, <2>1 DEF BeginApply, Throw
  <2> QED BY <1>2, <1>8, <2>1, <2>2
<1>13. CASE WriteShare
  <2>1. Applies
    BY <1>13 DEF WriteShare, Applies
  <2> QED BY <1>2, <1>9, <1>13, <2>1, WriteStep DEF Passes, Writes, SetsAside, Advances
<1>14. CASE WriteLedger \/ BeginVerify
  BY <1>2, <1>8, <1>14 DEF WriteLedger, BeginVerify, Go, Throw, Applies
<1>15. CASE VerifyPublic \/ VerifyPrivate \/ VerifySealed
  BY <1>1, <1>2, <1>15 DEF VerifyPublic, VerifyPrivate, VerifySealed, VerifyStep, Throw
<1>16. CASE Operator
  <2>1. CASE Supersede \/ Crash
    BY <1>1, <1>2, <2>1 DEF Supersede, Crash
  <2>2. ASSUME NEW rev \in 1 .. MaxRevision, StartInventory(rev) PROVE RunShape'
    BY <2>2 DEF StartInventory, Start, RunShape
  <2>3. CASE StartApply \/ StartVerify
    <3>1. PICK a \in {"preflight", "begin"} :
             /\ fence # NoDoc /\ fence.phase \in SealedPhases /\ Eligible(fence.inv)
             /\ fence' = fence /\ run' = [at |-> a, inv |-> fence.inv, next |-> 0]
      BY <2>3 DEF StartApply, StartVerify, Start, SealedPhases, deckVars
    <3>2. InvOK(fence.inv)
      BY <3>1 DEF FenceShape
    <3>3. ApplyRun'
      BY <3>1, <3>2 DEF ApplyRun, Applies
    <3> QED BY <3>3 DEF ApplyRun, RunShape
  <2> QED BY <1>16, <2>1, <2>2, <2>3 DEF Operator
<1>17. ASSUME NEW o \in Owners, NEW d \in Decks, Create(o, d) PROVE run' = run
  BY <1>17, CreateStep DEF Jobs
<1>18. ASSUME NEW o \in Owners, NEW s \in Shares, Revoke(o, s) PROVE run' = run
  BY <1>18, RevokeStep DEF Jobs
<1>19. CASE Pass
  BY <1>1, <1>19, PassStep DEF Jobs
<1>20. ASSUME NEW s \in Shares, Ttl(s) PROVE run' = run
  BY <1>20, TtlStep DEF Deletes, Jobs
<1>21. Bookkeeping => RunShape'
  BY <1>3, <1>4, <1>5, <1>6, <1>7, <1>10, <1>11, <1>12, <1>14, <1>15, <1>16
     DEF Bookkeeping, Verify
<1> QED BY <1>1, <1>13, <1>17, <1>18, <1>19, <1>20, <1>21, StepKinds DEF Jobs

\* The shape at the start.
LEMMA ShapeInit == MigInit => MigShape
<1> SUFFICES ASSUME MigInit PROVE MigShape
  OBVIOUS
<1>1. /\ clock = 0 /\ fence = NoDoc /\ run = Idle /\ origin \in Origins
      /\ public = [s \in Shares |-> origin[s].pub]
      /\ private = [s \in Shares |-> origin[s].priv]
      /\ quarantine = [s \in Shares |-> NoDoc]
  BY DEF MigInit, CallersInit
<1>2. \A s \in Shares : PubOK(public[s]) /\ PrivOK(private[s])
  BY <1>1, OriginsAssumption DEF PubOK, PrivOK
<1> QED BY <1>1, <1>2 DEF MigShape, RunShape

\* Every step keeps the shape.
LEMMA ShapeKept == MigShape /\ [MigNext]_allVars => MigShape'
BY DocsKept, FenceKept, RunKept DEF MigShape, DocsOK

-----------------------------------------------------------------------------
(* The seal.                                                               *)

\* An inventory is there because it was just sealed, or it was there before
\* and is the same.
LEMMA InventoryKept ==
    ASSUME MigShape, [MigNext]_allVars, HasInventory'
    PROVE  \/ Sealed /\ ~HasInventory /\ fence # NoDoc
              /\ fence'.inv = run.inv /\ fence'.phase = "sealed"
           \/ HasInventory /\ fence'.inv = fence.inv
<1> RunShape /\ (fence # NoDoc => FenceShape)
  BY DEF MigShape
<1>1. CASE fence' = fence
  BY <1>1 DEF HasInventory
<1>2. ASSUME NEW rev, NEW at, Fresh(rev, at) PROVE FALSE
  BY <1>2 DEF HasInventory, Fresh, Fence, SealedPhases
<1>3. ASSUME fence # NoDoc, NEW k, Sealing(k) PROVE FALSE
  BY <1>3, FenceChange DEF HasInventory, SealedPhases
<1>4. ASSUME fence # NoDoc, Superseded PROVE FALSE
  BY <1>4, FenceChange DEF HasInventory, SealedPhases
<1>5. ASSUME fence # NoDoc, Sealed
      PROVE  ~HasInventory /\ fence'.inv = run.inv /\ fence'.phase = "sealed"
  BY <1>5, FenceChange DEF HasInventory, SealedPhases, Sealed
<1>6. ASSUME fence # NoDoc, Applying \/ Progress \/ Applied_ \/ Verifying \/ ReadsPub
                            \/ ReadsPriv \/ ReadsSealed \/ Finished
      PROVE  HasInventory /\ fence'.inv = fence.inv
  <2>1. HasInventory
    BY <1>6 DEF HasInventory, SealedPhases, Applying, Progress, Applied_, Verifying,
                ReadsPub, ReadsPriv, ReadsSealed, Finished, Validating
  <2>2. FenceShape
    BY <1>6
  <2>3. \A F : Changes(F) /\ "inv" \notin F => fence'.inv = fence.inv
    BY DEF Changes, FenceFields
  <2>4. fence'.inv = fence.inv
    BY <1>6, <2>2, <2>3, FenceChange
  <2> QED BY <2>1, <2>4
<1> QED BY <1>1, <1>2, <1>3, <1>4, <1>5, <1>6, FenceStep DEF FenceSteps

\* Chunks are never taken back.  A job that looks for what to seal, or seals,
\* has just begun to, has read a page, or goes on by one chunk that is then
\* there.
Searches == run.at \in {"public", "private", "seal"}
SealsOne == /\ run.at = "seal" /\ run' = [run EXCEPT !.next = run.next + 1]
            /\ <<run.inv, run.next>> \in chunks'
\* What a job that scans or seals did last.
LEMMA SearchStep ==
    ASSUME MigShape, [MigNext]_allVars
    PROVE  /\ chunks \subseteq chunks'
           /\ Searches' => \/ run' = run \/ BeginFreeze \/ ReadPublic \/ ReadPrivate
                           \/ SealsOne
<1> RunShape
  BY DEF MigShape
<1>1. CASE chunks' = chunks /\ (run' = run \/ ~Searches')
  BY <1>1
<1>2. \A r : r \in {Idle, Died} => r.at \notin {"public", "private", "seal"}
  BY DEF Idle, Died
<1>3. CASE Seal
  <2>1. CASE run' = Idle /\ chunks' = chunks
    BY <1>1, <1>2, <2>1 DEF Searches
  <2>2. CASE ~(run' = Idle /\ chunks' = chunks)
    BY <1>3, <2>2 DEF Seal, Throw, SealsOne
  <2> QED BY <2>1, <2>2
<1>4. CASE ReadPublic \/ ReadPrivate
  BY <1>4 DEF ReadPublic, ReadPrivate
<1>6. CASE BeginFreeze
  BY <1>6 DEF BeginFreeze, Throw
<1>7. CASE SealRoot \/ FinishVerify
  BY <1>1, <1>2, <1>7 DEF SealRoot, FinishVerify, Searches
<1>8. ASSUME Applies, chunks' = chunks,
             \/ run' = Idle \/ run' = run
             \/ \E a \in {"check", "write", "begin", "verify"} : \E k :
                   run' = [run EXCEPT !.at = a, !.next = k]
             \/ \E k : run' = [run EXCEPT !.next = k]
      PROVE  run' = run \/ ~Searches'
  <2>1. ApplyRun
    BY <1>8, RunIs
  <2> QED BY <1>2, <1>8, <2>1 DEF ApplyRun, Applies, Searches
<1>9. CASE Preflight \/ Check \/ BeginApply \/ WriteLedger
  BY <1>1, <1>8, <1>9 DEF Preflight, Check, BeginApply, WriteLedger, Go, Throw, Applies
<1>10. CASE BeginVerify \/ VerifyPublic \/ VerifyPrivate \/ VerifySealed
  BY <1>1, <1>8, <1>10 DEF BeginVerify, VerifyPublic, VerifyPrivate, VerifySealed,
       VerifyStep, Go, Throw, Applies
<1>11. CASE WriteShare
  <2>1. chunks' = chunks /\ (run' = Idle \/ \E k : run' = [run EXCEPT !.next = k])
    BY <1>11, WriteStep DEF Passes, Writes, SetsAside, Advances
  <2>2. Applies
    BY <1>11 DEF WriteShare, Applies
  <2> QED BY <1>1, <1>8, <2>1, <2>2
<1>12. CASE Operator
  BY <1>1, <1>2, <1>12 DEF Operator, StartInventory, StartApply, StartVerify, Crash, Start,
       Supersede, Searches
<1>13. ASSUME NEW o \in Owners, NEW d \in Decks, Create(o, d) PROVE UNCHANGED Jobs
  BY <1>13, CreateStep
<1>14. ASSUME NEW o \in Owners, NEW s \in Shares, Revoke(o, s) PROVE UNCHANGED Jobs
  BY <1>14, RevokeStep
<1>15. CASE Pass
  BY <1>15, <1>1, PassStep DEF Jobs
<1>16. ASSUME NEW s \in Shares, Ttl(s) PROVE UNCHANGED Jobs
  BY <1>16, TtlStep DEF Deletes
<1> QED BY <1>1, <1>3, <1>4, <1>6, <1>7, <1>9, <1>10, <1>11, <1>12, <1>13, <1>14,
           <1>15, <1>16, StepKinds DEF Bookkeeping, Verify, Jobs

\* Every chunk that a job has passed is there.
ChunksSealed == run.at = "seal" => \A i \in 0 .. (run.next - 1) : <<run.inv, i>> \in chunks
\* A job that seals the root has seen every chunk of it.
LEMMA SealKept ==
    ASSUME MigShape, ChunksSealed, SealReadable, [MigNext]_allVars
    PROVE  ChunksSealed' /\ SealReadable'
<1> RunShape
  BY DEF MigShape
<1>1. ChunksSealed'
  <2>1. chunks \subseteq chunks'
    BY SearchStep
  <2>2. CASE run' = run
    BY <2>1, <2>2 DEF ChunksSealed
  <2>3. CASE ReadPrivate
    <3>1. ScanRun
      BY <2>3, RunIs DEF ReadPrivate, Scans
    <3>2. StreamOK(run.pub) /\ StreamOK(PrivNow)
      BY <3>1, ScanNext DEF ScanRun
    <3>3. CASE run.pub.ended /\ PrivNow.ended
      BY <2>3, <3>2, <3>3, ReadPrivateStep DEF ChunksSealed
    <3>4. CASE ~(run.pub.ended /\ PrivNow.ended)
      BY <2>3, <3>1, <3>2, <3>4, ReadPrivateStep DEF ScanRun, ChunksSealed
    <3> QED BY <3>3, <3>4
  <2>5. CASE ReadPublic
    <3>1. ScanRun
      BY <2>5, RunIs DEF ReadPublic, Scans
    <3> QED BY <2>5, <3>1 DEF ReadPublic, ScanRun, ChunksSealed
  <2>6. CASE BeginFreeze
    BY <2>6 DEF BeginFreeze, Throw, Idle, ChunksSealed
  <2>4. CASE SealsOne
    <3>1. SealRun
      BY <2>4, RunIs DEF SealsOne
    <3>2. run'.next = run.next + 1 /\ run'.inv = run.inv
      BY <2>4, <3>1 DEF SealsOne, SealRun
    <3>3. ASSUME NEW i \in 0 .. (run'.next - 1) PROVE <<run'.inv, i>> \in chunks'
      <4>1. i \in 0 .. (run.next - 1) \/ i = run.next
        BY <3>1, <3>2 DEF SealRun
      <4> QED BY <2>1, <2>4, <3>2, <4>1 DEF ChunksSealed, SealsOne
    <3> QED BY <3>3 DEF ChunksSealed
  <2> QED BY <2>2, <2>3, <2>4, <2>5, <2>6, SearchStep DEF ChunksSealed, Searches
<1>2. SealReadable'
  <2>1. chunks \subseteq chunks'
    BY SearchStep
  <2>2. CASE Sealed /\ fence'.inv = run.inv
    BY <2>1, <2>2 DEF Sealed, ChunksSealed, SealReadable
  <2>3. CASE HasInventory /\ fence'.inv = fence.inv
    BY <2>1, <2>3 DEF SealReadable
  <2> QED BY <2>2, <2>3, InventoryKept DEF SealReadable
<1> QED BY <1>1, <1>2

\* A sealed inventory can be read back whole.
THEOREM SealCanBeRead == MigSpec => []SealReadable
<1>1. MigInit => MigShape /\ ChunksSealed /\ SealReadable
  BY ShapeInit DEF MigInit, CallersInit, ChunksSealed, SealReadable, HasInventory, Idle
<1>2. MigShape /\ ChunksSealed /\ SealReadable /\ [MigNext]_allVars
      => MigShape' /\ ChunksSealed' /\ SealReadable'
  BY ShapeKept, SealKept
<1> QED BY <1>1, <1>2, PTL DEF MigSpec

-----------------------------------------------------------------------------
(* What a migrated share keeps of the one before it.                       *)

\* What an apply writes over is either already as it should become, or the
\* documents that were sealed.
LEMMA WriteIs ==
    ASSUME MigShape, NEW e, Writes(e)
    PROVE  /\ EntryOK(e) /\ Copies(e) /\ e \in Entries(run.inv)
           /\ run.inv.scanAt \in Nat /\ e = run.inv.entries[run.next + 1]
           /\ Applied(e, run.inv.scanAt) \/ Unchanged(e)
           /\ TargetShape(e, run.inv.scanAt)
           /\ public' = [public EXCEPT ![e.share] = TargetPublic(e, run.inv.scanAt)]
           /\ private' = [private EXCEPT ![e.share] = TargetPrivate(e, run.inv.scanAt)]
           /\ Applied(e, run.inv.scanAt)'
           /\ \A s \in Shares : s # e.share => public'[s] = public[s] /\ private'[s] = private[s]
<1> RunShape /\ DocsOK
  BY DEF MigShape, DocsOK
<1>1. Advances(e) /\ ApplyRun /\ run.next < Count /\ e = Entry_(run.next)
  BY RunIs DEF Writes, Advances, Applies
<1>2. EntryOK(e) /\ Copies(e) /\ e \in Entries(run.inv)
      /\ run.inv.scanAt \in Nat /\ e = run.inv.entries[run.next + 1]
  BY <1>1, EntryIs DEF Writes
<1>3. Applied(e, run.inv.scanAt) \/ Unchanged(e)
  BY DEF Writes, Advances, Expected
<1>4. TargetShape(e, run.inv.scanAt)
  BY TargetIs
<1>5. /\ public' = [public EXCEPT ![e.share] = TargetPublic(e, run.inv.scanAt)]
      /\ private' = [private EXCEPT ![e.share] = TargetPrivate(e, run.inv.scanAt)]
      /\ run'.inv = run.inv
  BY <1>1 DEF Writes, Advances, ApplyRun
<1> DEFINE p == TargetPublic(e, run.inv.scanAt)
           q == TargetPrivate(e, run.inv.scanAt)
<1>6. /\ public' = [public EXCEPT ![e.share] = p]
      /\ private' = [private EXCEPT ![e.share] = q] /\ e.share \in Shares
  BY <1>2, <1>5 DEF EntryOK
<1>7. Applied(e, run.inv.scanAt)' <=>
         public'[e.share] = p /\ private'[e.share] = q
  BY <1>5 DEF Applied, TargetPublic, TargetPrivate
<1> HIDE DEF p, q
<1>8. /\ public'[e.share] = p /\ private'[e.share] = q
      /\ \A s \in Shares : s # e.share => public'[s] = public[s] /\ private'[s] = private[s]
  BY <1>6 DEF DocsOK
<1> QED BY <1>2, <1>3, <1>4, <1>5, <1>7, <1>8

\* A step that leaves a private document leaves its expiry and its version
\* where they were, or moves the one back and the other on.
LEMMA PrivateStep ==
    ASSUME MigShape, [MigNext]_allVars, NEW s \in Shares,
           private[s] # NoDoc, private'[s] # NoDoc
    PROVE  /\ private'[s].expires <= private[s].expires
           /\ private'[s].version >= private[s].version
<1> RunShape /\ DocsOK
  BY DEF MigShape, DocsOK
<1>1. private[s].expires \in Int /\ private[s].version \in Nat
  BY DEF DocsOK, PrivOK
<1>2. CASE private'[s] = private[s]
  BY <1>1, <1>2
<1>3. ASSUME NEW e, Writes(e)
      PROVE  /\ private'[s].expires <= private[s].expires
             /\ private'[s].version >= private[s].version
  <2> DEFINE at == run.inv.scanAt
  <2>1. /\ EntryOK(e) /\ Copies(e) /\ at \in Nat /\ TargetShape(e, at)
        /\ private' = [private EXCEPT ![e.share] = TargetPrivate(e, at)]
        /\ Applied(e, at) \/ Unchanged(e)
    BY <1>3, WriteIs
  <2>2. CASE s = e.share /\ Unchanged(e)
    <3>1. e.priv = private[s] /\ private'[s] = TargetPrivate(e, at)
      BY <2>1, <2>2 DEF Unchanged, DocsOK
    <3>2. ExpiryOf(e, at) <= e.priv.expires /\ e.priv.version \in {1, 2}
      BY <2>1, <3>1, ExpiryIs
    <3> QED BY <2>1, <3>1, <3>2 DEF TargetShape
  <2>3. CASE s = e.share /\ Applied(e, at)
    BY <1>2, <2>1, <2>3 DEF Applied, DocsOK
  <2>4. CASE s # e.share
    BY <1>2, <1>3, <2>4, WriteIs
  <2> QED BY <2>1, <2>2, <2>3, <2>4
<1>4. CASE WriteShare
  BY <1>2, <1>3, <1>4, WriteStep DEF Passes, SetsAside, Docs
<1>5. ASSUME NEW o \in Owners, NEW d \in Decks, Create(o, d) PROVE private'[s] = private[s]
  <2>1. ASSUME NEW x \in Shares, Creates(x, d, o) PROVE private'[s] = private[s]
    BY <2>1 DEF Creates, DocsOK
  <2> QED BY <1>5, <2>1, CreateStep DEF Docs
<1>6. ASSUME NEW o \in Owners, NEW x \in Shares, Revoke(o, x) PROVE private'[s] = private[s]
  BY <1>6, RevokeStep DEF Revokes, DocsOK
<1>7. CASE Pass
  BY <1>2, <1>7, PassStep DEF Docs
<1>8. ASSUME NEW x \in Shares, Ttl(x) PROVE private'[s] = private[s]
  BY <1>8, TtlStep DEF Deletes, DocsOK
<1>9. CASE Bookkeeping
  BY <1>2, <1>9, BookkeepingStep DEF Docs
<1> QED BY <1>2, <1>4, <1>5, <1>6, <1>7, <1>8, <1>9, StepKinds DEF Docs

\* No job lets a share live longer than its documents said before it, and none
\* gives up what it has written for what it replaced.
THEOREM NeverBackwards == MigSpec => OnlyForward
<1>1. MigInit => MigShape
  BY ShapeInit
<1>2. MigShape /\ [MigNext]_allVars => MigShape'
  BY ShapeKept
<1>3. MigShape /\ [MigNext]_allVars =>
        [\A s \in Shares : private[s] # NoDoc /\ private'[s] # NoDoc =>
          /\ private'[s].expires <= private[s].expires
          /\ private'[s].version >= private[s].version]_allVars
  BY PrivateStep
<1> QED BY <1>1, <1>2, <1>3, PTL DEF MigSpec, OnlyForward

-----------------------------------------------------------------------------
(* Links that worked go on working.                                        *)

\* Until what it was promised has run out, a share that was there before still
\* has its deck: in a document that lasts as long, or in the old one, with the
\* private document it had.
Lives(s) ==
    /\ public[s] # NoDoc /\ public[s].deck = origin[s].pub.deck
    /\ \/ /\ public[s].kind # "legacy"
          /\ \/ public[s].kind = "malformed" /\ public[s].expires = Never
             \/ public[s].expires >= Promised(s)
       \/ /\ public[s] = origin[s].pub /\ public[s].expires = Never
          /\ private[s] = origin[s].priv
Due(s) == origin[s].pub # NoDoc /\ s \notin revoked /\ clock <= Promised(s)
AllLive == origin \in Origins /\ \A s \in Shares : Due(s) => Lives(s)

\* What was promised to a share is a time within a lifetime.
LEMMA PromiseIs ==
    ASSUME origin \in Origins, NEW s \in Shares, origin[s].pub # NoDoc
    PROVE  /\ Promised(s) \in Int /\ Promised(s) <= Lifetime
           /\ origin[s].pub.expires \in Int
           /\ origin[s].pub.expires = Never =>
                 origin[s].pub.kind \in {"legacy", "malformed"}
           /\ origin[s].pub.expires = Never /\ origin[s].priv # NoDoc =>
                 Promised(s) = origin[s].priv.expires
BY OriginsAssumption, TimeAssumption DEF Promised, Never

\* A document that is not touched is as alive as before.
LEMMA StillLives ==
    ASSUME MigShape, AllLive, NEW s \in Shares, Due(s)',
           clock' >= clock, clock' \in Nat, origin' = origin, revoked \subseteq revoked',
           public'[s] = public[s], private'[s] = private[s]
    PROVE  Lives(s)'
<1>1. Promised(s)' = Promised(s) /\ origin[s].pub # NoDoc
  BY DEF Promised, Due
<1>2. Due(s)
  <2>1. Promised(s) \in Int
    BY <1>1, PromiseIs DEF AllLive
  <2> QED BY <1>1, <2>1 DEF Due, MigShape
<1> QED BY <1>1, <1>2 DEF AllLive, Lives

\* An apply lets a share live as long as it was promised.
LEMMA TargetLives ==
    ASSUME MigShape, AllLive, NEW e, Writes(e), Due(e.share)
    PROVE  Lives(e.share)'
<1> DEFINE s == e.share
           at == run.inv.scanAt
           p == TargetPublic(e, at)
<1>1. /\ EntryOK(e) /\ Copies(e) /\ at \in Nat /\ TargetShape(e, at)
      /\ public' = [public EXCEPT ![s] = p]
      /\ private' = [private EXCEPT ![s] = TargetPrivate(e, at)]
      /\ Applied(e, at) \/ Unchanged(e)
  BY WriteIs
<1>2. s \in Shares /\ origin[s].pub # NoDoc /\ Lives(s) /\ origin \in Origins
  BY <1>1 DEF EntryOK, Due, AllLive
<1>3. /\ Promised(s) \in Int /\ Promised(s) <= Lifetime
      /\ clock \in Nat /\ clock <= Promised(s)
      /\ origin[s].pub.expires = Never /\ origin[s].priv # NoDoc =>
            Promised(s) = origin[s].priv.expires
  BY <1>2, PromiseIs DEF MigShape, Due
<1>4. origin' = origin /\ Promised(s)' = Promised(s)
  BY DEF Writes, Advances, History, Promised
<1>5. public'[s] = p /\ private'[s] = TargetPrivate(e, at)
  BY <1>1, <1>2 DEF MigShape
<1>6. CASE Applied(e, at)
  BY <1>2, <1>4, <1>5, <1>6 DEF Applied, Lives
<1>7. CASE Unchanged(e)
  <2>1. e.pub = public[s] /\ e.priv = private[s]
    BY <1>7 DEF Unchanged
  <2>2. /\ e.pub.kind \in {"legacy", "transitional", "current"}
        /\ e.pub # NoDoc /\ e.pub.expires \in Int
        /\ e.priv # NoDoc => e.priv.expires \in Int
    BY <1>1 DEF Copies, Keeps, Migrates, EntryOK, PubOK, PrivOK
  <2>3. Existing(e, at) \in Int /\ Existing(e, at) >= Promised(s)
    <3>1. CASE e.pub.kind # "legacy"
      <4>1. origin[s].pub.expires = Never => origin[s].pub.kind \in {"legacy", "malformed"}
        BY <1>2, PromiseIs
      <4>2. e.pub.expires >= Promised(s)
        BY <1>2, <2>1, <2>2, <3>1, <4>1 DEF Lives
      <4> QED BY <2>2, <3>1, <4>2 DEF Existing
    <3>2. CASE e.pub.kind = "legacy"
      <4>1. public[s] = origin[s].pub /\ public[s].expires = Never
            /\ private[s] = origin[s].priv
        BY <1>2, <2>1, <3>2 DEF Lives
      <4>2. CASE e.priv # NoDoc
        BY <1>3, <2>1, <2>2, <3>2, <4>1, <4>2 DEF Existing
      <4>3. CASE e.priv = NoDoc
        BY <1>1, <1>3, <3>2, <4>3, TimeAssumption DEF Existing
      <4> QED BY <4>2, <4>3
    <3> QED BY <3>1, <3>2
  <2>4. ExpiryOf(e, at) >= Promised(s)
    BY <1>1, <1>3, <2>3, TimeAssumption DEF ExpiryOf, Min2
  <2>5. /\ p # NoDoc /\ p.kind = "current" /\ p.deck = e.pub.deck
        /\ p.expires = ExpiryOf(e, at)
    BY <1>1 DEF TargetShape
  <2> HIDE DEF p
  <2> QED BY <1>2, <1>4, <1>5, <2>1, <2>4, <2>5 DEF Lives
<1> QED BY <1>1, <1>6, <1>7

\* No step takes the life of a share that was promised one.
LEMMA LifeKept ==
    ASSUME MigShape, AllLive, [MigNext]_allVars
    PROVE  AllLive'
<1> DocsOK /\ clock \in Nat
  BY DEF MigShape, DocsOK
<1> SUFFICES origin' = origin /\ \A s \in Shares : Due(s)' => Lives(s)'
  BY DEF AllLive
<1>1. CASE UNCHANGED <<Docs, History>>
  BY <1>1, StillLives DEF Docs, History
<1>2. CASE WriteShare
  <2>1. ASSUME NEW e, Writes(e)
        PROVE  origin' = origin /\ \A s \in Shares : Due(s)' => Lives(s)'
    <3>1. UNCHANGED History
      BY <2>1 DEF Writes, Advances
    <3>2. \A s \in Shares : s # e.share => public'[s] = public[s] /\ private'[s] = private[s]
      BY <2>1, WriteIs
    <3>3. ASSUME NEW s \in Shares, Due(s)', s # e.share PROVE Lives(s)'
      BY <3>1, <3>2, <3>3, StillLives DEF History
    <3>4. ASSUME NEW s \in Shares, Due(s)', s = e.share PROVE Lives(s)'
      <4>1. Due(e.share)
        BY <3>1, <3>4 DEF History, Due, Promised
      <4> QED BY <2>1, <3>4, <4>1, TargetLives
    <3> QED BY <3>1, <3>3, <3>4 DEF History
  <2>2. CASE UNCHANGED <<Docs, History>>
    BY <1>1, <2>2
  <2> QED BY <1>2, <2>1, <2>2, WriteStep DEF Passes, SetsAside, Advances
<1>3. ASSUME NEW o \in Owners, NEW d \in Decks, Create(o, d)
      PROVE  origin' = origin /\ \A s \in Shares : Due(s)' => Lives(s)'
  <2>1. UNCHANGED History
    BY <1>3, CreateStep
  <2>2. ASSUME NEW x \in Shares, Creates(x, d, o), NEW s \in Shares, Due(s)'
        PROVE  Lives(s)'
    <3>1. Due(s)
      BY <2>1, <2>2 DEF History, Due, Promised
    <3>2. public[s] # NoDoc
      BY <3>1 DEF AllLive, Lives
    <3>3. public'[s] = public[s] /\ private'[s] = private[s]
      BY <2>2, <3>2 DEF Creates, DocsOK
    <3> QED BY <2>1, <2>2, <3>3, StillLives DEF History
  <2> QED BY <1>1, <1>3, <2>1, <2>2, CreateStep DEF History
<1>4. ASSUME NEW o \in Owners, NEW x \in Shares, Revoke(o, x)
      PROVE  origin' = origin /\ \A s \in Shares : Due(s)' => Lives(s)'
  <2>1. Revokes(x) /\ UNCHANGED <<clock, origin>>
    BY <1>4, RevokeStep
  <2>2. ASSUME NEW s \in Shares, Due(s)' PROVE Lives(s)'
    <3>1. s # x
      BY <2>1, <2>2 DEF Revokes, Due
    <3>2. public'[s] = public[s] /\ private'[s] = private[s] /\ revoked \subseteq revoked'
      BY <2>1, <3>1 DEF Revokes, DocsOK
    <3> QED BY <2>1, <2>2, <3>2, StillLives
  <2> QED BY <2>1, <2>2
<1>5. CASE Pass
  BY <1>5, PassStep, StillLives DEF Docs
<1>6. ASSUME NEW x \in Shares, Ttl(x)
      PROVE  origin' = origin /\ \A s \in Shares : Due(s)' => Lives(s)'
  <2>1. Deletes(x) /\ UNCHANGED <<clock, origin, revoked>>
    BY <1>6, TtlStep DEF Deletes
  <2>2. ASSUME NEW s \in Shares, Due(s)', s # x PROVE Lives(s)'
    <3>1. public'[s] = public[s] /\ private'[s] = private[s]
      BY <2>1, <2>2 DEF Deletes, DocsOK
    <3> QED BY <2>1, <2>2, <3>1, StillLives
  <2>3. ASSUME NEW s \in Shares, Due(s)', s = x PROVE Lives(s)'
    <3>1. Due(s) /\ Promised(s)' = Promised(s) /\ Lives(s) /\ origin \in Origins
      BY <2>1, <2>3 DEF Due, Promised, AllLive
    <3>2. /\ Promised(s) \in Int /\ clock <= Promised(s)
          /\ origin[s].pub.expires = Never /\ origin[s].priv # NoDoc =>
                Promised(s) = origin[s].priv.expires
      BY <3>1, PromiseIs DEF Due
    <3>3. public[s] # NoDoc => public[s].expires \in Int
      BY DEF DocsOK, PubOK
    <3>4. ~Expired(public[s])
      BY <3>1, <3>2, <3>3 DEF Lives, Expired, Never
    <3>5. /\ Expired(private[s]) /\ public' = public
          /\ private' = [private EXCEPT ![s] = NoDoc]
      BY <2>1, <2>3, <3>4 DEF Deletes
    <3>6. private[s].expires \in Int /\ private[s] # NoDoc /\ private[s].expires < clock
      BY <3>5 DEF Expired, DocsOK, PrivOK
    <3>7. ~(public[s] = origin[s].pub /\ public[s].expires = Never
            /\ private[s] = origin[s].priv)
      BY <3>2, <3>6
    <3> QED BY <2>1, <3>1, <3>5, <3>7 DEF Lives
  <2> QED BY <2>1, <2>2, <2>3
<1>7. CASE Bookkeeping
  BY <1>1, <1>7, BookkeepingStep
<1> QED BY <1>1, <1>2, <1>3, <1>4, <1>5, <1>6, <1>7, StepKinds

\* At the start every share lives as its documents say.
LEMMA LifeInit == MigInit => AllLive
<1> SUFFICES ASSUME MigInit PROVE AllLive
  OBVIOUS
<1>1. /\ clock = 0 /\ origin \in Origins
      /\ public = [s \in Shares |-> origin[s].pub]
      /\ private = [s \in Shares |-> origin[s].priv]
  BY DEF MigInit, CallersInit
<1>2. ASSUME NEW s \in Shares, Due(s) PROVE Lives(s)
  <2>1. origin[s].pub # NoDoc /\ public[s] = origin[s].pub /\ private[s] = origin[s].priv
    BY <1>1, <1>2 DEF Due
  <2>2. /\ public[s].expires \in Int
        /\ public[s].kind = "legacy" => public[s].expires = Never
        /\ public[s].expires = Never => public[s].kind \in {"legacy", "malformed"}
    BY <1>1, <2>1, OriginsAssumption
  <2>3. CASE public[s].expires = Never
    BY <2>1, <2>3 DEF Lives
  <2>4. CASE public[s].expires # Never
    <3>1. Promised(s) = public[s].expires
      BY <2>1, <2>4 DEF Promised
    <3> QED BY <2>1, <2>2, <2>4, <3>1 DEF Lives
  <2> QED BY <2>3, <2>4
<1> QED BY <1>1, <1>2 DEF AllLive

\* A link that worked before the migration opens the same deck until the share
\* expires or its owner revokes it, whatever jobs ran, threw or died.
THEOREM LinksGoOnWorking == MigSpec => []DecksSurvive
<1>1. MigInit => MigShape /\ AllLive
  BY ShapeInit, LifeInit
<1>2. MigShape /\ AllLive /\ [MigNext]_allVars => MigShape' /\ AllLive'
  BY ShapeKept, LifeKept
<1>3. MigShape /\ AllLive => DecksSurvive
  <2> SUFFICES ASSUME MigShape, AllLive, NEW s \in Shares, origin[s].pub # NoDoc
               PROVE  \/ public[s] # NoDoc /\ public[s].deck = origin[s].pub.deck
                      \/ s \in revoked \/ clock > Promised(s)
    BY DEF DecksSurvive
  <2>1. Promised(s) \in Int /\ clock \in Nat
    BY PromiseIs DEF AllLive, MigShape
  <2> QED BY <2>1 DEF AllLive, Due, Lives
<1> QED BY <1>1, <1>2, <1>3, PTL DEF MigSpec

-----------------------------------------------------------------------------
(* The cutover.                                                            *)

\* A share of which nothing is left to migrate.
Settled(s) ==
    LET p == public[s]
        q == private[s]
    IN \/ p # NoDoc /\ q # NoDoc /\ Pair(p, q)
       \/ p # NoDoc /\ q = NoDoc /\ p.kind = "current" /\ p.expires < clock
       \/ p = NoDoc /\ q # NoDoc /\ q.version = 2 /\ q.expires < clock
       \/ quarantine[s] # NoDoc /\ {p, q} \subseteq
             {NoDoc, quarantine[s].pub, quarantine[s].priv}
Clear(s) == public[s] # NoDoc \/ private[s] # NoDoc => Settled(s)
CutoverSoFar ==
    /\ fence # NoDoc /\ fence.verifying => \A s \in Shares :
          /\ public[s] # NoDoc /\ (fence.pubEnded \/ s <= fence.pub) => Settled(s)
          /\ private[s] # NoDoc /\ (fence.privEnded \/ s <= fence.priv) => Settled(s)
    /\ fence # NoDoc /\ fence.phase = "verified" /\ ~fence.verifying =>
          \A s \in Shares : Clear(s)

\* What the verification accepts is settled.
LEMMA VerifiedIs ==
    ASSUME NEW s, Verified(s)
    PROVE  Settled(s)
<1> DEFINE e == EntryOf(run.inv, s)
           at == run.inv.scanAt
<1>1. e \in Entries(run.inv) /\ e.share = s
  BY Zenon DEF Verified, Listed, EntryOf
<1> HIDE DEF e
<1>2. IF Quarantines(e.pub, e.priv, at) THEN Unchanged(e) /\ Copied(e) ELSE Applied(e, at)
  BY DEF Verified, e
<1>3. CASE Quarantines(e.pub, e.priv, at)
  <2>1. /\ quarantine[s] = [pub |-> e.pub, priv |-> e.priv]
        /\ public[s] = e.pub /\ private[s] = e.priv
    BY <1>1, <1>2, <1>3 DEF Unchanged, Copied
  <2>2. quarantine[s] # NoDoc
    BY <2>1 DEF NoDoc
  <2> QED BY <2>1, <2>2 DEF Settled
<1>4. CASE ~Quarantines(e.pub, e.priv, at)
  <2>1. public[s] = TargetPublic(e, at) /\ private[s] = TargetPrivate(e, at)
    BY <1>1, <1>2, <1>4 DEF Applied
  <2>2. TargetShape(e, at)
    BY TargetIs
  <2> QED BY <2>1, <2>2 DEF TargetShape, Settled, Pair, SameTimes
<1> QED BY <1>3, <1>4

\* A step that does not write over a share leaves what was settled settled, and
\* while the callables are closed it makes no document.
LEMMA ClearKept ==
    ASSUME MigShape, [MigNext]_allVars, NEW s \in Shares,
           ~\E e : Writes(e) \/ SetsAside(e)
    PROVE  /\ Settled(s) => Clear(s)'
           /\ Clear(s) => Clear(s)'
           /\ ~FenceOpen => /\ public'[s] \in {public[s], NoDoc}
                            /\ private'[s] \in {private[s], NoDoc}
<1> DocsOK /\ clock \in Nat
  BY DEF MigShape, DocsOK
<1>0. /\ public[s] # NoDoc => public[s].expires \in Int
      /\ private[s] # NoDoc => private[s].expires \in Int
  BY DEF DocsOK, PubOK, PrivOK
<1> SUFFICES /\ Settled(s) => Clear(s)'
             /\ public[s] = NoDoc /\ private[s] = NoDoc => Clear(s)'
             /\ ~FenceOpen => /\ public'[s] \in {public[s], NoDoc}
                              /\ private'[s] \in {private[s], NoDoc}
  BY DEF Clear
<1>1. ASSUME public'[s] = public[s], private'[s] = private[s], quarantine' = quarantine,
             clock' \in Nat, clock' >= clock
      PROVE  Settled(s) => Settled(s)'
  BY <1>0, <1>1 DEF Settled
<1>2. CASE UNCHANGED <<Docs, quarantine>> /\ clock' \in Nat /\ clock' >= clock
  BY <1>1, <1>2 DEF Docs, Clear
<1>3. CASE WriteShare
  BY <1>2, <1>3, WriteStep DEF Passes, History
<1>4. ASSUME NEW o \in Owners, NEW d \in Decks, Create(o, d)
      PROVE  /\ Settled(s) => Clear(s)'
             /\ public[s] = NoDoc /\ private[s] = NoDoc => Clear(s)'
             /\ ~FenceOpen => public'[s] = public[s] /\ private'[s] = private[s]
  <2>1. UNCHANGED <<quarantine, clock>> /\ clock' \in Nat /\ clock' >= clock
    BY <1>4, CreateStep DEF Jobs, History
  <2>2. ASSUME NEW x \in Shares, Creates(x, d, o)
        PROVE  FenceOpen /\ (Settled(s) => Clear(s)')
               /\ (public[s] = NoDoc /\ private[s] = NoDoc => Clear(s)')
    <3>1. CASE s # x
      <4>1. public'[s] = public[s] /\ private'[s] = private[s]
        BY <2>2, <3>1 DEF Creates, DocsOK
      <4> QED BY <1>1, <2>1, <2>2, <4>1 DEF Clear, Creates
    <3>2. CASE s = x
      <4>1. /\ public'[s] = SharePublic(d, clock, clock + Lifetime)
            /\ private'[s] = SharePrivate(o, d, clock, clock + Lifetime)
        BY <2>2, <3>2 DEF Creates, DocsOK
      <4>2. Pair(public'[s], private'[s]) /\ public'[s] # NoDoc /\ private'[s] # NoDoc
        BY <4>1 DEF SharePublic, SharePrivate, PublicDoc, PrivateDoc, Pair, SameTimes, NoDoc
      <4> QED BY <2>2, <4>2 DEF Creates, Settled, Clear
    <3> QED BY <3>1, <3>2
  <2> QED BY <1>2, <1>4, <2>1, <2>2, CreateStep DEF Docs
<1>5. ASSUME NEW o \in Owners, NEW x \in Shares, Revoke(o, x)
      PROVE  /\ Settled(s) => Clear(s)'
             /\ public[s] = NoDoc /\ private[s] = NoDoc => Clear(s)'
             /\ public'[s] \in {public[s], NoDoc} /\ private'[s] \in {private[s], NoDoc}
  <2>1. Revokes(x) /\ UNCHANGED <<quarantine, clock>> /\ clock' \in Nat /\ clock' >= clock
    BY <1>5, RevokeStep DEF Jobs
  <2>2. CASE s # x
    <3>1. public'[s] = public[s] /\ private'[s] = private[s]
      BY <2>1, <2>2 DEF Revokes, DocsOK
    <3> QED BY <1>1, <2>1, <3>1 DEF Clear
  <2>3. CASE s = x
    <3>1. public'[s] = NoDoc /\ private'[s] = NoDoc
      BY <2>1, <2>3 DEF Revokes, DocsOK
    <3> QED BY <3>1 DEF Clear
  <2> QED BY <2>2, <2>3
<1>6. CASE Pass
  BY <1>2, <1>6, PassStep DEF Docs, Jobs
<1>7. ASSUME NEW x \in Shares, Ttl(x)
      PROVE  /\ Settled(s) => Clear(s)'
             /\ public[s] = NoDoc /\ private[s] = NoDoc => Clear(s)'
             /\ public'[s] \in {public[s], NoDoc} /\ private'[s] \in {private[s], NoDoc}
  <2>1. Deletes(x) /\ UNCHANGED <<quarantine, clock>> /\ clock' \in Nat /\ clock' >= clock
    BY <1>7, TtlStep DEF Jobs, Deletes
  <2>2. CASE public'[s] = public[s] /\ private'[s] = private[s]
    BY <1>1, <2>1, <2>2 DEF Clear
  <2>3. CASE /\ Expired(public[s])
             /\ public'[s] = NoDoc /\ private'[s] = private[s]
    <3>1. public[s] # NoDoc /\ public[s].expires < clock
      BY <2>3 DEF Expired
    <3>2. Settled(s) => Clear(s)'
      BY <1>0, <2>1, <2>3, <3>1 DEF Settled, Clear, Pair, SameTimes
    <3> QED BY <2>3, <3>1, <3>2
  <2>4. CASE /\ Expired(private[s])
             /\ private'[s] = NoDoc /\ public'[s] = public[s]
    <3>1. private[s] # NoDoc /\ private[s].expires < clock
      BY <2>4 DEF Expired
    <3>2. Settled(s) => Clear(s)'
      BY <1>0, <2>1, <2>4, <3>1 DEF Settled, Clear, Pair, SameTimes
    <3> QED BY <2>4, <3>1, <3>2
  <2>5. \/ public'[s] = public[s] /\ private'[s] = private[s]
        \/ Expired(public[s]) /\ public'[s] = NoDoc /\ private'[s] = private[s]
        \/ Expired(private[s]) /\ private'[s] = NoDoc /\ public'[s] = public[s]
    BY <2>1 DEF Deletes, DocsOK
  <2> QED BY <2>2, <2>3, <2>4, <2>5
<1>8. CASE Bookkeeping
  BY <1>2, <1>8, BookkeepingStep DEF Docs, History
<1>9. CASE UNCHANGED <<Docs, Jobs, History>>
  BY <1>2, <1>9 DEF Docs, Jobs, History
<1> QED BY <1>2, <1>3, <1>4, <1>5, <1>6, <1>7, <1>8, <1>9, StepKinds DEF Docs, History


\* How a verification gets on: it is where it was, it starts, or it reads a page.
LEMMA VerifyingStep ==
    ASSUME MigShape, [MigNext]_allVars, fence' # NoDoc
    PROVE  /\ fence'.verifying =>
                 /\ fence # NoDoc
                 /\ \/ Verifying
                    \/ fence.verifying /\ (fence' = fence \/ ReadsPub \/ ReadsPriv \/ ReadsSealed)
           /\ fence'.phase = "verified" /\ ~fence'.verifying =>
                 fence # NoDoc /\ (fence' = fence \/ Finished)
<1> RunShape /\ (fence # NoDoc => FenceShape)
  BY DEF MigShape
<1>1. CASE fence' = fence
  BY <1>1
<1>2. ASSUME NEW rev, NEW at, Fresh(rev, at)
      PROVE  ~fence'.verifying /\ fence'.phase # "verified"
  BY <1>2 DEF Fresh, Fence
<1>3. ASSUME fence # NoDoc, (\E k : Sealing(k)) \/ Sealed \/ Superseded \/ Applying
                            \/ Progress \/ Applied_
      PROVE  ~fence'.verifying /\ fence'.phase # "verified"
  <2>1. FenceShape
    BY <1>3
  <2>2. fence.phase \notin {"applied", "verified"} /\ ~fence.verifying
    BY <1>3, <2>1 DEF Sealing, Sealed, Superseded, Applying, Progress, Applied_, FenceShape
  <2>3. /\ \A F : Changes(F) /\ "verifying" \notin F => fence'.verifying = fence.verifying
        /\ \A F : Changes(F) /\ "phase" \notin F => fence'.phase = fence.phase
    BY DEF Changes, FenceFields
  <2>4. fence'.verifying = fence.verifying
    BY <1>3, <2>1, <2>3, FenceChange
  <2>5. fence'.phase # "verified"
    BY <1>3, <2>1, <2>2, <2>3, FenceChange
  <2> QED BY <2>2, <2>4, <2>5
<1>4. ASSUME fence # NoDoc, Verifying PROVE fence'.verifying
  BY <1>4, FenceChange
<1>5. ASSUME fence # NoDoc, ReadsPub \/ ReadsPriv \/ ReadsSealed
      PROVE  fence.verifying /\ fence'.verifying
  <2>1. FenceShape /\ fence.verifying
    BY <1>5 DEF ReadsPub, ReadsPriv, ReadsSealed
  <2>2. \A F : Changes(F) /\ "verifying" \notin F => fence'.verifying = fence.verifying
    BY DEF Changes, FenceFields
  <2> QED BY <1>5, <2>1, <2>2, FenceChange
<1>6. ASSUME fence # NoDoc, Finished PROVE ~fence'.verifying
  BY <1>6, FenceChange
<1> QED BY <1>1, <1>2, <1>3, <1>4, <1>5, <1>6, FenceStep DEF FenceSteps

\* What a verification has passed stays settled while the callables are closed,
\* and what they do after it leaves nothing unsettled.
LEMMA CutoverKept ==
    ASSUME MigShape, CutoverSoFar, [MigNext]_allVars
    PROVE  CutoverSoFar'
<1> RunShape /\ (fence # NoDoc => FenceShape)
  BY DEF MigShape
<1>1. CASE \E e : Writes(e) \/ SetsAside(e)
  <2>1. ApplyRun /\ fence.phase = "applying" /\ fence' = [fence EXCEPT !.next = run.next + 1]
    BY <1>1, RunIs DEF Writes, SetsAside, Advances, Applies
  <2>2. FenceShape
    BY <2>1 DEF ApplyRun
  <2>3. ~fence.verifying
    BY <2>1, <2>2 DEF FenceShape
  <2>4. fence'.phase = "applying" /\ fence'.verifying = fence.verifying
    BY <2>1, <2>2 DEF FenceShape, FenceFields
  <2> QED BY <2>3, <2>4 DEF CutoverSoFar
<1>2. CASE ~\E e : Writes(e) \/ SetsAside(e)
  <2>1. \A s \in Shares : /\ Settled(s) => Clear(s)'
                          /\ Clear(s) => Clear(s)'
                          /\ ~FenceOpen => /\ public'[s] \in {public[s], NoDoc}
                                           /\ private'[s] \in {private[s], NoDoc}
    BY <1>2, ClearKept
  <2>2. ASSUME fence' # NoDoc, fence'.verifying, NEW s \in Shares
        PROVE  /\ public'[s] # NoDoc /\ (fence'.pubEnded \/ s <= fence'.pub) => Settled(s)'
               /\ private'[s] # NoDoc /\ (fence'.privEnded \/ s <= fence'.priv) => Settled(s)'
    <3> FenceShape /\ s \in Nat \ {0}
      BY <2>2, VerifyingStep, OrderAssumption
    <3>1. CASE Verifying
      <4>1. ~fence'.pubEnded /\ ~fence'.privEnded /\ fence'.pub = 0 /\ fence'.priv = 0
        BY <3>1, FenceChange
      <4> QED BY <4>1
    <3>2. CASE ~Verifying
      <4>1. fence # NoDoc /\ fence.verifying /\ ~FenceOpen
            /\ (fence' = fence \/ ReadsPub \/ ReadsPriv \/ ReadsSealed)
        BY <2>2, <3>2, VerifyingStep DEF FenceOpen
      <4>2. /\ public'[s] # NoDoc => public[s] # NoDoc
            /\ private'[s] # NoDoc => private[s] # NoDoc
        BY <2>1, <4>1
      <4>3. /\ public[s] # NoDoc /\ (fence.pubEnded \/ s <= fence.pub) => Settled(s)
            /\ private[s] # NoDoc /\ (fence.privEnded \/ s <= fence.priv) => Settled(s)
        BY <4>1 DEF CutoverSoFar
      <4>4. SUFFICES /\ public[s] # NoDoc /\ (fence'.pubEnded \/ s <= fence'.pub) => Settled(s)
                     /\ private[s] # NoDoc /\ (fence'.privEnded \/ s <= fence'.priv) => Settled(s)
        BY <2>1, <4>2 DEF Clear
      <4>5. CASE fence' = fence
        BY <4>3, <4>5
      <4>6. CASE ReadsSealed
        <5>1. /\ fence'.pub = fence.pub /\ fence'.pubEnded = fence.pubEnded
              /\ fence'.priv = fence.priv /\ fence'.privEnded = fence.privEnded
          BY <4>6, FenceChange DEF Changes, FenceFields
        <5> QED BY <4>3, <5>1
      <4>7. CASE ReadsPub
        <5>1. /\ fence'.priv = fence.priv /\ fence'.privEnded = fence.privEnded
              /\ fence'.pub = LastOf(PubPage, fence.pub) /\ ~fence.pubEnded
              /\ fence'.pubEnded = (Cardinality(PubPage) < VerifyDocs)
          BY <4>7, FenceChange DEF Changes, FenceFields, ReadsPub
        <5>2. ASSUME public[s] # NoDoc, fence'.pubEnded \/ s <= fence'.pub PROVE Settled(s)
          <6>1. fence.pub \in Nat /\ VerifyDocs \in Nat \ {0} /\ s \in Some(public)
            BY <5>2, PageAssumption DEF FenceShape, Some
          <6>2. /\ \A x \in Some(public) : x > fence.pub /\ x <= LastOf(PubPage, fence.pub)
                                          => x \in PubPage
                /\ Cardinality(PubPage) < VerifyDocs =>
                      \A x \in Some(public) : x > fence.pub => x \in PubPage
            BY <6>1, SomeIs, PageIs DEF PubPage
          <6>3. s <= fence.pub \/ s \in PubPage
            <7>1. CASE fence'.pubEnded
              <8>1. Cardinality(PubPage) < VerifyDocs
                BY <5>1, <7>1
              <8> QED BY <6>1, <6>2, <8>1
            <7>2. CASE s <= fence'.pub
              BY <5>1, <6>1, <6>2, <7>2
            <7> QED BY <5>2, <7>1, <7>2
          <6> QED BY <4>3, <4>7, <5>2, <6>3, VerifiedIs DEF ReadsPub
        <5> QED BY <4>3, <5>1, <5>2
      <4>8. CASE ReadsPriv
        <5>1. /\ fence'.pub = fence.pub /\ fence'.pubEnded = fence.pubEnded
              /\ fence'.priv = LastOf(PrivPage, fence.priv) /\ ~fence.privEnded
              /\ fence'.privEnded = (Cardinality(PrivPage) < VerifyDocs)
          BY <4>8, FenceChange DEF Changes, FenceFields, ReadsPriv
        <5>2. ASSUME private[s] # NoDoc, fence'.privEnded \/ s <= fence'.priv PROVE Settled(s)
          <6>1. fence.priv \in Nat /\ VerifyDocs \in Nat \ {0} /\ s \in Some(private)
            BY <5>2, PageAssumption DEF FenceShape, Some
          <6>2. /\ \A x \in Some(private) : x > fence.priv /\ x <= LastOf(PrivPage, fence.priv)
                                           => x \in PrivPage
                /\ Cardinality(PrivPage) < VerifyDocs =>
                      \A x \in Some(private) : x > fence.priv => x \in PrivPage
            BY <6>1, SomeIs, PageIs DEF PrivPage
          <6>3. s <= fence.priv \/ s \in PrivPage
            <7>1. CASE fence'.privEnded
              <8>1. Cardinality(PrivPage) < VerifyDocs
                BY <5>1, <7>1
              <8> QED BY <6>1, <6>2, <8>1
            <7>2. CASE s <= fence'.priv
              BY <5>1, <6>1, <6>2, <7>2
            <7> QED BY <5>2, <7>1, <7>2
          <6> QED BY <4>3, <4>8, <5>2, <6>3, VerifiedIs DEF ReadsPriv
        <5> QED BY <4>3, <5>1, <5>2
      <4> QED BY <4>1, <4>5, <4>6, <4>7, <4>8
    <3> QED BY <3>1, <3>2
  <2>3. ASSUME fence' # NoDoc, fence'.phase = "verified", ~fence'.verifying, NEW s \in Shares
        PROVE  Clear(s)'
    <3>1. fence # NoDoc /\ (fence' = fence \/ Finished)
      BY <2>3, VerifyingStep
    <3>2. CASE fence' = fence
      BY <2>1, <2>3, <3>1, <3>2 DEF CutoverSoFar
    <3>3. CASE Finished
      BY <2>1, <3>1, <3>3 DEF CutoverSoFar, Finished, Clear
    <3> QED BY <3>1, <3>2, <3>3
  <2> QED BY <2>2, <2>3 DEF CutoverSoFar
<1> QED BY <1>1, <1>2

\* When the callables open again no share of an old kind is left: whatever is
\* in the two collections is a complete pair, half of a pair that has expired,
\* or was copied aside.
THEOREM NothingOldIsLeft == MigSpec => []CutoverComplete
<1>1. MigInit => MigShape /\ CutoverSoFar
  BY ShapeInit DEF MigInit, CallersInit, CutoverSoFar
<1>2. MigShape /\ CutoverSoFar /\ [MigNext]_allVars => MigShape' /\ CutoverSoFar'
  BY ShapeKept, CutoverKept
<1>3. CutoverSoFar => CutoverComplete
  <2> SUFFICES ASSUME CutoverSoFar, HasInventory, FenceOpen,
                      NEW s \in Some(public) \cup Some(private)
               PROVE  Settled(s)
    BY DEF CutoverComplete, Settled
  <2> QED BY DEF HasInventory, FenceOpen, CutoverSoFar, Some, Clear
<1> QED BY <1>1, <1>2, <1>3, PTL DEF MigSpec

-----------------------------------------------------------------------------
(* What is sealed is what there is.                                        *)

\* While the callables are closed and nothing expires, only an apply touches
\* the documents.
Quiet == UNCHANGED <<Docs, quarantine>>
\* A step behind the fence is quiet or it is a write of the apply.
LEMMA ClosedStep ==
    ASSUME MigShape, [MigNext]_allVars, ~FenceOpen, ~lost'
    PROVE  ~lost /\ (Quiet \/ \E e : Writes(e) \/ SetsAside(e))
<1>1. CASE UNCHANGED <<Docs, Jobs, History>>
  BY <1>1 DEF Docs, Jobs, History, Quiet
<1>2. CASE Bookkeeping
  BY <1>2, BookkeepingStep DEF History, Quiet
<1>3. CASE WriteShare
  <2>1. Passes => ~lost /\ Quiet
    BY DEF Passes, History, Docs, Quiet
  <2>2. ASSUME NEW e, Writes(e) \/ SetsAside(e) PROVE ~lost
    BY <2>2 DEF Writes, SetsAside, Advances, History
  <2> QED BY <1>3, <2>1, <2>2, WriteStep
<1>4. ASSUME NEW o \in Owners, NEW d \in Decks, Create(o, d) PROVE ~lost /\ Quiet
  BY <1>4, CreateStep DEF Creates, Jobs, History, Quiet
<1>5. ASSUME NEW o \in Owners, NEW x \in Shares, Revoke(o, x) PROVE FALSE
  BY <1>5, RevokeStep DEF Revokes
<1>6. CASE Pass
  BY <1>6, PassStep DEF Jobs, Docs, Quiet
<1>7. ASSUME NEW x \in Shares, Ttl(x) PROVE FALSE
  BY <1>7, TtlStep DEF Deletes
<1> QED BY <1>1, <1>2, <1>3, <1>4, <1>5, <1>6, <1>7, StepKinds

\* Nothing that was lost is found.
LEMMA LostStays ==
    ASSUME [MigNext]_allVars, ~lost'
    PROVE  ~lost
<1>1. ASSUME NEW o \in Owners, NEW d \in Decks, Create(o, d) PROVE lost' = lost
  BY <1>1, CreateStep DEF History
<1>2. ASSUME NEW o \in Owners, NEW x \in Shares, Revoke(o, x) PROVE lost' = lost
  BY <1>2, RevokeStep
<1>3. ASSUME NEW x \in Shares, Ttl(x) PROVE lost => lost'
  BY <1>3, TtlStep DEF Deletes
<1>4. WriteShare \/ Bookkeeping \/ Pass \/ UNCHANGED <<Docs, Jobs, History>> => lost' = lost
  BY WriteStep, BookkeepingStep, PassStep DEF Passes, Writes, SetsAside, Advances, History
<1> QED BY <1>1, <1>2, <1>3, <1>4, StepKinds

\* A job that scans or seals does so behind a fence that was not applied yet,
\* and no share is written before the apply.
Frozen == fence # NoDoc /\ fence.phase \in {"frozen", "sealing", "sealed"}
BeforeApply == /\ Searches => Frozen
               /\ Frozen => fence.next = 0
\* A fence under a scan stays one that was not applied.
LEMMA BeforeKept ==
    ASSUME MigShape, BeforeApply, [MigNext]_allVars
    PROVE  BeforeApply'
<1> RunShape /\ (fence # NoDoc => FenceShape)
  BY DEF MigShape
<1>1. Frozen' => fence'.next = 0
  <2> SUFFICES ASSUME Frozen' PROVE fence'.next = 0
    OBVIOUS
  <2>1. CASE fence' = fence
    BY <2>1 DEF BeforeApply, Frozen
  <2>2. ASSUME NEW rev, NEW at, Fresh(rev, at) PROVE fence'.next = 0
    BY <2>2 DEF Fresh, Fence
  <2>3. ASSUME fence # NoDoc, (\E k : Sealing(k)) \/ Sealed PROVE fence'.next = 0
    <3>1. FenceShape /\ Frozen
      BY <2>3 DEF Sealing, Sealed, Frozen
    <3>2. \A F : Changes(F) /\ "next" \notin F => fence'.next = fence.next
      BY DEF Changes, FenceFields
    <3>3. fence'.next = fence.next
      BY <2>3, <3>1, <3>2, FenceChange
    <3> QED BY <3>1, <3>3 DEF BeforeApply
  <2>4. ASSUME fence # NoDoc, Superseded \/ Applying \/ Applied_ \/ Finished PROVE FALSE
    BY <2>4, FenceChange DEF Frozen
  <2>5. ASSUME fence # NoDoc, Progress \/ Verifying \/ ReadsPub \/ ReadsPriv \/ ReadsSealed
        PROVE  FALSE
    <3>1. FenceShape /\ fence.phase \notin {"frozen", "sealing", "sealed"}
      BY <2>5 DEF Progress, Verifying, ReadsPub, ReadsPriv, ReadsSealed, Validating
    <3>2. \A F : Changes(F) /\ "phase" \notin F => fence'.phase = fence.phase
      BY DEF Changes, FenceFields
    <3>3. fence'.phase = fence.phase
      BY <2>5, <3>1, <3>2, FenceChange
    <3> QED BY <3>1, <3>3 DEF Frozen
  <2> QED BY <2>1, <2>2, <2>3, <2>4, <2>5, FenceStep DEF FenceSteps
<1>2. Searches' => Frozen'
  <2> SUFFICES ASSUME Searches' PROVE Frozen'
    OBVIOUS
  <2>1. CASE BeginFreeze
    <3>1. Idle.at \notin {"public", "private", "seal"}
      BY DEF Idle
    <3> QED BY <2>1, <3>1 DEF BeginFreeze, Throw, Fence, Frozen, NoDoc, Searches
  <2>2. CASE ReadPublic \/ ReadPrivate
    BY <2>2 DEF ReadPublic, ReadPrivate, BeforeApply, Searches, Frozen
  <2>3. CASE Searches
    <3>1. Frozen /\ FenceShape /\ ~NoJob /\ run.at # "check"
      <4>1. Idle.at \notin {"public", "private", "seal"} /\ Died.at \notin {"public", "private", "seal"}
        BY DEF Idle, Died
      <4> QED BY <2>3, <4>1 DEF BeforeApply, Searches, Frozen, NoJob
    <3>2. CASE fence' = fence
      BY <3>1, <3>2 DEF Frozen
    <3>3. ~\E rev, at : Fresh(rev, at)
      BY <3>1 DEF Fresh, Frozen
    <3>4. ~(Superseded \/ Applying \/ Progress \/ Applied_)
      BY <3>1 DEF Frozen, Superseded, Applying, Progress, Applied_
    <3>5. ~(Verifying \/ ReadsPub \/ ReadsPriv \/ ReadsSealed \/ Finished)
      BY <3>1 DEF Frozen, Verifying, ReadsPub, ReadsPriv, ReadsSealed, Finished, Validating
    <3>6. (\E k : Sealing(k)) \/ Sealed => Frozen'
      BY <3>1, FenceKept, FenceChange DEF Frozen
    <3> QED BY <3>2, <3>3, <3>4, <3>5, <3>6, FenceStep DEF FenceSteps
  <2>4. SealsOne => Searches
    BY DEF SealsOne, Searches
  <2>5. run' = run => Searches
    BY DEF Searches
  <2> QED BY <2>1, <2>2, <2>3, <2>4, <2>5, SearchStep
<1> QED BY <1>1, <1>2 DEF BeforeApply

\* What a scan has of a collection, beside the shares it has decided: every
\* document it has been read past, as it is now.
In(t, s) == \E i \in 1 .. Len(t) : t[i].share = s
Distinct(t) == \A i, j \in 1 .. Len(t) : t[i].share = t[j].share => i = j
Scanned(x, docs, t) == \A s \in Shares :
    /\ s \in DOMAIN x.buffer <=> docs[s] # NoDoc /\ Seen(x, s) /\ ~In(t, s)
    /\ s \in DOMAIN x.buffer => x.buffer[s] = docs[s]
Past(x, t) == \A s \in Shares : In(t, s) => Seen(x, s)
Faithful(t) ==
    /\ Distinct(t)
    /\ \A i \in 1 .. Len(t) :
          Unchanged(t[i]) /\ (public[t[i].share] # NoDoc \/ private[t[i].share] # NoDoc)
Exact(t) ==
    /\ Faithful(t)
    /\ \A s \in Shares : public[s] # NoDoc \/ private[s] # NoDoc => In(t, s)

\* Reading on keeps all that.
LEMMA ReadOn ==
    ASSUME NEW x, StreamOK(x), NEW docs, NEW t, Scanned(x, docs, t), Past(x, t)
    PROVE  Scanned(NextPage(x, docs), docs, t) /\ Past(NextPage(x, docs), t)
<1> DEFINE y == NextPage(x, docs)
<1>1. /\ \A s \in DOMAIN y.buffer :
            y.buffer[s] = IF s \in DOMAIN x.buffer THEN x.buffer[s] ELSE docs[s]
      /\ \A s \in Shares : Seen(x, s) => Seen(y, s)
      /\ \A s \in Shares : s \in DOMAIN y.buffer <=>
            \/ s \in DOMAIN x.buffer
            \/ docs[s] # NoDoc /\ Seen(y, s) /\ ~Seen(x, s)
  BY NextPageIs
<1> HIDE DEF y
<1>2. Past(y, t)
  BY <1>1 DEF Past
<1>3. Scanned(y, docs, t)
  <2> SUFFICES ASSUME NEW s \in Shares
               PROVE  /\ s \in DOMAIN y.buffer <=> docs[s] # NoDoc /\ Seen(y, s) /\ ~In(t, s)
                      /\ s \in DOMAIN y.buffer => y.buffer[s] = docs[s]
    BY DEF Scanned
  <2>1. /\ s \in DOMAIN x.buffer <=> docs[s] # NoDoc /\ Seen(x, s) /\ ~In(t, s)
        /\ s \in DOMAIN x.buffer => x.buffer[s] = docs[s]
        /\ In(t, s) => Seen(x, s)
    BY DEF Scanned, Past
  <2> QED BY <1>1, <2>1
<1> QED BY <1>2, <1>3 DEF y

\* What is decided is decided as it is.
LEMMA DecidedIs ==
    ASSUME MigShape, ScanRun, Faithful(run.entries),
           Scanned(run.pub, public, run.entries), Past(run.pub, run.entries),
           Scanned(PrivNow, private, run.entries), Past(PrivNow, run.entries)
    PROVE  LET all == run.entries \o News
           IN /\ Faithful(all)
              /\ Scanned(Rest(run.pub), public, all) /\ Past(Rest(run.pub), all)
              /\ Scanned(Rest(PrivNow), private, all) /\ Past(Rest(PrivNow), all)
              /\ run.pub.ended /\ PrivNow.ended => Exact(all)
<1> DEFINE all == run.entries \o News
           n == Len(run.entries)
<1>1. StreamOK(run.pub) /\ StreamOK(PrivNow)
  BY ScanNext DEF ScanRun
<1>2. /\ IsList(News) /\ Whole \subseteq Shares
      /\ \A i \in 1 .. Len(News) : \E s \in Whole : News[i] = EntryFor(s)
      /\ \A s \in Whole : \E i \in 1 .. Len(News) : News[i] = EntryFor(s)
      /\ \A i, j \in 1 .. Len(News) : News[i].share = News[j].share => i = j
  BY <1>1, NewsAre
<1>3. IsList(run.entries)
  BY DEF ScanRun, EntriesOK
<1>4. /\ Len(all) = n + Len(News) /\ n \in Nat /\ Len(News) \in Nat
      /\ \A i \in 1 .. n : all[i] = run.entries[i]
      /\ \A i \in 1 .. Len(News) : all[n + i] = News[i]
  BY <1>2, <1>3, JoinIs DEF IsList
<1> HIDE DEF all, n
<1>5. ASSUME NEW i \in 1 .. Len(all)
      PROVE  \/ i \in 1 .. n /\ all[i] = run.entries[i]
             \/ i - n \in 1 .. Len(News) /\ all[i] = News[i - n]
  <2>1. CASE i <= n
    BY <1>4, <2>1
  <2>2. CASE ~(i <= n)
    <3>1. i - n \in 1 .. Len(News) /\ i = n + (i - n)
      BY <1>4, <2>2
    <3> QED BY <1>4, <3>1
  <2> QED BY <2>1, <2>2
<1>6. \A s : EntryFor(s).share = s
  BY DEF EntryFor
<1>7. ASSUME NEW s \in Whole
      PROVE  /\ s \in Shares /\ ~In(run.entries, s)
             /\ Unchanged(EntryFor(s))
             /\ public[s] # NoDoc \/ private[s] # NoDoc
             /\ Seen(run.pub, s) /\ Seen(PrivNow, s)
  <2>1. /\ s \in Shares /\ s \in DOMAIN run.pub.buffer \cup DOMAIN PrivNow.buffer
        /\ Seen(run.pub, s) /\ Seen(PrivNow, s)
    BY <1>2 DEF Whole
  <2>2. /\ s \in DOMAIN run.pub.buffer <=>
              public[s] # NoDoc /\ Seen(run.pub, s) /\ ~In(run.entries, s)
        /\ s \in DOMAIN run.pub.buffer => run.pub.buffer[s] = public[s]
        /\ s \in DOMAIN PrivNow.buffer <=>
              private[s] # NoDoc /\ Seen(PrivNow, s) /\ ~In(run.entries, s)
        /\ s \in DOMAIN PrivNow.buffer => PrivNow.buffer[s] = private[s]
    BY <2>1 DEF Scanned
  <2>3. ~In(run.entries, s) /\ (public[s] # NoDoc \/ private[s] # NoDoc)
    BY <2>1, <2>2
  <2>4. DocIn(run.pub, s) = public[s] /\ DocIn(PrivNow, s) = private[s]
    BY <2>1, <2>2, <2>3 DEF DocIn
  <2> QED BY <2>1, <2>3, <2>4 DEF EntryFor, Unchanged
<1>8. \A s : In(all, s) <=> In(run.entries, s) \/ s \in Whole
  <2>1. ASSUME NEW s, In(all, s) PROVE In(run.entries, s) \/ s \in Whole
    <3>1. PICK i \in 1 .. Len(all) : all[i].share = s
      BY <2>1 DEF In
    <3>2. CASE i \in 1 .. n /\ all[i] = run.entries[i]
      BY <3>1, <3>2 DEF In, n
    <3>3. CASE i - n \in 1 .. Len(News) /\ all[i] = News[i - n]
      BY <1>2, <1>6, <3>1, <3>3
    <3> QED BY <1>5, <3>2, <3>3
  <2>2. ASSUME NEW s, In(run.entries, s) PROVE In(all, s)
    <3>1. PICK i \in 1 .. n : run.entries[i].share = s
      BY <2>2 DEF In, n
    <3> QED BY <1>4, <3>1 DEF In
  <2>3. ASSUME NEW s \in Whole PROVE In(all, s)
    <3>1. PICK i \in 1 .. Len(News) : News[i] = EntryFor(s)
      BY <1>2
    <3>2. n + i \in 1 .. Len(all) /\ all[n + i] = News[i]
      BY <1>4
    <3> QED BY <1>6, <3>1, <3>2 DEF In
  <2> QED BY <2>1, <2>2, <2>3
<1>9. Faithful(all)
  <2>1. \A i \in 1 .. n : /\ Unchanged(run.entries[i]) /\ In(run.entries, run.entries[i].share)
                          /\ \/ public[run.entries[i].share] # NoDoc
                             \/ private[run.entries[i].share] # NoDoc
    BY DEF Faithful, In, n
  <2>2. \A i \in 1 .. Len(News) : /\ Unchanged(News[i]) /\ News[i].share \in Whole
                                  /\ \/ public[News[i].share] # NoDoc
                                     \/ private[News[i].share] # NoDoc
    BY <1>2, <1>6, <1>7
  <2>3. ASSUME NEW i \in 1 .. Len(all), NEW j \in 1 .. Len(all), all[i].share = all[j].share
        PROVE  i = j
    <3>1. CASE i \in 1 .. n /\ j \in 1 .. n
      BY <1>4, <2>3, <3>1 DEF Faithful, Distinct, n
    <3>2. CASE i \notin 1 .. n /\ j \notin 1 .. n
      <4>1. /\ i - n \in 1 .. Len(News) /\ all[i] = News[i - n]
            /\ j - n \in 1 .. Len(News) /\ all[j] = News[j - n]
        BY <1>5, <3>2
      <4>2. i - n = j - n
        BY <1>2, <2>3, <4>1
      <4> QED BY <1>4, <4>1, <4>2
    <3>3. CASE i \in 1 .. n /\ j \notin 1 .. n
      BY <1>4, <1>5, <1>7, <2>1, <2>2, <2>3, <3>3
    <3>4. CASE i \notin 1 .. n /\ j \in 1 .. n
      BY <1>4, <1>5, <1>7, <2>1, <2>2, <2>3, <3>4
    <3> QED BY <3>1, <3>2, <3>3, <3>4
  <2>4. ASSUME NEW i \in 1 .. Len(all)
        PROVE  Unchanged(all[i]) /\ (public[all[i].share] # NoDoc \/ private[all[i].share] # NoDoc)
    <3>1. CASE i \in 1 .. n /\ all[i] = run.entries[i]
      BY <2>1, <3>1
    <3>2. CASE i - n \in 1 .. Len(News) /\ all[i] = News[i - n]
      BY <2>2, <3>2
    <3> QED BY <1>5, <3>1, <3>2
  <2> QED BY <2>3, <2>4 DEF Faithful, Distinct
<1>10. ASSUME NEW x, StreamOK(x), NEW docs, Scanned(x, docs, run.entries), Past(x, run.entries),
              \A s \in Whole : Seen(x, s)
       PROVE  Scanned(Rest(x), docs, all) /\ Past(Rest(x), all)
  <2>1. /\ Rest(x).cursor = x.cursor /\ Rest(x).ended = x.ended
        /\ DOMAIN Rest(x).buffer = DOMAIN x.buffer \ Whole
        /\ \A s \in DOMAIN Rest(x).buffer : s \in DOMAIN x.buffer
                                            /\ Rest(x).buffer[s] = x.buffer[s]
    BY <1>10, ScanNext
  <2>2. \A s : Seen(Rest(x), s) <=> Seen(x, s)
    BY <2>1 DEF Seen
  <2> QED BY <1>8, <1>10, <2>1, <2>2 DEF Scanned, Past
<1>11. ASSUME run.pub.ended, PrivNow.ended PROVE Exact(all)
  <2>1. ASSUME NEW s \in Shares, public[s] # NoDoc \/ private[s] # NoDoc, ~In(run.entries, s)
        PROVE  s \in Whole
    <3>1. Seen(run.pub, s) /\ Seen(PrivNow, s)
      BY <1>11 DEF Seen
    <3>2. s \in DOMAIN run.pub.buffer \cup DOMAIN PrivNow.buffer
      BY <2>1, <3>1 DEF Scanned
    <3> QED BY <3>1, <3>2 DEF Whole
  <2> QED BY <1>8, <1>9, <2>1 DEF Exact
<1>12. /\ Scanned(Rest(run.pub), public, all) /\ Past(Rest(run.pub), all)
       /\ Scanned(Rest(PrivNow), private, all) /\ Past(Rest(PrivNow), all)
  BY <1>1, <1>7, <1>10
<1> QED BY <1>9, <1>11, <1>12 DEF all


\* Unless something expired meanwhile, a scan and what it seals are exact.
ScanExact ==
    /\ Scans => /\ Faithful(run.entries)
                /\ Scanned(run.pub, public, run.entries) /\ Past(run.pub, run.entries)
                /\ Scanned(run.priv, private, run.entries) /\ Past(run.priv, run.entries)
    /\ run.at = "seal" => Exact(run.inv.entries)
\* A scan that begins, reads on or decides stays exact, and so is what it seals.
LEMMA ScanExactKept ==
    ASSUME MigShape, BeforeApply, ~lost => ScanExact, [MigNext]_allVars
    PROVE  ~lost' => ScanExact'
<1> SUFFICES ASSUME ~lost', Searches' PROVE ScanExact'
  BY DEF ScanExact, Searches, Scans
<1> RunShape /\ ScanExact
  BY LostStays DEF MigShape
<1> DEFINE OK(r) == /\ r.at \in {"public", "private"} =>
                         /\ Faithful(r.entries)
                         /\ Scanned(r.pub, public, r.entries) /\ Past(r.pub, r.entries)
                         /\ Scanned(r.priv, private, r.entries) /\ Past(r.priv, r.entries)
                    /\ r.at = "seal" => Exact(r.inv.entries)
<1>1. ASSUME UNCHANGED Docs, OK(run') PROVE ScanExact'
  <2>1. \A t : /\ Faithful(t)' <=> Faithful(t)
               /\ Exact(t)' <=> Exact(t)
    BY <1>1 DEF Docs, Faithful, Exact, Unchanged
  <2> QED BY <1>1 DEF Docs, ScanExact, Scans, Faithful, Exact, Unchanged
<1>2. Searches => UNCHANGED Docs
  <2> SUFFICES ASSUME Searches PROVE UNCHANGED Docs
    OBVIOUS
  <2>1. ~FenceOpen
    BY DEF BeforeApply, Frozen, FenceOpen
  <2>2. ~\E e : Writes(e) \/ SetsAside(e)
    BY DEF Searches, Writes, SetsAside, Advances
  <2> QED BY <2>1, <2>2, ClosedStep DEF Quiet
<1>3. CASE run' = run
  <2>1. OK(run)
    BY DEF ScanExact, Scans
  <2>2. Searches
    BY <1>3 DEF Searches
  <2> HIDE DEF OK
  <2> QED BY <1>1, <1>2, <1>3, <2>1, <2>2
<1>4. CASE BeginFreeze
  <2>1. UNCHANGED Docs
    BY <1>4, BookkeepingStep DEF Bookkeeping
  <2>2. /\ run'.at = "public" /\ run'.pub = Stream /\ run'.priv = Stream
        /\ run'.entries = <<>>
    <3>1. Idle.at \notin {"public", "private", "seal"}
      BY DEF Idle
    <3> QED BY <1>4, <3>1 DEF BeginFreeze, Throw, Searches
  <2>3. \A s \in Shares : ~Seen(Stream, s)
    BY OrderAssumption DEF Seen, Stream
  <2>4. DOMAIN Stream.buffer = {}
    BY DEF Stream
  <2>5. \A s : ~In(<<>>, s)
    BY DEF In
  <2>6. Faithful(<<>>)
    BY DEF Faithful, Distinct
  <2>7. \A docs : Scanned(Stream, docs, <<>>)
    BY <2>3, <2>4, <2>5 DEF Scanned
  <2>8. Past(Stream, <<>>)
    BY <2>5 DEF Past
  <2>9. OK(run')
    BY <2>2, <2>6, <2>7, <2>8
  <2> QED BY <1>1, <2>1, <2>9
<1>5. CASE ReadPublic
  <2>1. ScanRun /\ UNCHANGED Docs
    BY <1>5, RunIs, BookkeepingStep DEF ReadPublic, Scans, Bookkeeping
  <2>2. run' = [run EXCEPT !.pub = NextPage(run.pub, public), !.at = "private"]
    BY <1>5 DEF ReadPublic
  <2>3. /\ run'.at = "private" /\ run'.pub = NextPage(run.pub, public)
        /\ run'.priv = run.priv /\ run'.entries = run.entries
    BY <2>1, <2>2 DEF ScanRun
  <2>4. /\ Faithful(run.entries)
        /\ Scanned(run.pub, public, run.entries) /\ Past(run.pub, run.entries)
        /\ Scanned(run.priv, private, run.entries) /\ Past(run.priv, run.entries)
    BY <2>1 DEF ScanExact, ScanRun
  <2>5. /\ Scanned(NextPage(run.pub, public), public, run.entries)
        /\ Past(NextPage(run.pub, public), run.entries)
    BY <2>1, <2>4, ReadOn DEF ScanRun
  <2>6. OK(run')
    BY <2>3, <2>4, <2>5
  <2> QED BY <1>1, <2>1, <2>6
<1>6. CASE ReadPrivate
  <2>1. ScanRun /\ UNCHANGED Docs
    BY <1>6, RunIs, BookkeepingStep DEF ReadPrivate, Scans, Bookkeeping
  <2>2. StreamOK(run.pub) /\ StreamOK(run.priv) /\ StreamOK(PrivNow)
    BY <2>1, ScanNext DEF ScanRun
  <2>3. /\ Faithful(run.entries)
        /\ Scanned(run.pub, public, run.entries) /\ Past(run.pub, run.entries)
        /\ Scanned(run.priv, private, run.entries) /\ Past(run.priv, run.entries)
    BY <2>1 DEF ScanExact, ScanRun
  <2>4. Scanned(PrivNow, private, run.entries) /\ Past(PrivNow, run.entries)
    BY <2>2, <2>3, ReadOn DEF PrivNow
  <2> DEFINE all == run.entries \o News
             p == Rest(run.pub)
             q == Rest(PrivNow)
  <2>5. /\ Faithful(all)
        /\ Scanned(p, public, all) /\ Past(p, all)
        /\ Scanned(q, private, all) /\ Past(q, all)
        /\ run.pub.ended /\ PrivNow.ended => Exact(all)
    BY <2>1, <2>3, <2>4, DecidedIs
  <2>6. run' = IF run.pub.ended /\ PrivNow.ended
               THEN [at |-> "seal", next |-> 0,
                     inv |-> [rev |-> run.rev, scanAt |-> run.scanAt, entries |-> all]]
               ELSE [run EXCEPT !.at = "public", !.pub = p, !.priv = q, !.entries = all]
    BY <1>6, <2>2, ReadPrivateStep
  <2> HIDE DEF all, p, q
  <2>7. CASE run.pub.ended /\ PrivNow.ended
    <3>1. run'.at = "seal" /\ run'.inv.entries = all
      BY <2>6, <2>7
    <3>2. OK(run')
      BY <2>5, <2>7, <3>1
    <3> QED BY <1>1, <2>1, <3>2
  <2>8. CASE ~(run.pub.ended /\ PrivNow.ended)
    <3>1. /\ run'.at = "public" /\ run'.pub = p /\ run'.priv = q /\ run'.entries = all
      BY <2>1, <2>6, <2>8 DEF ScanRun
    <3>2. OK(run')
      BY <2>5, <3>1
    <3> QED BY <1>1, <2>1, <3>2
  <2> QED BY <2>7, <2>8
<1>7. CASE SealsOne
  <2>1. SealRun /\ Searches
    BY <1>7, RunIs DEF SealsOne, Searches
  <2>2. run'.at = "seal" /\ run'.inv = run.inv
    BY <1>7, <2>1 DEF SealsOne, SealRun
  <2>3. OK(run')
    BY <2>1, <2>2 DEF ScanExact, SealRun
  <2> HIDE DEF OK
  <2> QED BY <1>1, <1>2, <2>1, <2>3
<1> QED BY <1>3, <1>4, <1>5, <1>6, <1>7, SearchStep

\* How far an apply has got with each share it sealed.
Stage(e, i, next, at) ==
    IF Copies(e) THEN Applied(e, at) \/ (Unchanged(e) /\ i > next)
                 ELSE Unchanged(e) /\ (i <= next => Copied(e))
HeldAt(t, next, at) ==
    /\ Distinct(t)
    /\ \A s \in Shares : public[s] # NoDoc \/ private[s] # NoDoc <=> In(t, s)
    /\ \A i \in 1 .. Len(t) : Stage(t[i], i, next, at)
Held == HasInventory /\ ~lost /\ fence.phase # "verified" =>
    \A t, n, at : t = fence.inv.entries /\ n = fence.next /\ at = fence.inv.scanAt
                  => HeldAt(t, n, at)

\* A share is written as it was sealed, and the others are left.
LEMMA HeldOnWrite ==
    ASSUME MigShape, NEW e, Writes(e) \/ SetsAside(e),
           NEW t, NEW n, NEW at,
           t = run.inv.entries, n = run.next, at = run.inv.scanAt, HeldAt(t, n, at)
    PROVE  HeldAt(t, n + 1, at)'
<1> DocsOK /\ RunShape
  BY DEF MigShape, DocsOK
<1>1. Advances(e) /\ ApplyRun
  BY RunIs DEF Writes, SetsAside, Advances, Applies
<1>2. /\ EntryOK(e) /\ e = t[n + 1] /\ n + 1 \in 1 .. Len(t) /\ n \in Nat
      /\ ~Quarantines(e.pub, e.priv, at) => Copies(e)
  BY <1>1, EntryIs DEF Advances, ApplyRun
<1>3. Quarantines(e.pub, e.priv, at) => ~Copies(e)
  BY DEF Quarantines, Copies, Keeps, Migrates
<1>4. /\ Distinct(t) /\ \A i \in 1 .. Len(t) : Stage(t[i], i, n, at)
      /\ \A s \in Shares : public[s] # NoDoc \/ private[s] # NoDoc <=> In(t, s)
  BY DEF HeldAt
<1>5. \A i \in 1 .. Len(t) : /\ EntryOK(t[i]) /\ i \in Int
                             /\ i # n + 1 => t[i].share # e.share
  BY <1>1, <1>2, <1>4 DEF ApplyRun, InvOK, EntriesOK, Distinct
<1>6. ASSUME \A s \in Shares : s # e.share =>
                /\ public'[s] = public[s] /\ private'[s] = private[s]
                /\ quarantine'[s] = quarantine[s],
             Stage(e, n + 1, n + 1, at)'
      PROVE  \A i \in 1 .. Len(t) : Stage(t[i], i, n + 1, at)'
  <2> SUFFICES ASSUME NEW i \in 1 .. Len(t), i # n + 1 PROVE Stage(t[i], i, n + 1, at)'
    BY <1>2, <1>6
  <2> DEFINE x == t[i]
  <2>1. /\ x.share \in Shares /\ x.share # e.share /\ Stage(x, i, n, at) /\ i \in Int
    BY <1>4, <1>5 DEF EntryOK
  <2>2. /\ Applied(x, at)' <=> Applied(x, at)
        /\ Unchanged(x)' <=> Unchanged(x)
        /\ Copied(x)' <=> Copied(x)
    BY <1>6, <2>1 DEF Applied, Unchanged, Copied
  <2>3. (i > n => i > n + 1) /\ (i <= n + 1 => i <= n)
    BY <1>2, <2>1
  <2> HIDE DEF x
  <2>4. Stage(x, i, n + 1, at)'
    BY <2>1, <2>2, <2>3 DEF Stage
  <2> QED BY <2>4 DEF x
<1>7. CASE Writes(e)
  <2>1. /\ Applied(e, at)' /\ Copies(e) /\ quarantine' = quarantine
        /\ public' = [public EXCEPT ![e.share] = TargetPublic(e, at)]
        /\ TargetShape(e, at)
        /\ \A s \in Shares : s # e.share => public'[s] = public[s] /\ private'[s] = private[s]
    BY <1>1, <1>7, WriteIs DEF Writes, Advances, ApplyRun, Applied
  <2>2. Stage(e, n + 1, n + 1, at)'
    BY <2>1 DEF Stage
  <2>3. \A i \in 1 .. Len(t) : Stage(t[i], i, n + 1, at)'
    BY <1>6, <2>1, <2>2
  <2>4. ASSUME NEW s \in Shares
        PROVE  public'[s] # NoDoc \/ private'[s] # NoDoc <=> In(t, s)
    <3>1. CASE s = e.share
      <4>1. public'[s] # NoDoc
        BY <2>1, <3>1 DEF Applied, TargetShape
      <4> QED BY <1>2, <3>1, <4>1 DEF In
    <3>2. CASE s # e.share
      BY <1>4, <2>1, <3>2
    <3> QED BY <3>1, <3>2
  <2> QED BY <1>4, <2>3, <2>4 DEF HeldAt
<1>8. CASE SetsAside(e)
  <2>1. /\ ~Copies(e) /\ UNCHANGED Docs
        /\ quarantine' = [quarantine EXCEPT ![e.share] = [pub |-> e.pub, priv |-> e.priv]]
    BY <1>3, <1>8 DEF SetsAside
  <2>2. Copied(e)' /\ \A s \in Shares : s # e.share => quarantine'[s] = quarantine[s]
    BY <1>2, <2>1 DEF MigShape, Copied, EntryOK
  <2>3. Stage(e, n + 1, n, at)
    BY <1>2, <1>4
  <2>4. Stage(e, n + 1, n + 1, at)'
    BY <2>1, <2>2, <2>3 DEF Stage, Unchanged, Docs
  <2>5. \A i \in 1 .. Len(t) : Stage(t[i], i, n + 1, at)'
    BY <1>6, <2>1, <2>2, <2>4 DEF Docs
  <2> QED BY <1>4, <2>1, <2>5 DEF HeldAt, Docs
<1> QED BY <1>7, <1>8

\* A migration that is verified stays so, and the progress of an apply moves
\* only with the share it writes.
LEMMA HeldFence ==
    ASSUME MigShape, [MigNext]_allVars, HasInventory, HasInventory'
    PROVE  /\ fence'.phase # "verified" => fence.phase # "verified"
           /\ \/ \E e : Writes(e) \/ SetsAside(e)
              \/ fence'.next = fence.next
<1> RunShape /\ FenceShape /\ fence # NoDoc
  BY DEF MigShape, HasInventory
<1>1. CASE fence' = fence
  BY <1>1
<1>2. ~(\E rev, at : Fresh(rev, at)) /\ ~(\E k : Sealing(k)) /\ ~Sealed /\ ~Superseded
  <2>1. ~Superseded
    BY FenceChange DEF HasInventory, SealedPhases
  <2> QED BY <2>1 DEF HasInventory, SealedPhases, Fresh, Sealing, Sealed
<1>3. /\ \A F : Changes(F) /\ "next" \notin F => fence'.next = fence.next
      /\ \A F : Changes(F) /\ "phase" \notin F => fence'.phase = fence.phase
  BY DEF Changes, FenceFields
<1>4. CASE Progress
  BY <1>3, <1>4, FenceChange DEF Progress
<1>5. CASE Applying \/ Applied_
  BY <1>3, <1>5, FenceChange DEF Applying, Applied_
<1>6. CASE Verifying \/ ReadsPub \/ ReadsPriv \/ ReadsSealed
  BY <1>3, <1>6, FenceChange
<1>7. CASE Finished
  BY <1>3, <1>7, FenceChange
<1> QED BY <1>1, <1>2, <1>4, <1>5, <1>6, <1>7, FenceStep DEF FenceSteps

\* What is exact when it is sealed is held from then on.
LEMMA HeldOnSeal ==
    ASSUME UNCHANGED Docs, NEW t, NEW at, EntriesOK(t), Exact(t)
    PROVE  HeldAt(t, 0, at)'
<1>1. \A i \in 1 .. Len(t) : /\ Unchanged(t[i])' /\ i > 0 /\ ~(i <= 0)
                             /\ t[i].share \in Shares
                             /\ public[t[i].share] # NoDoc \/ private[t[i].share] # NoDoc
  BY DEF Exact, Faithful, EntriesOK, EntryOK, IsList, Unchanged, Docs
<1>2. \A i \in 1 .. Len(t) : Stage(t[i], i, 0, at)'
  BY <1>1 DEF Stage
<1>3. \A s \in Shares : public'[s] # NoDoc \/ private'[s] # NoDoc <=> In(t, s)
  BY <1>1 DEF Exact, In, Docs
<1> QED BY <1>2, <1>3 DEF HeldAt, Exact, Faithful

\* A step that touches no document leaves every share where it was.
LEMMA HeldOnQuiet ==
    ASSUME Quiet, NEW t, NEW n, NEW at, HeldAt(t, n, at)
    PROVE  HeldAt(t, n, at)'
<1>1. \A i \in 1 .. Len(t) : Stage(t[i], i, n, at)' <=> Stage(t[i], i, n, at)
  BY DEF Stage, Applied, Unchanged, Copied, Quiet, Docs
<1> QED BY <1>1 DEF HeldAt, Quiet, Docs

\* What is held is held after any step, and what is sealed is held at once.
LEMMA HeldKept ==
    ASSUME MigShape, BeforeApply, ~lost => ScanExact, Held, [MigNext]_allVars
    PROVE  Held'
<1> SUFFICES ASSUME HasInventory', ~lost', fence'.phase # "verified",
                    NEW t, NEW n, NEW at,
                    t = fence'.inv.entries, n = fence'.next, at = fence'.inv.scanAt
             PROVE  HeldAt(t, n, at)'
  BY DEF Held
<1> ~lost /\ ScanExact /\ RunShape
  BY LostStays DEF MigShape
<1>1. CASE Sealed /\ ~HasInventory /\ fence # NoDoc
           /\ fence'.inv = run.inv /\ fence'.phase = "sealed"
  <2>1. ~FenceOpen /\ run.at = "seal" /\ SealRun
    BY <1>1, RunIs DEF Sealed, FenceOpen
  <2>2. UNCHANGED Docs
    BY <2>1, ClosedStep DEF Writes, SetsAside, Advances, Quiet
  <2>3. n = 0
    BY <1>1, BeforeKept, FenceKept DEF BeforeApply, Frozen
  <2>4. Exact(t) /\ EntriesOK(t)
    BY <1>1, <2>1 DEF ScanExact, SealRun, InvOK
  <2> QED BY <2>2, <2>3, <2>4, HeldOnSeal
<1>2. CASE HasInventory /\ fence'.inv = fence.inv
  <2>1. /\ fence.phase # "verified"
        /\ (\E e : Writes(e) \/ SetsAside(e)) \/ fence'.next = fence.next
    BY <1>2, HeldFence
  <2>2. ~FenceOpen
    BY <1>2, <2>1 DEF HasInventory, FenceOpen
  <2>3. ASSUME NEW e, Writes(e) \/ SetsAside(e) PROVE HeldAt(t, n, at)'
    <3>1. /\ fence.inv = run.inv /\ fence.next = run.next
          /\ fence' = [fence EXCEPT !.next = run.next + 1]
      BY <2>3 DEF Writes, SetsAside, Advances, StateHeld
    <3>2. FenceShape
      BY <1>2 DEF MigShape, HasInventory
    <3>3. n = run.next + 1
      BY <3>1, <3>2 DEF FenceShape, FenceFields
    <3>4. PICK k : k = run.next
      OBVIOUS
    <3>5. t = run.inv.entries /\ at = run.inv.scanAt /\ HeldAt(t, k, at)
      BY <1>2, <2>1, <3>1, <3>4 DEF Held
    <3>6. HeldAt(t, k + 1, at)'
      BY <2>3, <3>4, <3>5, HeldOnWrite
    <3>7. n = k + 1
      BY <3>3, <3>4
    <3> QED BY <3>6, <3>7
  <2>4. CASE Quiet /\ ~\E e : Writes(e) \/ SetsAside(e)
    <3>1. HeldAt(t, n, at)
      BY <1>2, <2>1, <2>4 DEF Held
    <3> QED BY <2>4, <3>1, HeldOnQuiet
  <2> QED BY <2>2, <2>3, <2>4, ClosedStep
<1> QED BY <1>1, <1>2, InventoryKept

\* Between the seal and the cutover no share that the inventory lists changes
\* under it, unless something expires meanwhile.
THEOREM SealIsHeld == MigSpec => []SealHolds
<1> DEFINE Inv == MigShape /\ BeforeApply /\ (~lost => ScanExact) /\ Held
<1>1. MigInit => Inv
  <2> SUFFICES ASSUME MigInit PROVE Inv
    OBVIOUS
  <2>1. fence = NoDoc /\ run.at = "idle"
    BY DEF MigInit, CallersInit, Idle
  <2> QED BY <2>1, ShapeInit DEF BeforeApply, Searches, Frozen, ScanExact, Scans,
             Held, HasInventory
<1>2. Inv /\ [MigNext]_allVars => Inv'
  BY ShapeKept, BeforeKept, ScanExactKept, HeldKept
<1>3. Inv => SealHolds
  <2> SUFFICES ASSUME Inv, HasInventory, ~lost, fence.phase # "verified"
               PROVE  /\ Some(public) \cup Some(private) = Listed(fence.inv)
                      /\ \A i \in 1 .. Len(fence.inv.entries) :
                            Stage(fence.inv.entries[i], i, fence.next, fence.inv.scanAt)
    BY DEF SealHolds, Stage
  <2>1. PICK t, n, at : t = fence.inv.entries /\ n = fence.next /\ at = fence.inv.scanAt
    OBVIOUS
  <2>2. HeldAt(t, n, at)
    BY <2>1 DEF Held
  <2>3. EntriesOK(t)
    BY <2>1 DEF MigShape, HasInventory, FenceShape, InvOK
  <2>4. \A s : s \in Listed(fence.inv) <=> In(t, s)
    BY <2>1, <2>3 DEF Listed, Entries, ToSet, In, EntriesOK, IsList
  <2>5. \A s : In(t, s) => s \in Shares
    BY <2>3 DEF In, EntriesOK, EntryOK
  <2>6. Some(public) \cup Some(private) = Listed(fence.inv)
    BY <2>2, <2>4, <2>5 DEF HeldAt, Some
  <2> QED BY <2>1, <2>2, <2>6 DEF HeldAt
<1> HIDE DEF Inv
<1> QED BY <1>1, <1>2, <1>3, PTL DEF MigSpec
=============================================================================
