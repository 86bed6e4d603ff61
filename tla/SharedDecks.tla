---------------------------- MODULE SharedDecks ----------------------------
(***************************************************************************)
(* Decks shared by link.  A share is a public document, which anybody with *)
(* the link may read, and a private one naming its owner; a ledger per     *)
(* owner lists the shares that count against the quota.  Two callables     *)
(* write them, each in one transaction, and refuse everybody while a       *)
(* migration of the older shares holds the fence (module DeckMigration).   *)
(* Firestore deletes a document some time after it has expired.            *)
(*                                                                         *)
(* A tab keeps the operation of a create that was not answered in the      *)
(* device's storage and sends the same one when the user asks again.  A    *)
(* call lives for seconds and a unit of the clock stands for days, so no   *)
(* call outlasts a tick.                                                   *)
(***************************************************************************)
EXTENDS Integers, FiniteSets, FiniteSetsExt

CONSTANTS
    Owners, Decks,
    DeckBytes,     \* the size of a deck's payload
    Fingerprint,         \* the 32-bit fingerprint a tab knows a deck by
    Shares,        \* the identifiers of shares
    MaxShares, MaxBytes,     \* an owner's quota
    Lifetime,      \* 30 days: of a share, a receipt, a pending operation
    Skew,          \* how far ahead of the server an operation may be dated
    Window,        \* the window of the rate limits
    OwnerRate, ServiceRate,  \* creates in a window, by an owner and by all
    MaxClock,      \* bound on the clock
    Tabs,
    MaxPending,    \* operations a device remembers
    MaxOps,        \* bound on the operations minted
    MaxCalls,      \* bound on the calls of all tabs
    MaxSignIns     \* bound on how often a tab changes its owner

ASSUME SharesAssumption == IsFiniteSet(Shares)
ASSUME DeckAssumption == /\ DeckBytes \in [Decks -> Nat \ {0}]
                         /\ MaxShares \in Nat /\ MaxBytes \in Nat
ASSUME TimeAssumption == /\ Lifetime \in Nat \ {0} /\ Window \in Nat \ {0}
                         /\ Skew \in Nat /\ MaxClock \in Nat
ASSUME BoundAssumption == MaxOps \in Nat
ASSUME RateAssumption == OwnerRate \in Nat \ {0} /\ ServiceRate \in Nat \ {0}

VARIABLES
    clock,
    public, private,   \* per share: its two documents
    ledger,            \* per owner: shared_deck_usage
    receipts,          \* per owner and operation: what it created
    budget,            \* per owner, and for the service: the rate limit
    fence,             \* the migration's state document, as callables see it
    stored,            \* the operations in the device's storage
    memory,            \* per tab: its own copy of them
    user,              \* per tab: who is signed in
    busy,              \* per tab: the call it awaits
    link,              \* per tab: the share whose link it shows
    calls,             \* how many calls were made
    wire,              \* calls under way, and answers on their way back
    minted,            \* how many operations were minted
    signIns,           \* how often a tab changed its owner
    made,              \* history: every share created, with its operation
    acked              \* history: operations whose tab saw the answer

shareVars == <<public, private, ledger, receipts, budget>>
tabVars == <<stored, memory, user, busy, link, calls, wire, minted, signIns, acked>>
deckVars == <<clock, shareVars, fence, tabVars, made>>

NoDoc == [doc |-> "none"]
Nobody == "nobody"
Service == "service"
NoOp == 0
NoCall == [kind |-> "none"]
NoLink == [share |-> 0]
ReceiptLife == Lifetime
PendingAge == Lifetime
Min2(x, y) == IF x < y THEN x ELSE y
Total(bytes, S) == MapThenSumSet(LAMBDA s : bytes[s], S)

(***************************************************************************)
(* The documents.                                                          *)
(***************************************************************************)
PublicDoc(kind, author, created, expires, deck) ==
    [doc |-> "public", kind |-> kind, author |-> author,
     created |-> created, expires |-> expires, deck |-> deck]
PrivateDoc(version, owner, created, expires, bytes) ==
    [doc |-> "private", version |-> version, owner |-> owner,
     created |-> created, expires |-> expires, bytes |-> bytes]
Never == -1    \* the expiry of a document that has none

SharePublic(deck, created, expires) ==
    PublicDoc("current", Nobody, created, expires, deck)
SharePrivate(owner, deck, created, expires) ==
    PrivateDoc(2, owner, created, expires, DeckBytes[deck])

\* An owner's ledger: the entry of a share is its size and its expiry.
Ledger(shares) ==
    [doc |-> "ledger", shares |-> shares,
     count |-> Cardinality(DOMAIN shares),
     bytes |-> Total([s \in DOMAIN shares |-> shares[s].bytes], DOMAIN shares)]
Entry(bytes, expires) == [bytes |-> bytes, expires |-> expires]
Unexpired(shares) ==
    [s \in {x \in DOMAIN shares : shares[x].expires > clock} |-> shares[s]]
CountersAgree(l) == l = Ledger(l.shares) \/ l = [Ledger(Unexpired(l.shares))
                                                 EXCEPT !.shares = l.shares]
LedgerNow(o) == IF ledger[o] = NoDoc THEN <<>> ELSE Unexpired(ledger[o].shares)

\* Mutant of FenceOpen: an apply that wrote its ledger is enough.
FenceOpen_Early == fence = NoDoc \/ fence.phase \in {"applying", "applied", "verified"}
FenceOpen == \/ fence = NoDoc
             \/ fence.phase = "verified" /\ fence.ready /\ ~fence.verifying

(***************************************************************************)
(* Rate limits.  A fixed window: the counter restarts once its window has  *)
(* run out.  A create consumes the owner's and the service's budget in its *)
(* own transaction, so a refused or repeated create consumes neither.      *)
(***************************************************************************)
Restarts(b) == b = NoDoc \/ clock < b.start \/ clock - b.start >= Window
Allowed(b, maximum) == Restarts(b) \/ b.calls < maximum
\* Mutant of Consumed: a window that has run out goes on counting.
Consumed_Onward(b) == IF b = NoDoc THEN [start |-> clock, calls |-> 1]
                      ELSE [b EXCEPT !.calls = @ + 1]
Consumed(b) == IF Restarts(b) THEN [start |-> clock, calls |-> 1]
                              ELSE [b EXCEPT !.calls = @ + 1]
BudgetAllows(o) == /\ Allowed(budget[o], OwnerRate)
                   /\ Allowed(budget[Service], ServiceRate)
BudgetSpent(o) == [x \in DOMAIN budget |->
    IF x \in {o, Service} THEN Consumed(budget[x]) ELSE budget[x]]

(***************************************************************************)
(* createSharedDeck: what the transaction answers, and what it writes.  An *)
(* operation answered before is answered again, even behind the fence.     *)
(***************************************************************************)
\* Mutant of OutOfDate: an old operation is not refused.
OutOfDate_FutureOnly(at) == at > clock + Skew
OutOfDate(at) == at > clock + Skew \/ clock - at > ReceiptLife
Receipt(o, op) == IF op = NoOp THEN NoDoc ELSE receipts[o][op]
\* Mutant of SameRequest: decks are compared by fingerprint.
SameRequest_Print(receipt, deck) == Fingerprint[receipt.deck] = Fingerprint[deck]
SameRequest(receipt, deck) == receipt.deck = deck
OwnsMetadata(o) == \E s \in Shares : private[s] # NoDoc /\ private[s].owner = o

CreateAnswer(o, op, at, deck, s) ==
    IF op # NoOp /\ OutOfDate(at) THEN [result |-> "expired"]
    ELSE IF Receipt(o, op) # NoDoc
    THEN IF SameRequest(Receipt(o, op), deck)
         THEN [result |-> "created", share |-> Receipt(o, op).share]
         ELSE [result |-> "conflict"]
    ELSE IF \/ ~FenceOpen
            \/ ledger[o] = NoDoc /\ OwnsMetadata(o)
    THEN [result |-> "migration required"]
    ELSE IF ledger[o] # NoDoc /\ ~CountersAgree(ledger[o])
    THEN [result |-> "inconsistent"]
    ELSE IF \/ Cardinality(DOMAIN LedgerNow(o)) >= MaxShares
            \/ Ledger(LedgerNow(o)).bytes > MaxBytes - DeckBytes[deck]
    THEN [result |-> "quota"]
    ELSE IF ~BudgetAllows(o) THEN [result |-> "limited"]
    ELSE [result |-> "created", share |-> s]

\* The identifier is a random one: never one that was used before.
FreshShares == {s \in Shares : /\ public[s] = NoDoc /\ private[s] = NoDoc
                               /\ \A m \in made : m.share # s}

CreateShareDoc(o, op, asked, deck, s) ==
    LET expires == clock + Lifetime
        shares == [x \in DOMAIN LedgerNow(o) \cup {s} |->
                     IF x = s THEN Entry(DeckBytes[deck], expires)
                              ELSE LedgerNow(o)[x]]
    IN /\ public' = [public EXCEPT ![s] = SharePublic(deck, clock, expires)]
       /\ private' = [private EXCEPT ![s] = SharePrivate(o, deck, clock, expires)]
       /\ ledger' = [ledger EXCEPT ![o] = Ledger(shares)]
       /\ budget' = BudgetSpent(o)
       /\ receipts' = IF op = NoOp THEN receipts ELSE
             [receipts EXCEPT ![o][op] =
                 [deck |-> deck, share |-> s, expires |-> clock + ReceiptLife]]
       /\ made' = made \cup
             {[op |-> op, asked |-> asked, owner |-> o, share |-> s,
               deck |-> deck, at |-> clock]}

\* A transaction that answers `a` for a create.
CreateTx(o, op, at, deck, a) ==
    \E s \in IF FreshShares = {} THEN {0} ELSE FreshShares :
        LET answer == CreateAnswer(o, op, at, deck, s)
            writes == answer.result = "created" /\ Receipt(o, op) = NoDoc
        IN /\ a = answer
           /\ writes => s # 0
           /\ IF writes THEN CreateShareDoc(o, op, at, deck, s)
                        ELSE UNCHANGED <<shareVars, made>>

(***************************************************************************)
(* revokeSharedDeck.  The private document is the authority on ownership;  *)
(* an active share must agree with its ledger entry.                       *)
(***************************************************************************)
EntryAgrees(o, s) ==
    LET listed == ledger[o] # NoDoc /\ s \in DOMAIN ledger[o].shares
    IN /\ private[s].expires > clock => listed
       /\ listed => ledger[o].shares[s] = Entry(private[s].bytes, private[s].expires)

\* Mutant of RevokeAnswer: revoking does not look at the fence.
RevokeAnswer_Unfenced(o, s) ==
    IF private[s] = NoDoc \/ private[s].version # 2 \/ private[s].owner # o
    THEN "not the owner" ELSE "revoked"

RevokeAnswer(o, s) ==
    IF ~FenceOpen THEN "migration required"
    ELSE IF private[s] = NoDoc /\ public[s] = NoDoc THEN "missing"
    ELSE IF private[s] = NoDoc \/ private[s].version \notin {1, 2}
    THEN "migration required"
    ELSE IF private[s].owner # o THEN "not the owner"
    ELSE IF private[s].version # 2 THEN "migration required"
    ELSE IF \/ ledger[o] # NoDoc /\ ~CountersAgree(ledger[o])
            \/ ~EntryAgrees(o, s)
    THEN "inconsistent"
    ELSE "revoked"

\* Mutant of RevokeTx: the ledger keeps the entry.
RevokeTx_LedgerKept(o, s) ==
    IF RevokeAnswer(o, s) # "revoked" THEN UNCHANGED <<shareVars, made>>
    ELSE /\ public' = [public EXCEPT ![s] = NoDoc]
         /\ private' = [private EXCEPT ![s] = NoDoc]
         /\ UNCHANGED <<ledger, receipts, budget, made>>

RevokeTx(o, s) ==
    IF RevokeAnswer(o, s) # "revoked" THEN UNCHANGED <<shareVars, made>>
    ELSE /\ public' = [public EXCEPT ![s] = NoDoc]
         /\ private' = [private EXCEPT ![s] = NoDoc]
         /\ ledger' = IF ledger[o] = NoDoc THEN ledger ELSE
               [ledger EXCEPT ![o] = Ledger(
                   [x \in DOMAIN LedgerNow(o) \ {s} |-> LedgerNow(o)[x]])]
         /\ UNCHANGED <<receipts, budget, made>>

(***************************************************************************)
(* The device's pending operations.  An operation is too old after 30 days *)
(* and the newest of an owner and fingerprint replaces the others.  When   *)
(* storage holds nothing a tab falls back on its own copy.                 *)
(***************************************************************************)
Usable(op) == op.at <= clock /\ clock - op.at < PendingAge
Normalized(ops) ==
    {op \in ops : /\ Usable(op)
                  /\ \A other \in ops :
                       /\ Usable(other)
                       /\ other.owner = op.owner /\ other.print = op.print
                       => other.id <= op.id}
Pending(t) == IF Normalized(stored) # {} THEN Normalized(stored) ELSE memory[t]
Others(ops, o, p) == {op \in ops : op.owner # o \/ op.print # p}

Send(t, call) ==
    /\ busy' = [busy EXCEPT ![t] = call]
    /\ wire' = wire \cup {[call |-> call, tab |-> t, answer |-> NoDoc]}
    /\ calls' = calls + 1

CanCall(t) == user[t] # Nobody /\ busy[t] = NoCall /\ calls < MaxCalls

\* createShare: the pending operation of the same deck, or a new one.
AskShare(t, deck) ==
    LET o == user[t]
        same == Pending(t) \ Others(Pending(t), o, Fingerprint[deck])
        op == IF same # {} THEN CHOOSE x \in same : TRUE
              ELSE [id |-> minted + 1, owner |-> o, print |-> Fingerprint[deck],
                    at |-> clock]
        rest == Others(Pending(t), o, Fingerprint[deck])
        kept == Normalized(rest \cup {op})
    IN /\ CanCall(t)
       /\ same # {} \/ minted < MaxOps
       /\ same # {} \/ Cardinality(rest) < MaxPending
       /\ stored' = kept
       /\ memory' = [memory EXCEPT ![t] = kept]
       /\ minted' = IF same # {} THEN minted ELSE minted + 1
       /\ Send(t, [kind |-> "create", n |-> calls, owner |-> o,
                   op |-> op.id, at |-> op.at, deck |-> deck])
       /\ UNCHANGED <<clock, shareVars, fence, user, link, signIns, made, acked>>

\* The device remembers as many operations as it may: no call is made.
AskRefused(t, deck) ==
    LET o == user[t] IN
    /\ CanCall(t)
    /\ Pending(t) = Others(Pending(t), o, Fingerprint[deck])
    /\ Cardinality(Pending(t)) >= MaxPending
    /\ stored' = Normalized(stored)
    /\ memory' = [memory EXCEPT ![t] = Pending(t)]
    /\ UNCHANGED <<clock, shareVars, fence, user, busy, link, calls, wire,
                   minted, signIns, made, acked>>

AskRevoke(t) ==
    /\ CanCall(t)
    /\ link[t] # NoLink
    /\ Send(t, [kind |-> "revoke", n |-> calls, owner |-> user[t],
                share |-> link[t].share])
    /\ UNCHANGED <<clock, shareVars, fence, stored, memory, user, link, minted,
                   signIns, made, acked>>

\* The server runs a call that has reached it.
Serve(m) ==
    LET c == m.call IN
    /\ m.answer = NoDoc
    /\ \E a \in [result : {"created"}, share : Shares]
                \cup [result : {"expired", "conflict", "migration required",
                                "inconsistent", "quota", "limited",
                                "revoked", "failed"}] :
         /\ \/ c.kind = "create" /\ CreateTx(c.owner, c.op, c.at, c.deck, a)
            \/ /\ c.kind = "revoke"
               /\ RevokeTx(c.owner, c.share)
               /\ a.result = IF RevokeAnswer(c.owner, c.share) \in {"revoked", "missing"}
                             THEN "revoked" ELSE "failed"
         /\ wire' = (wire \ {m}) \cup {[call |-> c, tab |-> m.tab, answer |-> a]}
    /\ UNCHANGED <<clock, fence, stored, memory, user, busy, link, calls, minted,
                   signIns, acked>>

\* A call is lost on its way, or its answer is.
Lose(m) ==
    /\ wire' = wire \ {m}
    /\ UNCHANGED <<clock, shareVars, fence, stored, memory, user, busy, link,
                   calls, minted, signIns, made, acked>>

\* Mutant of Settles: any answer to a create settles its operation.
Settles_Answered(c, a) == c.kind = "create"
Settles(c, a) == c.kind = "create" /\ a.result = "created"

Shown(old, c, a) ==
    CASE a.result = "created" -> [share |-> a.share, deck |-> c.deck]
      [] a.result = "revoked" -> NoLink
      [] OTHER -> old

\* The answer reaches a tab that still awaits it: only a create that worked
\* gives up the pending operation.
Receive(m) ==
    LET t == m.tab
        c == m.call
        left == {op \in Pending(t) : op.id # c.op}
    IN /\ m.answer # NoDoc
       /\ wire' = wire \ {m}
       /\ IF busy[t] # c THEN UNCHANGED <<stored, memory, busy, link, acked>>
          ELSE /\ busy' = [busy EXCEPT ![t] = NoCall]
               /\ link' = [link EXCEPT ![t] = Shown(@, c, m.answer)]
               /\ acked' = IF m.answer.result = "created" THEN acked \cup {c.op}
                                                          ELSE acked
               /\ IF Settles(c, m.answer)
                  THEN stored' = left /\ memory' = [memory EXCEPT ![t] = left]
                  ELSE UNCHANGED <<stored, memory>>
       /\ UNCHANGED <<clock, shareVars, fence, user, calls, minted, signIns, made>>

TimeOut(t) ==
    /\ busy[t] # NoCall
    /\ busy' = [busy EXCEPT ![t] = NoCall]
    /\ UNCHANGED <<clock, shareVars, fence, stored, memory, user, link, calls,
                   wire, minted, signIns, made, acked>>

\* Another owner signs in, or the owner signs out: nothing shown survives.
SignIn(t, o) ==
    /\ user[t] # o /\ signIns < MaxSignIns
    /\ signIns' = signIns + 1
    /\ user' = [user EXCEPT ![t] = o]
    /\ busy' = [busy EXCEPT ![t] = NoCall]
    /\ link' = [link EXCEPT ![t] = NoLink]
    /\ UNCHANGED <<clock, shareVars, fence, stored, memory, calls, wire, minted,
                   made, acked>>

\* The page is loaded again: what is in storage is all that is left.
Reload(t) ==
    /\ busy' = [busy EXCEPT ![t] = NoCall]
    /\ link' = [link EXCEPT ![t] = NoLink]
    /\ memory' = [memory EXCEPT ![t] = {}]
    /\ <<busy', link', memory'>> # <<busy, link, memory>>
    /\ UNCHANGED <<clock, shareVars, fence, stored, user, calls, wire, minted, signIns,
                   made, acked>>

(***************************************************************************)
(* Time, and the deletion of what has expired.                             *)
(***************************************************************************)
Tick ==
    /\ clock < MaxClock
    /\ wire = {} /\ \A t \in Tabs : busy[t] = NoCall
    /\ clock' = clock + 1
    /\ UNCHANGED <<shareVars, fence, tabVars, made>>

Expired(d) == d # NoDoc /\ d.expires # Never /\ d.expires < clock
TtlPublic(s) ==
    /\ Expired(public[s])
    /\ public' = [public EXCEPT ![s] = NoDoc]
    /\ UNCHANGED <<clock, private, ledger, receipts, budget, fence, tabVars, made>>
TtlPrivate(s) ==
    /\ Expired(private[s])
    /\ private' = [private EXCEPT ![s] = NoDoc]
    /\ UNCHANGED <<clock, public, ledger, receipts, budget, fence, tabVars, made>>
TtlReceipt(o, op) ==
    /\ Expired(receipts[o][op])
    /\ receipts' = [receipts EXCEPT ![o][op] = NoDoc]
    /\ UNCHANGED <<clock, public, private, ledger, budget, fence, tabVars, made>>

TabNext ==
    \/ \E t \in Tabs, d \in Decks : AskShare(t, d) \/ AskRefused(t, d)
    \/ \E t \in Tabs : AskRevoke(t) \/ TimeOut(t) \/ Reload(t)
    \/ \E t \in Tabs, o \in Owners \cup {Nobody} : SignIn(t, o)
    \/ \E m \in wire : Serve(m) \/ Lose(m) \/ Receive(m)
TimeNext ==
    \/ Tick
    \/ \E s \in Shares : TtlPublic(s) \/ TtlPrivate(s)
    \/ \E o \in Owners, op \in 1..MaxOps : TtlReceipt(o, op)

CallersInit ==
    /\ clock = 0
    /\ receipts = [o \in Owners |-> [op \in 1..MaxOps |-> NoDoc]]
    /\ budget = [x \in Owners \cup {Service} |-> NoDoc]
    /\ fence = NoDoc
    /\ stored = {} /\ memory = [t \in Tabs |-> {}]
    /\ user \in {[t \in Tabs |-> o] : o \in Owners}
    /\ busy = [t \in Tabs |-> NoCall]
    /\ link = [t \in Tabs |-> NoLink]
    /\ calls = 0
    /\ wire = {} /\ minted = 0 /\ signIns = 0 /\ made = {} /\ acked = {}
DeckInit ==
    /\ CallersInit
    /\ public = [s \in Shares |-> NoDoc]
    /\ private = [s \in Shares |-> NoDoc]
    /\ ledger = [o \in Owners |-> NoDoc]

DeckNext == TabNext \/ TimeNext
DeckSpec == DeckInit /\ [][DeckNext]_deckVars

(***************************************************************************)
(* What is promised.                                                       *)
(***************************************************************************)
DeckTypeOK ==
    /\ clock \in 0..MaxClock
    /\ \A s \in Shares : /\ public[s] # NoDoc => public[s].deck \in Decks
                         /\ private[s] # NoDoc => private[s].owner \in Owners
    /\ \A o \in Owners : ledger[o] # NoDoc => DOMAIN ledger[o].shares \subseteq Shares
    /\ user \in [Tabs -> Owners \cup {Nobody}]
    /\ calls \in 0..MaxCalls /\ minted \in 0..MaxOps

Active(o) == {s \in Shares : /\ private[s] # NoDoc /\ private[s].version = 2
                             /\ private[s].owner = o /\ private[s].expires > clock}

\* The ledger of an owner lists the owner's active shares and no others, with
\* the size and the expiry that their two documents carry, whatever creates,
\* revokes, expiries and deletions came between
\* (sharedDeckPersistence.ts createSharedDeckAtomically, revokeSharedDeckAtomically).
LedgerBacksShares ==
    \A o \in Owners : ledger[o] # NoDoc =>
        /\ Active(o) = DOMAIN LedgerNow(o)
        /\ \A s \in Active(o) :
              /\ ledger[o].shares[s] = Entry(private[s].bytes, private[s].expires)
              /\ public[s] # NoDoc
              /\ public[s].expires = private[s].expires
              /\ DeckBytes[public[s].deck] = private[s].bytes

\* An owner never has more active shares, or more bytes in them, than the
\* quota allows: what expired no longer counts, what is active always does.
QuotaHeld ==
    \A o \in Owners : ledger[o] # NoDoc =>
        /\ Cardinality(Active(o)) <= MaxShares
        /\ Total([s \in Active(o) |-> private[s].bytes], Active(o)) <= MaxBytes

\* However often a create is sent again, by whichever tab and after whatever
\* was lost, one operation makes at most one share: the receipt outlives
\* every retry the server still accepts (sharedDeckPersistence.ts:326-345).
OneSharePerOperation ==
    \A m, n \in made : m.op = n.op /\ m.op # NoOp => m = n

\* The counters of the current windows equal the shares made in them: a
\* refused, failed or repeated create consumes nobody's budget, and one that
\* works consumes the owner's and the service's together (rateLimiter.ts:196-221).
BudgetCountsShares ==
    \A x \in Owners \cup {Service} : budget[x] # NoDoc =>
        budget[x].calls = Cardinality(
            {m \in made : /\ m.at >= budget[x].start
                          /\ m.at < budget[x].start + Window
                          /\ x \in {m.owner, Service}})

\* The link a tab shows belongs to the owner signed in there and carries the
\* deck that owner asked to share, even if owners changed while the call was
\* under way or two decks have the same fingerprint
\* (sharedDeckSessionController.ts:275, 459-497).
LinkBelongs ==
    \A t \in Tabs : link[t] # NoLink =>
        /\ user[t] \in Owners
        /\ private[link[t].share] # NoDoc => private[link[t].share].owner = user[t]
        /\ public[link[t].share] # NoDoc => public[link[t].share].deck = link[t].deck

\* A share whose creation no tab has seen answered is still known to the
\* device by its operation, so that asking again finds it instead of making
\* another (sharedDeckSessionController.ts:303-351).
UnansweredStaysPending ==
    \A m \in made : m.op # NoOp /\ m.op \notin acked /\ clock - m.asked < PendingAge
        => \E op \in stored : op.id = m.op
=============================================================================
