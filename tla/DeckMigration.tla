--------------------------- MODULE DeckMigration ---------------------------
(***************************************************************************)
(* The migration of the shares made before there were ledgers.  An         *)
(* operator starts one job at a time: an inventory freezes the callables,  *)
(* reads both collections page by page and seals what it decided in        *)
(* chunks; an apply rewrites the shares one transaction each, writes the   *)
(* ledger, and verifies both collections before the callables open again.  *)
(* A job may die after any of its transactions and throws when it finds    *)
(* something it did not expect; either way its fence stays.  What a job    *)
(* has sealed can only be given up before the first share is written.      *)
(***************************************************************************)
EXTENDS SharedDecks, SequencesExt

CONSTANTS
    Migrant,       \* the owner the operator names
    Origins,       \* the documents the shares may have before the migration
    PageDocs,      \* documents in a page of the inventory
    SealChunk,     \* entries in a sealed chunk
    VerifyDocs,    \* documents in a transaction of the verification
    MaxRevision    \* bound on the revisions an operator starts from

ASSUME OrderAssumption == Shares \subseteq Nat \ {0}
ASSUME PageAssumption == /\ PageDocs \in Nat \ {0} /\ SealChunk \in Nat \ {0}
                         /\ VerifyDocs \in Nat \ {0} /\ MaxRevision \in Nat
\* The documents from before the migration were written for a lifetime at
\* most, as the older callables wrote them; those of the oldest kind have no
\* expiry, and they alone among those that can be read.  A document that was
\* given a longer life by other means, which the scan would cut to a lifetime
\* from its start, is left out.
ASSUME OriginsAssumption ==
    \A o \in Origins, s \in Shares :
        LET p == o[s].pub
            q == o[s].priv
        IN /\ p # NoDoc =>
                 /\ p.created \in Int /\ p.expires \in Int /\ p.deck \in Decks
                 /\ p.expires <= Lifetime
                 /\ p.kind = "legacy" => p.expires = Never
                 /\ p.expires = Never => p.kind \in {"legacy", "malformed"}
           /\ q # NoDoc => /\ q.created \in Int /\ q.expires \in Int
                           /\ q.expires <= Lifetime /\ q.version \in Nat

VARIABLES
    run,           \* what the job under way holds in memory
    chunks,        \* the sealed chunks: of which inventory, which one
    quarantine,    \* per share: a copy of what could not be migrated
    origin,        \* history: the documents before the migration
    revoked,       \* history: the shares their owner revoked
    lost           \* history: something expired while the fence was closed

migVars == <<run, chunks, quarantine, origin, revoked, lost>>
allVars == <<deckVars, migVars>>
restVars == <<clock, receipts, budget, tabVars, made, origin,
              revoked, lost>>

Idle == [at |-> "idle"]
Died == [at |-> "died"]
NoJob == run \in {Idle, Died}
NoInventory == [rev |-> 0]
\* The shares of a set in the order of their identifiers.
InOrder(S) == CHOOSE f \in [1 .. Cardinality(S) -> S] :
                  \A i, j \in 1 .. Cardinality(S) : i < j => f[i] < f[j]
Some(docs) == {s \in Shares : docs[s] # NoDoc}
FirstOf(S, after, n) ==
    {s \in S : s > after /\ Cardinality({x \in S : after < x /\ x < s}) < n}
LastOf(S, otherwise) == IF S = {} THEN otherwise ELSE Max(S)

(***************************************************************************)
(* What becomes of a share, by the documents it has.                       *)
(***************************************************************************)
SameTimes(p, q) == p.created = q.created /\ p.expires = q.expires
OwnedV1(q) == q # NoDoc /\ q.version = 1 /\ q.owner = Migrant

Keeps(p, q) ==
    /\ p # NoDoc /\ p.kind = "current"
    /\ q # NoDoc /\ q.version = 2 /\ q.owner = Migrant
    /\ SameTimes(p, q)
    /\ q.bytes = DeckBytes[p.deck]
Migrates(p, q) ==
    \/ /\ p # NoDoc /\ p.kind = "legacy"
       /\ q = NoDoc \/ (OwnedV1(q) /\ p.created = q.created)
    \/ /\ p # NoDoc /\ p.kind = "transitional" /\ p.author = Migrant
       /\ q = NoDoc \/ (OwnedV1(q) /\ SameTimes(p, q))
    \/ /\ p # NoDoc /\ p.kind = "current"
       /\ OwnedV1(q) /\ SameTimes(p, q)
Quarantines(p, q, scanAt) ==
    \/ p # NoDoc /\ p.kind = "malformed" /\ q = NoDoc
    \/ /\ p = NoDoc /\ q # NoDoc
       /\ q.version \in {1, 2} /\ q.owner = Migrant /\ q.expires <= scanAt
Blocks(p, q, scanAt) ==
    ~(Keeps(p, q) \/ Migrates(p, q) \/ Quarantines(p, q, scanAt))

\* An entry of an inventory is a share and the documents it had when read.
Copies(e) == Keeps(e.pub, e.priv) \/ Migrates(e.pub, e.priv)
\* Mutant of Existing: an old share lives from when it was made.
Existing_FromBirth(e, scanAt) ==
    IF e.pub.kind # "legacy" THEN e.pub.expires ELSE e.pub.created + Lifetime
Existing(e, scanAt) ==
    IF e.pub.kind # "legacy" THEN e.pub.expires
    ELSE IF e.priv # NoDoc THEN e.priv.expires ELSE scanAt + Lifetime
\* Mutant of ExpiryOf: every share gets a new life.
ExpiryOf_Renewed(e, scanAt) == scanAt + Lifetime
ExpiryOf(e, scanAt) == Min2(Existing(e, scanAt), scanAt + Lifetime)

Entries(inv) == ToSet(inv.entries)
EntryOf(inv, s) == CHOOSE e \in Entries(inv) : e.share = s
Listed(inv) == {e.share : e \in Entries(inv)}

\* The quota looks at the expiries as they are, the ledger at the capped ones.
Counted(inv, Expiry(_, _)) ==
    {e.share : e \in {x \in Entries(inv) : /\ Copies(x)
                                           /\ Expiry(x, inv.scanAt) > inv.scanAt}}
SizeOf(inv) == [s \in Counted(inv, Existing) |-> DeckBytes[EntryOf(inv, s).pub.deck]]
\* Mutant of Eligible: the quota is left to the callables.
Eligible_AnySize(inv) ==
    \A e \in Entries(inv) : ~Blocks(e.pub, e.priv, inv.scanAt)
Eligible(inv) ==
    /\ \A e \in Entries(inv) : ~Blocks(e.pub, e.priv, inv.scanAt)
    /\ Cardinality(Counted(inv, Existing)) <= MaxShares
    /\ Total(SizeOf(inv), Counted(inv, Existing)) <= MaxBytes
\* Mutant of ExpectedLedger: the entries carry the expiries found.
ExpectedLedger_Uncapped(inv) ==
    Ledger([s \in Counted(inv, Existing) |->
              LET e == EntryOf(inv, s)
              IN Entry(DeckBytes[e.pub.deck], Existing(e, inv.scanAt))])

ExpectedLedger(inv) ==
    Ledger([s \in Counted(inv, ExpiryOf) |->
              LET e == EntryOf(inv, s)
              IN Entry(DeckBytes[e.pub.deck], ExpiryOf(e, inv.scanAt))])

\* The pair a migrated share ends as.
TargetPublic(e, scanAt) ==
    SharePublic(e.pub.deck, e.pub.created, ExpiryOf(e, scanAt))
TargetPrivate(e, scanAt) ==
    SharePrivate(Migrant, e.pub.deck, e.pub.created, ExpiryOf(e, scanAt))
Applied(e, scanAt) == /\ public[e.share] = TargetPublic(e, scanAt)
                      /\ private[e.share] = TargetPrivate(e, scanAt)
Unchanged(e) == public[e.share] = e.pub /\ private[e.share] = e.priv
Copied(e) == quarantine[e.share] = [pub |-> e.pub, priv |-> e.priv]

(***************************************************************************)
(* The inventory: freeze, scan, seal.                                      *)
(***************************************************************************)
Fence(rev, scanAt) ==
    [phase |-> "frozen", rev |-> rev, scanAt |-> scanAt, inv |-> NoInventory,
     sealed |-> 0, next |-> 0, ready |-> FALSE, verifying |-> FALSE,
     pub |-> 0, pubEnded |-> FALSE, priv |-> 0, privEnded |-> FALSE, checked |-> 0]
Start(job) ==
    /\ NoJob
    /\ run' = job
    /\ UNCHANGED <<deckVars, chunks, quarantine, origin, revoked, lost>>
Throw == run' = Idle /\ UNCHANGED <<public, private, ledger, fence, chunks, quarantine>>
Stream == [buffer |-> <<>>, cursor |-> 0, ended |-> FALSE]

StartInventory(rev) ==
    Start([at |-> "freeze", rev |-> rev, scanAt |-> clock])

BeginFreeze ==
    /\ run.at = "freeze"
    /\ LET fresh == \/ fence = NoDoc
                    \/ fence.phase = "superseded" /\ fence.rev # run.rev
           again == /\ fence # NoDoc /\ fence.rev = run.rev
                    /\ fence.phase \in {"frozen", "sealing", "sealed"}
           scanAt == IF fresh THEN run.scanAt ELSE fence.scanAt
       IN IF ~fresh /\ ~again THEN Throw
          ELSE /\ fence' = IF fresh THEN Fence(run.rev, run.scanAt) ELSE fence
               /\ run' = [at |-> "public", rev |-> run.rev, scanAt |-> scanAt,
                          pub |-> Stream, priv |-> Stream, entries |-> <<>>]
               /\ UNCHANGED <<public, private, ledger, chunks, quarantine>>
    /\ UNCHANGED restVars

\* A page is read only when all of the one before it is used up.
NextPage(stream, docs) ==
    IF DOMAIN stream.buffer # {} \/ stream.ended THEN stream
    ELSE LET page == FirstOf(Some(docs), stream.cursor, PageDocs)
         IN [buffer |-> [s \in page |-> docs[s]],
             cursor |-> LastOf(page, stream.cursor),
             ended |-> Cardinality(page) < PageDocs]
ReadPublic ==
    /\ run.at = "public"
    /\ run' = [run EXCEPT !.pub = NextPage(run.pub, public), !.at = "private"]
    /\ UNCHANGED <<public, private, ledger, fence, chunks, quarantine, restVars>>

\* A share is decided once both streams have been read past it.
ReadPrivate ==
    LET pub == run.pub
        priv == NextPage(run.priv, private)
        known == DOMAIN pub.buffer \cup DOMAIN priv.buffer
        whole == {s \in known : \A x \in {pub, priv} : x.ended \/ s <= x.cursor}
        DocIn(x, s) == IF s \in DOMAIN x.buffer THEN x.buffer[s] ELSE NoDoc
        EntryFor(s) == [share |-> s, pub |-> DocIn(pub, s), priv |-> DocIn(priv, s)]
        ids == InOrder(whole)
        Left(x) == [x EXCEPT !.buffer =
                      [s \in DOMAIN x.buffer \ whole |-> x.buffer[s]]]
        entries == run.entries \o [i \in DOMAIN ids |-> EntryFor(ids[i])]
        done == pub.ended /\ priv.ended
    IN /\ run.at = "private"
       /\ run' = IF done
                 THEN [at |-> "seal", next |-> 0,
                       inv |-> [rev |-> run.rev, scanAt |-> run.scanAt,
                                entries |-> entries]]
                 ELSE [run EXCEPT !.at = "public", !.pub = Left(pub),
                                  !.priv = Left(priv), !.entries = entries]
       /\ UNCHANGED <<public, private, ledger, fence, chunks, quarantine, restVars>>

FreezeHeld(inv) == fence # NoDoc /\ fence.rev = inv.rev /\ fence.scanAt = inv.scanAt
ChunkCount(inv) == (Len(inv.entries) + SealChunk - 1) \div SealChunk

\* Mutant of Seal: what the stored progress covers is taken to be there.
Seal_Trusting ==
    LET inv == run.inv
        progress == IF fence.phase = "sealing" THEN fence.sealed ELSE 0
        skips == fence.phase = "sealed" \/ run.next < progress
        writes == fence.phase \in {"frozen", "sealing"} /\ run.next = progress
    IN /\ run.at = "seal" /\ run.next < ChunkCount(inv)
       /\ IF ~FreezeHeld(inv) \/ ~(skips \/ writes) THEN Throw
          ELSE /\ run' = [run EXCEPT !.next = @ + 1]
               /\ IF skips THEN UNCHANGED <<fence, chunks>>
                  ELSE /\ chunks' = chunks \cup {<<inv, run.next>>}
                       /\ fence' = [fence EXCEPT !.phase = "sealing",
                                                 !.sealed = run.next + 1]
               /\ UNCHANGED <<public, private, ledger, quarantine>>
       /\ UNCHANGED restVars

\* A chunk is named by the digest of its inventory: one that exists is the same.
Seal ==
    LET inv == run.inv
        progress == IF fence.phase = "sealing" THEN fence.sealed ELSE 0
        exists == <<inv, run.next>> \in chunks
        skips == exists /\ (fence.phase = "sealed" \/ run.next < progress)
        writes == fence.phase \in {"frozen", "sealing"} /\ run.next = progress
    IN /\ run.at = "seal" /\ run.next < ChunkCount(inv)
       /\ IF ~FreezeHeld(inv) \/ ~(skips \/ writes) THEN Throw
          ELSE /\ run' = [run EXCEPT !.next = @ + 1]
               /\ IF skips THEN UNCHANGED <<fence, chunks>>
                  ELSE /\ chunks' = chunks \cup {<<inv, run.next>>}
                       /\ fence' = [fence EXCEPT !.phase = "sealing",
                                                 !.sealed = run.next + 1]
               /\ UNCHANGED <<public, private, ledger, quarantine>>
       /\ UNCHANGED restVars

SealRoot ==
    LET inv == run.inv
        complete == \/ fence.phase = "frozen" /\ ChunkCount(inv) = 0
                    \/ fence.phase = "sealing" /\ fence.sealed = ChunkCount(inv)
    IN /\ run.at = "seal" /\ run.next = ChunkCount(inv)
       /\ run' = Idle
       /\ fence' = IF FreezeHeld(inv) /\ complete
                   THEN [fence EXCEPT !.phase = "sealed", !.inv = inv]
                   ELSE fence
       /\ UNCHANGED <<public, private, ledger, chunks, quarantine, restVars>>

\* The operator gives up what is sealed; a new revision may freeze again.
Supersede ==
    /\ NoJob
    /\ fence # NoDoc /\ fence.phase = "sealed" /\ fence.rev < MaxRevision
    /\ fence.next = 0 /\ ~fence.verifying
    /\ fence' = [fence EXCEPT !.phase = "superseded", !.ready = FALSE]
    /\ UNCHANGED <<clock, shareVars, tabVars, made, run, chunks, quarantine,
                   origin, revoked, lost>>

(***************************************************************************)
(* Apply.                                                                  *)
(***************************************************************************)
SealedPhases == {"sealed", "applying", "applied", "verified"}
StateHeld == /\ fence.inv = run.inv
             /\ fence.phase \in SealedPhases
             /\ fence.verifying => fence.phase \in {"applied", "verified"}
Validating == fence.phase \in {"applied", "verified"}
LedgerFits == ledger[Migrant] \in {NoDoc, ExpectedLedger(run.inv)}
Go(at) == run' = [run EXCEPT !.at = at, !.next = 0]
Count == Len(run.inv.entries)
Entry_(i) == run.inv.entries[i + 1]
SameDocs == UNCHANGED <<public, private, ledger, quarantine>>

StartApply ==
    /\ fence # NoDoc /\ fence.phase \in SealedPhases /\ Eligible(fence.inv)
    /\ Start([at |-> "preflight", inv |-> fence.inv, next |-> 0])

Preflight ==
    /\ run.at = "preflight"
    /\ IF StateHeld /\ LedgerFits THEN Go("check") /\ SameDocs /\ UNCHANGED <<fence, chunks>>
       ELSE Throw
    /\ UNCHANGED restVars

\* Is a share as it was sealed, or already as it should become?
Expected(e) ==
    IF Quarantines(e.pub, e.priv, run.inv.scanAt)
    THEN Unchanged(e) /\ (Validating => Copied(e))
    ELSE Applied(e, run.inv.scanAt) \/ (~Validating /\ Unchanged(e))
Check ==
    /\ run.at = "check" /\ run.next < Count
    /\ IF StateHeld /\ Expected(Entry_(run.next))
       THEN /\ run' = [run EXCEPT !.next = @ + 1]
            /\ SameDocs /\ UNCHANGED <<fence, chunks>>
       ELSE Throw
    /\ UNCHANGED restVars

\* Mutant of BeginApply: an apply that goes on starts over.
BeginApply_FromStart ==
    /\ run.at = "check" /\ run.next = Count
    /\ IF ~StateHeld THEN Throw
       ELSE /\ fence' = IF fence.phase = "sealed"
                        THEN [fence EXCEPT !.phase = "applying"] ELSE fence
            /\ Go("write") /\ SameDocs /\ UNCHANGED chunks
    /\ UNCHANGED restVars

BeginApply ==
    /\ run.at = "check" /\ run.next = Count
    /\ IF ~StateHeld THEN Throw
       ELSE /\ fence' = IF fence.phase = "sealed"
                        THEN [fence EXCEPT !.phase = "applying"] ELSE fence
            /\ run' = [run EXCEPT !.at = "write",
                                  !.next = IF Validating THEN 0 ELSE fence.next]
            /\ SameDocs /\ UNCHANGED chunks
    /\ UNCHANGED restVars

WriteShare ==
    LET e == Entry_(run.next)
        s == e.share
        scanAt == run.inv.scanAt
        copies == ~Quarantines(e.pub, e.priv, scanAt)
    IN /\ run.at = "write" /\ run.next < Count
       /\ IF \/ ~StateHeld
             \/ ~Expected(e)
             \/ ~Validating /\ ~(fence.phase = "applying" /\ fence.next = run.next)
          THEN Throw
          ELSE /\ IF Validating
                  THEN SameDocs /\ UNCHANGED fence
                  ELSE /\ public' = IF copies
                             THEN [public EXCEPT ![s] = TargetPublic(e, scanAt)]
                             ELSE public
                       /\ private' = IF copies
                             THEN [private EXCEPT ![s] = TargetPrivate(e, scanAt)]
                             ELSE private
                       /\ quarantine' = IF copies THEN quarantine ELSE
                             [quarantine EXCEPT ![s] = [pub |-> e.pub, priv |-> e.priv]]
                       /\ fence' = [fence EXCEPT !.next = run.next + 1]
                       /\ UNCHANGED ledger
               /\ run' = [run EXCEPT !.next = @ + 1]
               /\ UNCHANGED chunks
       /\ UNCHANGED restVars

WriteLedger ==
    /\ run.at = "write" /\ run.next = Count
    /\ IF \/ ~StateHeld
          \/ Validating /\ ledger[Migrant] # ExpectedLedger(run.inv)
          \/ ~Validating /\ ~(fence.phase = "applying" /\ fence.next = Count /\ LedgerFits)
       THEN Throw
       ELSE /\ Go("begin")
            /\ ledger' = [ledger EXCEPT ![Migrant] = ExpectedLedger(run.inv)]
            /\ fence' = IF Validating THEN fence
                        ELSE [fence EXCEPT !.phase = "applied", !.ready = TRUE]
            /\ UNCHANGED <<public, private, chunks, quarantine>>
    /\ UNCHANGED restVars

(***************************************************************************)
(* Verify: every document of both collections, then every sealed entry.    *)
(* Its cursors are in the fence, so that another job goes on from them.    *)
(***************************************************************************)
StartVerify ==
    /\ fence # NoDoc /\ fence.phase = "verified" /\ Eligible(fence.inv)
    /\ Start([at |-> "begin", inv |-> fence.inv, next |-> 0])

VerifyHeld == fence.inv = run.inv /\ Validating /\ fence.ready
BeginVerify ==
    /\ run.at = "begin"
    /\ IF ~VerifyHeld THEN Throw
       ELSE /\ fence' = IF fence.verifying THEN fence ELSE
                  [fence EXCEPT !.verifying = TRUE, !.checked = 0,
                                !.pub = 0, !.pubEnded = FALSE,
                                !.priv = 0, !.privEnded = FALSE]
            /\ Go("verify")
            /\ SameDocs /\ UNCHANGED chunks
    /\ UNCHANGED restVars

Verified(s) ==
    /\ s \in Listed(run.inv)
    /\ LET e == EntryOf(run.inv, s)
       IN IF Quarantines(e.pub, e.priv, run.inv.scanAt)
          THEN Unchanged(e) /\ Copied(e)
          ELSE Applied(e, run.inv.scanAt)
VerifyStep(S, next) ==
    /\ IF VerifyHeld /\ fence.verifying /\ \A s \in S : Verified(s)
       THEN fence' = next /\ UNCHANGED run /\ SameDocs /\ UNCHANGED chunks
       ELSE Throw
    /\ UNCHANGED restVars
VerifyPublic ==
    LET page == FirstOf(Some(public), fence.pub, VerifyDocs) IN
    /\ run.at = "verify" /\ ~fence.pubEnded
    /\ VerifyStep(page, [fence EXCEPT !.pub = LastOf(page, @),
                                      !.pubEnded = Cardinality(page) < VerifyDocs])
VerifyPrivate ==
    LET page == FirstOf(Some(private), fence.priv, VerifyDocs) IN
    /\ run.at = "verify" /\ fence.pubEnded /\ ~fence.privEnded
    /\ VerifyStep(page, [fence EXCEPT !.priv = LastOf(page, @),
                                      !.privEnded = Cardinality(page) < VerifyDocs])
VerifySealed ==
    LET upTo == Min2(fence.checked + VerifyDocs, Count)
        batch == {Entry_(i).share : i \in fence.checked .. (upTo - 1)}
    IN /\ run.at = "verify" /\ fence.pubEnded /\ fence.privEnded
       /\ fence.checked < Count
       /\ VerifyStep(batch, [fence EXCEPT !.checked = upTo])
FinishVerify ==
    /\ run.at = "verify" /\ fence.pubEnded /\ fence.privEnded
    /\ fence.checked = Count
    /\ run' = Idle
    /\ fence' = IF /\ VerifyHeld /\ fence.verifying
                   /\ ledger[Migrant] = ExpectedLedger(run.inv)
                THEN [fence EXCEPT !.phase = "verified", !.verifying = FALSE]
                ELSE fence
    /\ SameDocs /\ UNCHANGED <<chunks, restVars>>

Crash ==
    /\ ~NoJob
    /\ run' = Died
    /\ UNCHANGED <<deckVars, chunks, quarantine, origin, revoked, lost>>

(***************************************************************************)
(* Owners, and time, go on beside the jobs.                                *)
(***************************************************************************)
Create(o, deck) ==
    /\ \E s \in Shares : CreateTx(o, NoOp, clock, deck, [result |-> "created", share |-> s])
    /\ UNCHANGED <<clock, fence, tabVars, migVars>>
Revoke(o, s) ==
    /\ RevokeAnswer(o, s) = "revoked"
    /\ RevokeTx(o, s)
    /\ revoked' = revoked \cup {s}
    /\ UNCHANGED <<clock, fence, tabVars, run, chunks, quarantine,
                   origin, lost>>
Pass == Tick /\ UNCHANGED migVars
Ttl(s) ==
    /\ TtlPublic(s) \/ TtlPrivate(s)
    /\ lost' = (lost \/ ~FenceOpen)
    /\ UNCHANGED <<run, chunks, quarantine, origin, revoked>>

Inventory == BeginFreeze \/ ReadPublic \/ ReadPrivate \/ Seal \/ SealRoot
Apply == Preflight \/ Check \/ BeginApply \/ WriteShare \/ WriteLedger
Verify == BeginVerify \/ VerifyPublic \/ VerifyPrivate \/ VerifySealed \/ FinishVerify
Operator ==
    \/ \E rev \in 1..MaxRevision : StartInventory(rev)
    \/ Supersede \/ StartApply \/ StartVerify \/ Crash
World ==
    \/ \E o \in Owners, d \in Decks : Create(o, d)
    \/ \E o \in Owners, s \in Shares : Revoke(o, s)
    \/ Pass \/ \E s \in Shares : Ttl(s)

OwnV2(o) == {s \in Shares : private[s] # NoDoc /\ private[s].version = 2
                            /\ private[s].owner = o}
MigInit ==
    /\ CallersInit
    /\ origin \in Origins
    /\ public = [s \in Shares |-> origin[s].pub]
    /\ private = [s \in Shares |-> origin[s].priv]
    \* a callable that wrote a share of the new kind kept ledger and quota
    /\ ledger = [o \in Owners |-> IF OwnV2(o) = {} THEN NoDoc ELSE
           Ledger([s \in OwnV2(o) |-> Entry(private[s].bytes, private[s].expires)])]
    /\ \A o \in Owners : ledger[o] # NoDoc =>
           ledger[o].count <= MaxShares /\ ledger[o].bytes <= MaxBytes
    /\ run = Idle /\ chunks = {} /\ quarantine = [s \in Shares |-> NoDoc]
    /\ revoked = {} /\ lost = FALSE
MigNext == Inventory \/ Apply \/ Verify \/ Operator \/ World
MigSpec == MigInit /\ [][MigNext]_allVars

\* Jobs are started again, by revision, until the cutover is done; a job that
\* runs goes on until it ends, throws or dies.
MigFairSpec ==
    /\ MigSpec
    /\ WF_allVars(Inventory \/ Apply \/ Verify)
    /\ \A rev \in 1..MaxRevision : SF_allVars(StartInventory(rev))
    /\ SF_allVars(StartApply)

(***************************************************************************)
(* What is promised.                                                       *)
(***************************************************************************)
HasInventory == fence # NoDoc /\ fence.phase \in SealedPhases

\* A sealed inventory can be read back whole, whichever job died while it was
\* being sealed and whatever an earlier job left behind
\* (legacySharedDeckInventoryFirestore.ts sealFreeze).
SealReadable ==
    HasInventory =>
        \A i \in 0 .. (ChunkCount(fence.inv) - 1) : <<fence.inv, i>> \in chunks

\* Between the seal and the cutover no share that the inventory lists changes
\* under it: each is as it was sealed or as the apply makes it, those before
\* the stored progress are done, and only expiry can take one away
\* (legacySharedDeckMigration.ts:2517-2690, sharedDeckPersistence.ts:200-215).
SealHolds ==
    HasInventory /\ ~lost /\ fence.phase # "verified" =>
        /\ Some(public) \cup Some(private) = Listed(fence.inv)
        /\ \A i \in 1 .. Len(fence.inv.entries) :
              LET e == fence.inv.entries[i]
              IN IF Copies(e)
                 THEN \/ Applied(e, fence.inv.scanAt)
                      \/ Unchanged(e) /\ i > fence.next
                 ELSE Unchanged(e) /\ (i <= fence.next => Copied(e))

Pair(p, q) == /\ p.kind = "current" /\ q.version = 2 /\ SameTimes(p, q)
              /\ q.bytes = DeckBytes[p.deck]

\* When the callables open again no share of an old kind is left: whatever is
\* in the two collections is a complete pair, half of a pair that has expired,
\* or was copied aside (verifyLegacySharedDeckCutover).
CutoverComplete ==
    HasInventory /\ FenceOpen =>
        \A s \in Some(public) \cup Some(private) :
            LET p == public[s]
                q == private[s]
            IN \/ p # NoDoc /\ q # NoDoc /\ Pair(p, q)
               \/ p # NoDoc /\ q = NoDoc /\ p.kind = "current" /\ p.expires < clock
               \/ p = NoDoc /\ q # NoDoc /\ q.version = 2 /\ q.expires < clock
               \/ quarantine[s] # NoDoc /\ {p, q} \subseteq
                     {NoDoc, quarantine[s].pub, quarantine[s].priv}

Promised(s) ==
    IF origin[s].pub.expires # Never THEN origin[s].pub.expires
    ELSE IF origin[s].priv # NoDoc THEN origin[s].priv.expires ELSE Lifetime

\* A link that worked before the migration opens the same deck until the share
\* expires or its owner revokes it, whatever jobs ran, threw or died.
DecksSurvive ==
    \A s \in Shares : origin[s].pub # NoDoc =>
        \/ public[s] # NoDoc /\ public[s].deck = origin[s].pub.deck
        \/ s \in revoked \/ clock > Promised(s)

\* No job ever lets a share live longer than its documents said before it, and
\* none gives up what it has written for what it replaced.
OnlyForward ==
    [][\A s \in Shares : private[s] # NoDoc /\ private'[s] # NoDoc =>
          /\ private'[s].expires <= private[s].expires
          /\ private'[s].version >= private[s].version]_allVars

\* What a migration cannot get past: a share it has no answer for, a ledger
\* that is not the one its shares make, a share that expired meanwhile.
Obstructed ==
    \/ lost
    \/ HasInventory /\ ~Eligible(fence.inv)
    \/ HasInventory /\ ledger[Migrant] \notin {NoDoc, ExpectedLedger(fence.inv)}

\* Jobs that throw and die on the way do not stop the migration: started again,
\* they get to the cutover once jobs no longer die, unless something is in its
\* way for good.
CutoverEnds ==
    []<>(run = Died) \/ <>(Obstructed \/ (HasInventory /\ FenceOpen))
=============================================================================
