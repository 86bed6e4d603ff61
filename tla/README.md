# A verification development of the flash-card library

The application is an offline-first vocabulary trainer: React clients keep a
local mirror and a queue of pending operations in IndexedDB, and a Firestore
database with callable functions keeps the library of each owner. What can go
wrong here is what happens between the two: several tabs of several devices
change the same cards, lose answers, time out, crash, clear the library, and
must neither lose a learner's work nor undo somebody's decision. The same shape,
actors that die between two steps of something shared, returns in the parts
around it: experience points earned in several tabs, decks shared by link, the
two maintenance jobs that rewrite old documents while their owners go on, and
the browser extension that hands a captured word through three processes. The
modules of this directory model these parts, TLC checks them on small
instances, and TLAPS proves the safety of the cloud library, of the flush and
the clear-all that work on it, of the experience points, of the shared decks and
of both migrations for every value of the constants.

Paths below are relative to the repository.

## 1. Inventory

### 1.1 The parts modelled

**Cloud library** (`src/lib/cardRepository.ts`, `src/lib/cardMutationProtocol.ts`,
`functions/src/cardPersistence.ts`, `functions/src/reviewPersistence.ts`).
State: the `libraryEpoch` of `library_state`, a document per card with its
`libraryEpoch` and `revision`, a tombstone per deleted card, a receipt per
review. Operations, each one Firestore transaction: create (callable), patch and
delete (client transactions), review (callable), advance the epoch, purge a page
of the cards an earlier epoch left. Correct means: a pair (epoch, revision) read
once never names another content later; a clear-all hides all there was; one
review is counted once.

**Device queue** (`src/lib/deviceSync.ts`, `src/lib/pendingOperationStore.ts`).
State: the list of pending creates, patches, reviews and deletes, shared by the
tabs of a browser. Operations: persist (merge one in), load (merge and write
back), acknowledge by operation id, clear. Correct means: folding and absorbing
operations never changes what the owner will find in the end, and an
acknowledgement takes away what was decided and nothing else.

**Flush lease** (`src/lib/deviceSync.ts`, `withDevicePendingFlush`). A stored
record with an expiry and a heartbeat, inside `navigator.locks` where a browser
has it. `assertOwnership` is called before each call to the cloud and before
most uses of its answer, but not inside the acknowledgement.

**Flush and direct attempts** (`src/features/librarySession/libraryReplica.ts`,
`src/lib/cardCreation.ts`, `src/lib/cardConflictRecovery.ts`,
`src/features/learning/useLearningStatePersistence.ts`). The flush loads the
queue, settles the operations of earlier generations, sends creates, then
deletes, then patches and reviews, each with one retry after a revision
conflict, and acknowledges. The learning screen stages a patch or review and
tries it at once under the same lease.

**Mirror** (`src/lib/cardMirror.ts`, `runMirrorRefresh` in
`libraryReplica.ts`). A version-guarded copy of the cards, and the *generation*
it takes at the moment. Operations: the conditional writes of staging and of the
flush; a refresh, which captures the epoch, begins a generation, puts the cloud's
cards page by page, lays the queue over them, and finishes by sweeping the cards
that nobody wrote since it began. Correct means: a refresh takes away nothing that
was staged or flushed beside it, and shows nothing the cloud does not have.

**Clear-all** (`src/features/library/libraryMutationRecovery.ts`): advance the
epoch, clear the queue, purge the cloud page by page, clear the mirror.

**Experience points** (`functions/src/gamificationPersistence.ts`,
`src/features/gamification`). State: in the cloud the points, a ledger of the
latest operation ids and a watermark per client stream; in `localStorage` a
snapshot with the pending operations that all tabs share; per tab its snapshot
in memory, its stream (client id and sequence, in `sessionStorage`) and the
saves it has queued. Operations: award, load and publish, schedule a save, the
save transaction, acknowledge, reload. Correct means: each award is credited
once, and none is lost or stuck.

**Shared decks** (`functions/src/sharedDeckPersistence.ts`,
`functions/src/rateLimiter.ts`, `src/features/sharing/sharedDeckSessionController.ts`).
State: per share a public and a private document, per owner a usage ledger,
receipts per operation, rate-limit windows; on the device a list of creates not
answered yet, and each tab's copy of it, its user and the link it shows.
Operations: create and revoke, each one transaction; ask, retry, time out, sign
in and out, reload; Firestore's TTL. Correct means: one operation makes one
share, the ledger lists what is active, the budgets count what was made, and a
tab shows only its own owner's link.

**Migration of older shares** (`functions/src/legacySharedDeckMigration.ts`,
`legacySharedDeckMigrationOperator.ts`, `legacySharedDeckInventoryFirestore.ts`).
State: one job document with its phase, inventory and progress, which is also
the fence in front of the callables; sealed chunks; quarantined copies.
Operations: scan and freeze, seal, apply page by page, verify. Correct means:
what was sealed is what is applied, no working link is lost or prolonged, and
the fence opens on a complete and verified state, and does open.

**Migration of an old library** (`functions/src/legacyLibraryMigration.ts`,
`legacyLibraryMigrationFirestore.ts`, `duplicateCleanup.ts`). State: a job, its
groups (one per word), a fence with a lease, a backup with a plan per group.
Operations: discovery by pages, apply and rollback by groups, and the owner's
own writes between them. Correct means: every word stays as well known as its
owner left it, a rollback restores what was, and the owner is let in again.

**Quick add** (`extensions/lingoflash/background-core.js`, `app-bridge.js`,
`src/features/browserExtension/browserExtensionImportRuntime.ts`). State: a job
per captured word in session storage, an alarm, a worker tab with bridge and
app, and what the background worker holds in memory between two awaits.
Correct means: one word is imported at most once, the user hears one outcome,
and no job stays.

**Deck names** (`background-core.js`, `app-bridge.js`,
`useBrowserExtensionImport.ts`). State: a cached list of deck names under a
random scope, a generation, the scopes each tab made. Correct means: after a
sign-out the names are not shown.

**Session** (`src/features/session/identitySessionController.ts`): the epoch a
tab has verified, which never falls.

How they interact: a tab *stages* into the queue and the mirror; a *run* (flush
or direct attempt), under the lease, carries queued operations to the cloud and
applies each answer to the mirror, to the verified epoch and to the reward of a
review; the *acknowledgement* is a later transaction on the queue. A call the
client stopped waiting for is not cancelled. The reward of a review is an award
of experience points under the name `review:<operation id>`. The migration of
older shares and the two share callables meet in one state document: it is a
job's progress to the one and a closed door to the other. The migration of an
old library closes all card writes of its owner in the same way.

### 1.2 The parts not modelled

| Part | State and operations | What makes it correct | Why not here |
|---|---|---|---|
| Catalogue cache (`features/catalogCache`) | staged, active and previous versions | a reader sees one complete version | one document, one writer |
| Library facets (`functions/src/libraryFacetPersistence.ts`) | counters, event receipts | each event is counted once | one transaction with its receipt |
| AI request budgets | windows | the limit | the same transaction as the share budgets, which are modelled |
| Card quota | a count | the limit | a limit of hundreds of cards, counted outside the transaction |
| Card intake | batches of creates above the queue | no word lost or created twice | sequential; its queueing is `Stage` |
| Practice and daily sessions | reducers of one tab | a session ends once | no second actor |
| FSRS scheduling | floating-point arithmetic | | outside TLC's reach: opaque here |
| AI, images, speech, input validation, UI, content tools, offline media | | | I/O, stateless checks or presentation |

`PROJECT.json` lists each part, and under `hazards` each line that is hard to
test with the properties that watch it, or the reason none does.

## 2. Modules

| Module | What it is |
|---|---|
| `LibraryServer` | the cloud: one action per transaction, one `...Reply` operator per handler for its answer |
| `VersionedLibrary` | the abstract promise: per card a stamp that rises with every change of what the card shows |
| `LibraryRefinement` | the mapping from the first to the second |
| `Lists` | what a list of operations holds, and what is left of it without some |
| `PendingQueue` | the queue's pure algorithms: merge, fold, absorb, acknowledge, split by epoch, flush order |
| `PendingQueueProofs` | lemmas on them for queues of any length, checked by TLAPS |
| `DeviceQueue` | several tabs on one queue, with operations stamped before they are persisted |
| `DeviceQueueProofs` | theorems on it, checked by TLAPS |
| `CardSync` | devices, tabs, leases, runs, late calls and clear-all, composed with `LibraryServer` and `PendingQueue` |
| `CardSyncProofs` | theorems on it and, in its last part, on `LibraryServer` and its refinement, checked by TLAPS |
| `XpStreams` | the experience points: tabs, streams, saves, the transaction |
| `XpAccount` | the abstract promise: an award that was earned is credited once |
| `XpStreamsProofs` | theorems on it, checked by TLAPS |
| `SharedDecks` | shares, their ledger and budgets, the two callables, the tabs that ask |
| `SharedDecksProofs` | theorems on it, checked by TLAPS |
| `DeckMigration` | the cutover of older shares; extends `SharedDecks`, whose callables run beside the jobs |
| `DeckMigrationProofs` | theorems on it, checked by TLAPS |
| `LibraryMigration`, `LibraryMigrationProps` | the migration of an old library, and what it owes its owner |
| `LibraryMigrationProofs` | theorems on it, checked by TLAPS |
| `QuickAdd`, `QuickAddProps` | a captured word's job, and what the extension promises of it |
| `QuickAddProofs` | theorems on it, checked by TLAPS |
| `DeckNames` | the deck names lent to the extension |
| `MC...` | bounded instances for TLC |

### 2.1 LibraryServer

`epoch`, `card`, `tomb`, `receipt` are the four kinds of documents. A document
of revision 0 stands for an absent one: no handler writes revision 0. `val` is
the content, field by field; `last` is the time of the latest review the
schedule shows, the only part of it the review handler compares. The replies
keep the order of the handlers' checks, for a refusal's kind decides what the
client does. `BehindDeletion` is the `createdAt` against `deletedAt` comparison;
`DeleteBase` is the maximum the delete takes over the command, the document and
the tombstone; a receipt's fingerprint covers the base revision and the epoch.
A receipt expires (`ExpireReceipt`) before Firestore removes it
(`PurgeReceipt`), and in between the transaction's `create` fails on it.

The clear-all's purge (`PurgePage`) may run for any generation up to the
current one, since a slow device can still be purging for an earlier clear-all.

### 2.2 PendingQueue and DeviceQueue

`Merge` is `mergePendingOperations`: sort by stamp, absorb one by one per card,
sort again. `Absorb` has the code's rules: nothing but a create that is not
older follows a delete; a create or delete replaces what was queued; two
adjacent patches fold; a review never folds. A value is the id of the operation
that set it, so that a field tells who wrote it last.

`DeviceQueue` separates the two steps the code has, reading the clock
(`StampOp`) and the IndexedDB transaction (`Persist`), so that two tabs can
persist against the order of their stamps. Its acknowledgement removes any part
of a snapshot that was loaded before other operations arrived.

### 2.3 CardSync

Per device `queue`, `view` (the mirror), `sync` (the refresh the mirror takes) and
`lease`; per tab `known` (the verified epoch, -1 after a reload), `run` and
`refresh`. A run goes

    idle -> (direct ->) run -> wait -> got -> run ... -> ack -> load -> run -> idle

`Send` is one call leaving, `Serve` the transaction that answers it (or its one
rebased retry), `Handle...` what `runFlush` or the direct attempt does with the
answer: settle it for the acknowledgement at the end, acknowledge it at once
(reviews), keep it queued, or end the run. `Ack` is the queue transaction, and
`RefreshPending` the load that follows it, which merges what is left and writes
it back. The lease is checked where the code checks it (`Send`, `Sure`,
`AssertFinal`) and not in `Ack`.

A refresh runs beside the flush, one step per await:

    idle -> begin -> pages -> page -> pages ... -> load -> overlay -> finish -> idle

`CaptureEpoch` reads the epoch, `BeginSync` makes the mirror take this refresh,
`ReadPage` reads any part of the cards it has not passed and `PutPage` writes that
page, in a transaction of its own; `LoadOverlay` loads the queue, `OverlayNext`
lays one operation over the pages, `ConfirmEpoch` compares the epoch after the
pages and after the overlay, `FinishSync` sweeps. `sync[d].kept` are the cards
written in the generation of the refresh: by its pages, or by another write that
joined it (`Joined`, `JoinUpsert`, `JoinPatch`). A second refresh that begins, a
card of a later epoch, a changed epoch and a reload end it (`AbandonRefresh`,
`Ended`). The mirror has no tombstones: a card that was deleted since its page was
read comes back with `PutPage`, and `revived` remembers it until a refresh that
did not see it finishes.

`late` holds the calls nobody awaits: after a timeout of the flush the page's
retry chain goes on (`alive`), after a crash only the request already sent does.

A review's reward is granted in `HandleReviewed`. `ClearStart`, `ClearQueue`,
`ClearCards`, `ClearView` are the steps of a clear-all.

History variables (`ops`, `writes`, `saved`, `decided`, `merged`, `cleared`,
`revived`) record what was staged and what became of it; no action reads them, but for the
length of `ops`, which serves as the clock. `rewarded` is what the learner is
credited with.

### 2.4 XpStreams

An operation is an award with its place, `[award, client, seq]`; client 0 is a
*plain* operation, which has its caller's name for an id. `Named` awards (the
rewards of reviews) start plain, all others (games, intake) take a place in the
tab's stream at once. Reading the stored snapshot gives every plain operation a
place (`Upgrade`), and `Listed` says when an id set names an operation, by its
id or by its `legacyId`. The points are kept as the number of times each award is
in them, so that an award counted twice shows.

`Synced` is what `addXpToStoredGamification` and
`acknowledgeStoredGamificationSave` share: read the store, give places, merge.
`Schedule`, `Save`, `Acknowledge`, `Ignore` and `Fault` are the save effect of
`useGamification.ts` and the queue of saves in `gamificationStore.ts`: a
save captures its snapshot when its timer fires, waits for the saves ahead of
it, and is no longer awaited (`live`) once the snapshot has changed; a failed one
that is still wanted is sent again unchanged. `Classify`, `BootstrapGap`,
`Refused`, `Outcome` and `Recent` are the transaction, for an account that exists
and for the first save. `Publish` writes over the stored snapshot without reading
it, as the code does.

### 2.5 SharedDecks and DeckMigration

`CreateAnswer` keeps the order of the transaction's checks: age of the
operation, receipt, fence, ledger, quota, budgets; a receipt answers even behind
the fence. `CreateTx` and `RevokeTx` are the whole transactions. A ledger is kept
as the code keeps it, with its counters and with entries that have expired
(`CountersAgree`, `LedgerNow`). `Pending` and `Normalized` are what a tab makes
of the stored operations, with its own copy as the fallback. A deck is a model
value with a size and a 32-bit fingerprint, and two decks may share one.
`fence` is the migration's state document as the callables read it.

`DeckMigration` gives that document its writers. `run` is what the job under way
holds in memory (its place in a scan, the entries it read); a job that dies
leaves documents and loses `run`. The scan, the seal, the apply and the
verification move one page, chunk or share per step, and each step is one
transaction. `Origins` are the shares before the migration: current pairs,
versions without owner or expiry, halves, malformed documents, and another
owner's. `OriginsAssumption` says of them what the older callables guaranteed: no
document was written for longer than a lifetime, the oldest kind has no expiry,
and of those that can be read it alone has none. Identifiers are numbers
(`OrderAssumption`) because the scan merges two collections in the order of their
identifiers; `InOrder` is that order.

### 2.6 LibraryMigration

One job at a time, as `.github/workflows/repair-legacy-libraries.yml` has it.
`ReadPage` and `CommitPage` are the discovery, page by page; `ApplyGroup` merges
the cards of one word in one transaction, with its copy in the backup written
before; `FinishApply` reads the final library and seals it. `Catch` is the
handler that lifts a fence under which nothing was written. The fence's lease
runs out (`LeaseOut`), after which another job takes it over. A card is its
generation, its revision and a level that stands for what was learned; `known`
is the level of each word when its owner last wrote. `profile` stands for the
counters of `resource_usage` and the facet state.

### 2.7 QuickAdd and DeckNames

Every await of the background worker is a place where others may step in: `mem`
holds, per job, the copy the worker goes on with. Saves outside the terminal
lock overwrite what was stored meanwhile, and `undone` remembers the jobs whose
claim was lost that way. `Rest` is a worker the browser stopped while it was
idle and started again, with its sweep at module load; `Stop` kills it in the
middle. `page` is the worker tab: bridge, app, and its session storage, which
survives a reload. In `DeckNames` each tab has its scope, and an outbox the
bridge works off in order.

### 2.8 Simplifications

- `verifyPendingCardOperations` acts only on a card that has another id for the
  same word; words and ids are one-to-one here, so it has no effect.
- All clocks of `CardSync` are in step, and a staged operation is persisted in
  the same step; `DeviceQueue` covers the other orders.
- Counters stay below their limit in `CardSync`, but in `CardSync_faults`, where
  a card that every call has changed is at it; `LibraryServer_one` runs into the
  limit everywhere.
- Receipts do not expire in `CardSync`; they do in `LibraryServer`.
- The queue and the mirror are written in one step when a tab stages an operation;
  the code writes the queue first.
- A mirror that is fresh enough is not refreshed again
  (`libraryReplica.ts:815-821`): any refresh may be the one that is needed.
  The cards of a page the user looks at, which are also written to the mirror
  (`useCloudLibraryPage.ts:90`), are not modelled.
- In `XpStreams` a render follows its `setSnapshot` at once; the number of
  attempts is not counted, since the network's return and the focus start them
  again; amounts, days, streaks and the clamping of the points at zero are left
  out, and so is the bound of the pending list (2048).
- `Given` cards exist at the start at revision 1 and in every mirror.
- In `SharedDecks` a call lives for seconds and a tick of the clock for days, so
  no call outlasts a tick; a client's clock is not ahead; TTL deletes strictly
  after the expiry; the device's storage is available; the three budgets of a
  create are an owner's and the service's; the budget and the validation errors
  of a revoke are calls that fail (`Lose`).
- `DeckMigration` leaves out older documents whose expiry is later than the start
  of the scan plus thirty days (`OriginsAssumption`): the older callables wrote
  none, and the migration would shorten them (`legacySharedDeckMigration.ts:2044`). It
  also leaves out the evidence an operator brings (index preparation,
  backup signature) and the history of superseded jobs. One job runs at a time
  (concurrency group of `.github/workflows/migrate-legacy-shared-decks.yml`).
- `LibraryMigration` counts fence revisions from the job's own begin, takes the
  scan of the final library and its finalization as one step, and leaves out
  the compare-and-set of the backup root's token, invalid words, and the limits
  of 1000 pages and of document sizes. `abortLegacyLibraryMigration` is called
  by nothing and is not modelled.
- `QuickAdd` leaves out the legacy bridge form, pages without `sessionStorage`,
  duplicated tabs, translation only, selection icon, settings and recent lookups.

## 3. Runs

| Run | Instance | Distinct states | What it shows |
|---|---|---|---|
| `LibraryServer_one` | 1 card, counters to 3, 2 times, 2 ids | 71 652 | types and limits; no document ahead of the epoch; a re-created card outranks its tombstone; receipts name revisions that were reached, one per review; the refinement |
| `DeviceQueue_tabs` | 2 tabs, every kind of operation | 1 050 580 | deletes stand, reviews and creates are kept, the latest edit wins, the write-back of a load is harmless |
| `CardSync_tabs` | 1 device, 2 tabs of which one refreshes the mirror, 3 operations, no faults | 1 174 456 | every edit reaches the cloud, the last intent holds field by field, the mirror settles on the cloud's cards whatever a refresh is put between |
| `CardSync_faults` | 1 device, 2 tabs, one direct, every kind of operation; timeout, crash, freeze; revisions to 4 | 322 620 | rewards only for committed reviews; nothing dropped; creates, deletes and reviews change the cloud once each |
| `CardSync_clear` | 2 devices, one that edits two fields and one that creates, 3 operations, a clear-all, a timeout, fairness | 726 209 | neither an operation from before a clear-all nor a value of one is written after it, but for an edit folded into a later one; every queue drains |
| `CardSync_reviews` | violation, 2 devices, 5 operations in a given order | | an edit that a conflict leaves queued is folded into a later one once the review between them is acknowledged, and removed with it |
| `XpStreams_tabs` | 2 tabs, 2 awards, one reload, one lost call or answer, saves of one operation, a ledger of one id | 1 031 967 | each award is credited once; no stream has a gap; when the tabs are at rest every award is in the account |
| `SharedDecks_tabs` | 2 tabs, 2 owners, 2 decks of one fingerprint, 2 shares, 3 calls, clock to 2 | 575 953 | the ledger lists the active shares; one share per operation; the budgets count the shares; a link belongs to who sees it; an unanswered create stays known |
| `DeckMigration_jobs` | 2 shares of every older kind, pages, chunks and batches of one, 2 revisions, jobs that die, fairness | 133 765 | what is sealed can be read and holds until the cutover; the ledger and the quota hold after it; no link is lost or prolonged; the cutover ends |
| `LibraryMigration_jobs` | 2 words, 3 cards on 2 pages, 2 writes of the owner, 2 faults, fairness | 169 480 | no learning is lost and no deleted word comes back; a rollback restores what was; the fence lifts |
| `QuickAdd_tab` | 2 jobs of one page, one of them left over, 1 fault, deadline of one tick, fairness | 587 716 | imported at most once; one outcome; every job ends |
| `DeckNames_tabs` | violation, 2 tabs, 1 owner | | after a sign-out the second tab's deck names stay shown |

The bounds. Every property relates at most two or three operations on one card
(an edit, the one it folds with, the operation that interferes), one answer, and
at most one fault between; two or three operations, one card and two tabs or
devices are what these stories need, and one more fault than that in the
single-device runs. Two fields separate folding from overwriting. Counters to 3
let a card be created, deleted, created again and meet the limit. The mutants in
`PROJECT.json` are the evidence that the bounds are not too small: each property
fails, in the same instance, for a plausible slip in the code it is about.

Larger instances that were searched once and found to hold: `CardSync_tabs` with
four operations (7.1 million states), with two cards (3.5 million), and with both
tabs refreshing and two operations (0.9 million), where each can end the other's
refresh; `CardSync_clear` with a card that either device creates (0.8 million), where
a create is refused because a clear-all came first and ends the flush; and, for the
safety properties, with a refresh on the second device (7.2 million). In the runs of
the table a flush ends on an answer (`HandleFailed`) in `CardSync_faults` only, on a
card at its limit.

`DeleteStands`, `ReviewsAndCreatesKept` and `LatestEditWins` assume that the
tabs persisted in the order of their stamps (`InStampOrder`): without it a late
create legitimately replaces both deletes around it. `LastIntentHolds` and
`MirrorSettles` are about one device without direct attempts, without faults and
without a second create of the same card: with a second device the other's edit
wins by design, after a timed-out patch an older value can win (section 4), and a
card deleted and created again offline keeps its old content (the server answers
that it exists). `MirrorSettles` needs that nothing is cleared and no call of a
flush times out, for what the cloud then does the mirror learns with a later
refresh. The third operation of `CardSync_tabs` is what a refresh needs to go wrong: a
create that a page misses, an edit or a delete of it, and its flush, all between the
steps of one refresh. `NoWriteFromBeforeClear` needs three too: an edit on each side
of the clear-all and a create that lets the second find its card; without its
exception the run finds the fold of item 6 (section 4). `EditsReachTheCloud` is checked on the same instance, but needs
neither one device nor the absence of faults: what it needs is `FlushedEdits`
(section 5). With direct attempts it fails (section 4, item 1), and with reviews
too, which is `CardSync_reviews`. That run stages five operations in an order
that its action constraint fixes (`OneReviewBetween`: an edit, a review and an
edit on one device, two edits on the other), each queued under its own id; the
flushes, the cloud and the answers go as they like. Five
operations in any order are too many to search for one that needs this order;
a constraint only leaves out behaviours, so the one it finds is the system's.

`AppliedOnce` is checked where a single device's tabs race each other, late calls
and lost leases; of several devices the theorem `WritesHappenOnce` speaks.

`XpStreams_tabs` has no named awards, for with them both safety properties fail,
and only the tab that reads the cloud is loaded again, for another tab's
operation that `Publish` overwrote would be lost with its tab (both in section
4). The theorems on `NoStreamGap` and `CreditedAtRest` have the same two
conditions; the one on the refinement has none, and speaks of the awards without
a name (`Unnamed`). The ledger of one id forgets at once what the watermarks must still
know; two saves under way are one that is stale and one that is awaited.
`CreditedAtRest` stands for liveness there: it says that nothing is owed when
there is nothing left to do, not that the tabs come to rest.

`SharedDecks_tabs`: a quota of one share makes the ledger decide, a window of
one tick with one create per owner makes the budgets restart, and two ticks with
a lifetime of one let a share, its receipt and its operation run out while the
operation is retried. Two decks of one fingerprint are the case in which a
tab's pending operation is another deck's. `DeckMigration_jobs`: pages, chunks
and verification batches of one document put a place to die between any two
documents; its two shares are one of each older kind beside a legacy one, or
beside room for a new one. `LibraryMigration_jobs`: one word with two cards, one
with a card under a foreign id, so that both the merge and the move happen; two
faults are a job that dies and its successor that loses a reply.
`QuickAdd_tab`: one page may have one job, so that a job that is left over is
what the next command meets.

Deadlock is not checked: all models stop when their operations are used up.

### 3.1 Fairness

`SyncFairness`, used by `CardSync_clear`: a tab's run goes on and its calls are
answered, since they are promises of a running page; a flush starts again and
again, because `useLibraryDeviceSync.ts` flushes on a change of the pending
count, on focus, when the network returns and every sixty seconds
(`useLibraryDeviceSync.ts:251-263`); the epoch is read again with every refresh
and when a refusal says so; an abandoned lease runs out by its expiry time. Weak
fairness is enough; that of `StartFlush`, `Ack` and `RefreshPending` is written
out with their guards (`CanFlush`, `pc = "ack"`, `pc = "load"`) in place of
ENABLED, which would merge the queue again in every state. Refreshes of the mirror
need no fairness: no property says that one finishes. One call times out in the run; a network that fails for ever would drain no queue.

`MigFairSpec`: a job that runs gets to its next transaction (weak), and an
operator who sees it dead or refused starts inventory and apply again (strong,
because jobs in between disable a start). That is the procedure of
`docs/runbooks/security-remediation-rollout.md`, not something the code does by
itself. `CutoverEnds` claims nothing of a history in which jobs die for ever, nor
of one that meets what no job gets past (`Obstructed`): a share that expired
under the fence, an inventory over the quota, a ledger of another origin.

`LibFairSpec` is the same for the other migration: a running job goes on, a
lease runs out, and each of the three jobs is tried at a time when nothing is
held. `FenceLifts` speaks of the fence of an apply; a rollback's may stay
(section 4).

`QuickAddFairSpec`: time passes, the worker's promises settle, and a stopped
worker is started again by the next event, with its sweep.

## 4. Disagreements met

`DeckNames_tabs` is a violation run: with one owner in two tabs, the clear of
the first tab deletes the generation and the clear of the second, which comes
with it, is refused and given up (`background-core.js:276-281`,
`app-bridge.js:80-99`), although "The cache uses an opaque random scope and is
cleared on account change or sign-out" (`extensions/lingoflash/README.md:30`).

`CardSync_reviews` is the other one, an edit that is lost. One device queues an
edit of a card, a review and a second edit; merging never folds across a review
(`deviceSync.ts:174-177`), so the queue has all three. In a flush the first edit
conflicts with another device's write, is rebased, conflicts again and stays
queued (`libraryReplica.ts:746-749`, "Card changed; update remains queued."). The
review goes through and is acknowledged at once. Behind each acknowledgement the
queue is loaded again (`refreshPending`, `libraryReplica.ts:271-289`), which merges
it and writes it back (`deviceSync.ts:257-267`): with the review gone the first edit
folds into the second and takes its id. The second edit, of which the flush holds
the copy it loaded before, goes through and is acknowledged by that id, and the
first leaves with it: written nowhere and queued nowhere, against "Never: weaken
Rules, silently drop pending work" (`docs/source-hardening-spec.md:47`). That an
acknowledgement, too, merges before it removes ids (`deviceSync.ts:514-526`) is not
the cause: removing first would change nothing, since the load folds what is left.

These others show up when a guard of a model or a bound of a run is opened; the
runs keep out of their way, as section 3 says, and the hazards name the lines.

1. **Direct attempt of a folded patch** (`useLearningStatePersistence.ts:162`):
   the patch as staged is sent, the id of the folded one is acknowledged, and the
   earlier edit leaves the queue unsent (`CardSync_tabs` with a direct tab).
2. **Reward of a rebased review** (`reviewPersistence.ts:311`): the receipt's
   fingerprint includes the base revision, so the retry of a review whose answer
   was lost is a conflict, which the client settles as a rejection.
3. **Delete before its create** (`cardRepository.ts:1317`): no tombstone is
   stored for a card that is not there yet, and a create that was still under way
   brings the card to life, against `docs/comprehensive-upgrade-roadmap.md:490`.
4. **Gap in a stream** (`gamificationStorage.ts:415`): an acknowledged plain
   operation takes a sequence number that is never sent, and the transaction
   passes over everything after it.
5. **Two ids for one award** (`gamificationPersistence.ts:499`): the ledger keeps
   the id of the place and not the name, so the name is credited again.
6. **A fold across a clear-all** (`deviceSync.ts:184`) gives an edit staged before
   it the later epoch, and `NoWriteFromBeforeClear` excepts it; **a patch that timed out** is rebased by its late retry and
   written again over a newer edit (`cardConflictRecovery.ts:38`); **the first
   read of the cloud** overwrites what another tab stored
   (`useGamification.ts:151`).
7. **Verification after the cutover** (`legacySharedDeckMigration.ts:2813`): once
   owners create or revoke, a verification started again finds another ledger
   than the sealed one, fails, and its open progress closes the callables of
   everybody. The comment at `sharedDeckPersistence.ts:217` has a verified cutover
   reopen them for every owner.
8. **TTL under the fence**: a share that expires between its seal and its
   verification makes every later job throw (`Obstructed`); the sealed inventory
   cannot be given up once the first share is written.
9. **Rollback of an old library** (`legacyLibraryMigrationFirestore.ts:2084`): a
   rollback started again after its first group skips the check of the final
   library; if the owner reviewed one of the remaining cards in between, its
   group refuses for ever and the fence stays. The spec
   (`docs/specs/legacy-library-admin-migration.md:72-73`) allows a rollback
   "only when owner epoch, final card count and migrated revisions still match".
10. **Duplicates on pages apart** (`legacyLibraryMigrationFirestore.ts:603`): the
    group of a word must carry the source revision of the page before, and one
    last written earlier does not, so such a library is never discovered, while
    the spec has one of 1 175 cards "complete from one protected operator run".
11. **Cleared cards in a merge** (`duplicateCleanup.ts:382`): documents a
    clear-all left for its purge are joined with the current ones and written
    under the current epoch. `AsTheUserLeftIt` excepts them (`Leftover`).
12. **Saves outside the terminal lock** (`background-core.js:473`, `574`): a
    worker that saves the job it read before an await overwrites a claim. A job
    can then both fail and succeed for its user; `OneOutcome` excepts these jobs
    (`undone`), while the extension's `tests/background.node.mjs` says that "a
    claimed terminal error must suppress a late success".
13. **The bridge gives up** (`app-bridge.js:372`) on an app that has already taken
    the word: it is reported as failed and saved.
14. **A dead link** (`sharedDeckSessionController.ts:334`): a tab whose own list is
    older than the device's answers a request with a settled operation, whose
    share may be revoked since.
15. **A deleted card comes back in the mirror** (`libraryReplica.ts:830`): a delete
    that another tab flushes and acknowledges between a page's read and its put is
    in no queue any more when the refresh lays the queue over its pages, and the
    mirror has no tombstones. The card is shown, and the mirror is called complete,
    until a later refresh finishes, while "New, updated, and deleted cards update
    the mirror" (`docs/specs/local-card-mirror.md:54`). `MirrorSettles` excepts these
    cards (`revived`).

## 5. Proofs

The last part of `CardSyncProofs` is about the server alone. It proves, for every set of cards, fields, values and ids and
every limit (from the assumptions `CounterAssumption`, `ClockAssumption`,
`PageAssumption`, `ValuesAssumption` of `LibraryServer`):

| Theorem | States |
|---|---|
| `ServerTypeCorrect` | `ServerSpec => []ServerTypeOK` |
| `TombstonesOutranked` | `ServerSpec => []TombstoneOrder` |
| `NothingAhead` | `ServerSpec => []NoFutureDocuments` |
| `ReceiptsSound` | `ServerSpec => []ReceiptsNameRevisions` |
| `OneReceipt` | `ServerSpec => []OneReceiptPerReview` |
| `ServerImplementsVersionedLibrary` | `ServerSpec => ImplementsVersionedLibrary` |

The inductive invariant is `ServerInv`. None of the five properties is inductive
alone: that a receipt's revision is new needs that every receipt of the
generation is at or below `Stamp`, that `Stamp` never falls in a generation
needs that a live card outranks its tombstone, and both need that no document is
ahead of the epoch, or an epoch advance would bring one to life. Each action has
an *effect* lemma, which says what it does to one card's stamp and content, and
a *keeps* lemma, which concludes `ServerInv'` and that the abstract library
takes a step or stutters. A purge touches only documents that no longer count
and so is a stutter of the abstraction.

`SharedDecksProofs` proves, for every set of owners, decks, shares and tabs and
every limit, lifetime and window (from `SharesAssumption`, `TimeAssumption`,
`DeckAssumption` and `BoundAssumption` of `SharedDecks`; fingerprints and limits may be anything):

| Theorem | States |
|---|---|
| `InvHolds` | `DeckSpec => []DeckInv`, the inductive invariant |
| `OneShare` | `DeckSpec => []OneSharePerOperation` |
| `NothingForgotten` | `DeckSpec => []UnansweredStaysPending` |
| `LinksBelong` | `DeckSpec => []LinkBelongs` |
| `LedgersAgree` | `DeckSpec => []LedgerBacksShares` |
| `BudgetsCount` | `DeckSpec => []BudgetCountsShares` |
| `QuotaHolds` | `DeckSpec => []QuotaHeld` |

`DeckInv` joins what the cloud and the devices know of an operation, because no
promise is inductive on one side alone:

- `OneName`: wherever an operation is known (in storage, in a tab's copy, in a
  call under way, in a share made) it has one owner and one time of asking, and
  its number has been minted. Two calls with one operation are therefore retries
  of one request.
- `ReceiptsBack`: a share's receipt stands until the server refuses the operation
  as too old. It needs that a share is made at or after the time it was asked for,
  because a receipt lives from the making and the refusal counts from the asking.
  With `OneName` it gives `OneSharePerOperation` (`FirstShare`).
- `StillPending`: one operation of an owner and a fingerprint, and every
  operation asked for, unanswered and young enough, is in storage. That storage
  holds no two operations of one owner and fingerprint is what keeps a
  normalization from dropping the one that counts.
- `SharesBack`, `LinksBack`: documents, answers on their way and links shown are
  of a share made for that owner and that deck; a tab awaits only calls of its
  own user.

`LedgersBack` and `BudgetsBack` are invariants relative to `DeckInv`. The first
needs that an owner without a ledger has no share, which is the guard that sends
owners of older shares to the migration; the second, that no share is later than
the window it was charged to, so that a window that restarts starts at one.

`QuotaHeld` is inductive beside `LedgersBack`, which says that the transaction
counts what is active. What it needs besides is arithmetic of sums: `Total` folds
over a set, and `SumsExist` shows that the function behind the fold exists and is
unique on every finite set, by a smallest set without one (`SmallestSet`), so that
an element more adds its size (`TotalWithout`) and a part of a set sums to no more
(`TotalPart`). The run that checks `QuotaHeld` does so under `MigSpec`, where an
owner has older shares too; the theorem is about the callables alone.

`CardSyncProofs` proves, for every set of devices, tabs, cards, fields and
operations, every number of faults, clear-alls and staged operations, and
whichever tabs try operations at once or start unverified (from
`HomeAssumption`, `TabsAssumption` and `StagedAssumption` of `CardSync` and the
assumptions of `LibraryServer`):

| Theorem | States |
|---|---|
| `SyncInvariant` | `SyncSpec => []SyncInv`, the inductive invariant |
| `RewardsAreBacked` | `SyncSpec => []RewardBacked` |
| `WritesHappenOnce` | `SyncSpec => []AppliedOnce` |
| `NothingIsDropped` | `SyncSpec => []NothingDropped` |
| `ClearedIsNotWritten` | `SyncSpec => NoWriteFromBeforeClear` |

The cloud sees only what a call carries, and a call may have left at any time
before, so nothing can be said of a step without saying what travels: whatever
stands in a queue, in a run or in a late call is a copy (`Copies`) of an
operation of the log `ops`, in which a fold may have widened the fields and a
flush replaced an unverified epoch, and nothing else. What each field of a copy
sets is the operation's own value or that of an edit of the same card folded into
it (`OwnOrFolded`). On that rest the two halves of `SyncInv`:

- `CloudInv` relates documents and log. A create that was written finds, for as
  long as its generation lasts, the card living or a tombstone that is not older
  (`CreatesOK`); the last delete of a card finds its own id in the tombstone
  (`DeletesOK`); a review finds its receipt (`ReceiptsOK`). That an operation
  staged before a clear-all is of an earlier generation than the library's
  (`StagedOK`) gives that no such operation is written after it, and `Copies` that
  no value of one is, but of an edit that was folded. Together they are
  `ClearedIsNotWritten`; its exceptions, which are those of
  `NoWriteFromBeforeClear`, are a tab that did not know its epoch and the fold of
  item 6 (section 4).
- `ClientInv` relates devices and log. A run that was told that a review is done
  was told by a receipt or by the write itself, and what a run sets aside for
  its acknowledgement was answered for good (`Sound`). The acknowledgement looks
  at no lease, and here is why it need not: it removes ids with a final answer,
  from whatever the queue has become.

`NothingDropped` also needs to know what a merge loses. `PendingQueueProofs`
shows it for queues of any length: sorting keeps the operations (`SortFacts`),
keeping some keeps just those (`KeepFacts`), an absorbed operation goes only to
one that may take it (`AbsorbFacts`), and so does what a whole merge loses
(`MergeFacts`). The functions of `PendingQueue` recurse on positions, and these
lemmas are inductions on them: `SetInduction` states induction for a set
instead of a predicate and follows from the well-foundedness of `<` on `Nat`.

Three exceptions in these properties were found when their proofs failed, and TLC
confirms each: a delete that is sent again after the card was created, deleted
and created once more is not recognised by a tombstone that names only the last
delete; an operation of an unverified epoch is bound by every flush anew, so
that a create of it can be written in two generations; and for the same reason
it can be written after a clear-all that came between.

Its last part proves one more theorem, under a hypothesis on the constants:

| Theorem | States |
|---|---|
| `EditsArrive` | `FlushedEdits => (SyncSpec => []EditsReachTheCloud)` |

`FlushedEdits` says that the tabs leave their operations to the flushes
(`DirectTabs = {}`), that no card is reviewed or created twice and that nothing
is cleared; the number of devices and tabs, what times out, crashes, freezes or
comes late, who starts unverified and which fields are edited are free. Two of
its conditions are needed because the code loses edits without them: reviews by
`CardSync_reviews`, direct attempts by item 1 of section 4. The other two are the
proof's: it is about one generation, in which a card's create comes before
everything else that is staged on it. With a clear-all an edit staged before it can
fold into one staged after it (item 6), and the refusal of a second create decides
what becomes of the edits behind it.

The property is not inductive: that an acknowledged edit was saved is known to
the run that acknowledges it, and what it takes away depends on what the queue has
become. The invariant `EditInv` says, beside `SyncInv`:

- `QueuesTidy`: on each card a queue is in the order of staging, its create comes
  first, its delete is alone, and edits stand folded into one (`Tidy`). What is
  tidy a merge only sorts again (`MergeTidy`), so that an acknowledgement takes
  from it just the ids it names (`AckTidy`); the review in `CardSync_reviews` is
  what makes a queue that an acknowledgement leaves untidy. One more operation
  makes of it a tidy queue again (`MergeStages`, from `MergeOnto` in
  `PendingQueueProofs`).
- `RunsUpright`: what a flush holds under an id is what the queue holds under it
  (`Alike`), although tabs go on staging, because a later edit folds under its
  own, new id. A flush sends creates before edits (`CreatesAhead`), an edit
  whose card nobody deletes is sent only when the card is there or its create goes
  out before (`Prepared`), and so it is never answered that the card is missing;
  what is settled was saved (`Done`).
- `MirrorsTrue` and the last part of `QueuesTidy`: an edit is staged on a card the
  mirror shows, and such a card is in the cloud or its create is queued (`Known`).
  The same holds of the cards a refresh is about to put there, from the page it read
  or from the queue it loaded (`Brings`): what it read may be deleted since, but of a
  card nobody deletes it stays true.
- `NoEditLost`: the property, field by field, of the cards nobody deletes. For the
  others `EditsReachTheCloud` follows from the delete (`EditsArrived`).

Before it was proved, TLC looked at `EditInv` in about a million states of each of
three instances (one device, two devices with a fault, one with two), none of
which it searched to the end.

`DeviceQueueProofs` proves, for every set of tabs, cards and fields, every kind of
operation a tab may stage and every number of operations, drafts, ticks and
clear-alls (from `StagedAssumption` of `DeviceQueue`):

| Theorem | States |
|---|---|
| `DeleteStandsAlways` | `DQSpec => []DeleteStands` |
| `ReviewsAndCreatesKeptAlways` | `DQSpec => []ReviewsAndCreatesKept` |
| `LatestEditWinsAlways` | `DQSpec => []LatestEditWins` |
| `WriteBackHarmlessAlways` | `DQSpec => []WriteBackHarmless` |

None of the first three is inductive, for each speaks of operations that are gone
from the queue only where nothing later explains it. The invariant says what the queue
owes each operation that ever arrived, whatever became of it:

- `DQBase` holds in any order of arrival: a queued operation stems from one that
  arrived, which its id names (`From`, `Unique`), ids are used once across
  drafts and arrivals (`Numbered`), and what was settled when an operation
  arrived stays settled (`Settling`).
- `DQOrder` holds while operations arrive in the order of their stamps. `Proper`:
  a card's delete is its only command, and its create comes first. `Live`: what is
  settled is not queued. `Alone`: no delete was open when the queued one arrived.
  `Waits`: an open delete is queued, or the queued one was open when it arrived.
  `Kept`: a create or a review is queued as it arrived, unless it is `Passed` by
  something later or was refused for a delete. `Written`: the value of the last
  patch of a field is that of the queue's highest patch that sets it.

A new arrival either replaces its card's commands, joins them, is refused or
folds (`AbsorbedHow`), and `OrderlyArrival` takes these four; an acknowledgement
settles what it removes and the deletes that those had absorbed
(`OrderlyAcknowledged`). Between them lies the merge of the whole queue, not only
of its last operation: `PendingQueueProofs` shows that it keeps the commands of a
card in the order of their ranks (`SortRank`, `AbsorbIntoRank`), and that a
proper queue will do after it what it would have done before (`Same`,
`MergeProper`), so that a queue which an acknowledgement cut is no harder than one
just merged.

`WriteBackHarmlessAlways` holds in any order of arrival, where places rank nothing:
a create persisted late, under an early stamp, is sorted before what it did not
replace. Its rank (`Rank`) is the stamp, and the place only where stamps tie;
`DQShape` says that the queue is in that rank and proper. A merge makes any queue
so whose operations may be sorted into it (`Stable`, `MergeShape`), and leaves no
patch another to fold with (`Reduced`); an acknowledgement loses the last, which is
why the stored queue need not be merged. What is in rank, proper and reduced a
merge only sorts again (`MergeStay`), and on one card there is one way to
(`SameOrder`).

`QuickAddProofs` proves, for every set of jobs and source tabs, every limit and
every number of faults (from `JobsAssumption` of `QuickAdd`):

| Theorem | States |
|---|---|
| `ImportedOnce` | `QuickAddSpec => []NeverImportsTwice` |
| `OneOutcomeHeard` | `QuickAddSpec => []OneOutcome` |

The first invariant `QuickInv` follows a word through its worker tab. That a job has
one card at most is not inductive: a second one is ruled out by where the word
can still be. `Way` says that a page with the word in its session storage, or an
app that has taken it, has no card yet; that an app which generates the card has
nothing left to take again, so that a reload cannot start over; and that a
bridge which has not been answered is in a page without a word. `OpenedOnce`
gives the bridge one page to ask from: a command opens its tab once, from a
state without a tab, whatever a sweep or a cleanup does to the job in the
meantime. Nothing of the job in storage is needed, which is why the saves that
overwrite each other (item 12) do not disturb this promise.

The second promise is about the job in storage, and has an invariant of its own,
`OutInv`, job by job. `Held` ties each handler that is about to save an end to the
terminal lock; `Over` says that once an end is told, or about to be told, storage
holds a claimed job or none and the lock is free, so that every handler that
looks later finds the end and every handler that looked earlier has saved its
own. `Single` counts what was told from there. The failure notice of the command
itself takes no lock; `NotYet` keeps it apart: it comes before the tab is sent
to the app, and until then no result can arrive. The jobs in `undone`, whose
claim `quickAdd` or the verification wrote over, are excepted throughout.

`DeckMigrationProofs` proves, for every set of shares, every size of a page, a
chunk and a verification batch, every document the shares may start with and
every number of jobs that die (from `SharesAssumption` and `TimeAssumption` of
`SharedDecks` and `OrderAssumption`, `PageAssumption` and `OriginsAssumption` of
`DeckMigration`):

| Theorem | States |
|---|---|
| `SealCanBeRead` | `MigSpec => []SealReadable` |
| `SealIsHeld` | `MigSpec => []SealHolds` |
| `NothingOldIsLeft` | `MigSpec => []CutoverComplete` |
| `LinksGoOnWorking` | `MigSpec => []DecksSurvive` |
| `NeverBackwards` | `MigSpec => OnlyForward` |

All five rest on `MigShape` (what the fence, a job and the documents look like)
and on three lemmas about steps: `StepKinds` and the lemmas under it say which
documents a step touches, `FenceStep` in which of twelve ways it may change the
fence, `SearchStep` what a job that scans or seals did last. On top of them:

- `SealReadable` needs that a job which seals has seen every chunk it passed
  (`ChunksSealed`), also those it skips because an earlier job wrote them.
- `SealHolds` needs that the inventory is exact when it is sealed. `ScanExact`
  says of a scan under way that a stream's buffer holds just the documents it
  has been read past and that are not decided, as they are now, and that what is
  decided has been passed by both streams; `DecidedIs` is the step that merges
  them, and when both have ended everything is decided. The pages themselves are
  `PageIs`: what follows the cursor up to the next one, and all that is left
  when the page is not full. `Held` then follows the apply by its progress, and
  `BeforeApply` shows that the progress is zero when it starts.
- `CutoverComplete` needs what the cursors of a verification have passed
  (`CutoverSoFar`): they are in the fence, so another job goes on from them, and
  nothing behind them may change before the callables open.
- `DecksSurvive` needs which expiry a document must still have. `Lives` says that
  a share has what it was promised either in a document that lasts as long or in
  its old one with the private document it had, because the old public one has
  no expiry and the apply takes it from the private one.

`LibraryMigrationProofs` proves, for every library of finitely many cards, every
page size, every number of edits by the owner and every number of jobs that die or
lose a reply (from `IdsAssumption`, `CardsAssumption` and
`OrderAssumption` of `LibraryMigration`):

| Theorem | States |
|---|---|
| `LearningKept` | `LibSpec => []AsTheUserLeftIt` |
| `RollbackKept` | `LibSpec => RollbackRestores` |

Both rest on `LibInv`. A merge writes over a word's cards, so the first is safe only
if the manifest has every card of the word by then; a rollback writes what was
noted, so the second is safe only if nothing changed between the note and the
merge. The invariant says why both are so:

- `Phases` and `Progress` tie what the fence and the job document tell of the
  progress to the plans there are. `Complete` is what the comparison under the
  fence has established, that no card of an unmerged word is missing from the
  manifest; the job knows it from there on (`RunSure`), and so does a job that
  takes over a fence whose progress is above zero.
- `Plans` says that a merged word has one card, at its canonical identifier, and that
  the plan notes the card the sources merge into. `KnownKept` is the property
  itself, narrower: only merged words may be less known.
- `Backs` says that what was noted of a merged word is what was there when the fence
  went up (`Noted`), and that words not merged, or rolled back, are as they were
  then (`Same`).
- `RunInv` says what the job under way has in memory: every transaction compares the
  fence with it first (`r.mem = Mem(fence)`), so a job whose fence moved on goes no
  further, and the handler that lifts a fence finds either its own or none.

Before it was proved, TLC checked `LibInv` over all states of the run
`LibraryMigration_jobs`. The merged card takes the greatest level and the greatest
revision of its sources, so the proof needs that a finite set of integers has a
greatest element (`GreatestIs`), from the well-foundedness of strict inclusion.
`LibraryMigration` defines `@@` itself, because the provers cannot expand TLC's.

`XpStreamsProofs` proves, for every set of tabs and awards, every division of the
awards into named and unnamed ones, every size of saves, ledger and stream table
and any number of reloads and faults (from `NamedAssumption`, `TabAssumption` and
`SizeAssumption` of `XpStreams`):

| Theorem | States |
|---|---|
| `XpInvariant` | `XpSpec => []XpInv`, the inductive invariant |
| `XpImplementsAccount` | `XpSpec => ImplementsXpAccount` |
| `XpNoStreamGap` | `XpSpec => []NoStreamGap`, under the two conditions below |
| `XpCreditedAtRest` | `XpSpec => []CreditedAtRest`, under the same |

The refinement needs no condition. What is stored, in a tab or on its way to the
cloud is `Around`; no two tabs share a stream, so the place of an operation is its
alone (`StreamsApart`, `Places`, `OnePlace`), and a watermark tells for ever what was
counted: an operation it has not reached is not in the account (`Uncredited`). A
save counts operations at its watermark plus one only, so no retry, stale save or
reload counts one twice, however short the ledger is. The first save is the
exception, for it takes the points of its snapshot as they are; `Unborn` says that
before it every snapshot's points are those of its operations.

The other two theorems have the conditions of the run, as hypotheses: `Named = {}`,
and `\A t \in Reloaders : Readers \subseteq {t}`, no tab reads the cloud while
another is loaded again. Both are needed. A named award gets a second place or a
gap (section 4, items 4 and 5). And a first read is written over the stored
snapshot (item 6): the tab whose operations were there still has them, but loses
them with its page, and the stream it goes on with has a gap. With
`Readers = {t2}` and `Reloaders = {t1}` TLC finds that in 1 000 states.

- `GapInv`: whatever the cloud has told a tab, it stands by (`Told`); it is never
  ahead of a stream (`NotAhead`); each list has, before an operation, what the
  cloud misses of its stream (`NoGaps`); a tab has all that the cloud misses of
  the stream it goes on with (`HasItsOwn`), and one that may be loaded again has
  it in the store too (`StoreHas`). `NoStreamGap` alone is not inductive: without
  `HasItsOwn` the next award would open a gap, without `StoreHas` a reload would,
  without `Told` an acknowledgement would take away what the cloud does not have.
- `RestInv`: what a watermark has passed is counted (`Counting`); what is not
  counted is in a tab (`Owed`); a save that is awaited has the tab's operations,
  and its answer brings the first of them (`Awaited`), which is where `GapInv` is
  needed; a tab that owes something is saving or about to (`Saving`). At rest no
  tab owes anything.

Before they were proved, TLC checked `XpInv`, `GapInv` and `RestInv` over all
states of `XpStreams_tabs` and, with both tabs reading and none loaded again, of a
second instance, and `XpInv` over some millions of states with a named award.
The proofs speak of lists through the positions `Keep` leaves (`KeepPicks`), so
`Classified` and `InPlaces`, which recurse on positions, are followed step by step
(`ClassesExists`, `PlacingExists`).

Only model-checked: of `CardSync`, what holds of one device without faults
(`LastIntentHolds`, `MirrorSettles`); `LedgerBacksShares` and `QuotaHeld` while a
migration of older shares runs; and liveness, which is outside the prover's
reach: that queues drain (`QueueDrains`), that a migration of older shares ends
(`CutoverEnds`), that a locked library is opened again (`FenceLifts`) and that a
quick add ends (`JobsEnd`).

## 6. What is left

Of the library's core: the pages a user looks at, which are copied into the mirror
beside its refreshes, the catalogue cache and the card quota. Theorems that would
add most: `LastIntentHolds` and `MirrorSettles`, on top of `EditInv`, and
`EditsReachTheCloud` with reviews, once a queue keeps apart the edits that had a
review between them.
