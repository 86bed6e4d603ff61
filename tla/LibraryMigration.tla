-------------------------- MODULE LibraryMigration --------------------------
(***************************************************************************)
(* The migration that gives every word of an old library one card.  An     *)
(* operator starts one job at a time: a discovery pages through the cards  *)
(* and writes down which cards each word has; an apply puts a fence around *)
(* the library, copies what it is about to change, merges the cards of one *)
(* word after another and checks the whole before it lifts the fence; a    *)
(* rollback puts the copies back.  A job may die after any transaction, or *)
(* see one fail that was committed; the fence then stays for the next job. *)
(* Between jobs, and during a discovery, the owner goes on using the       *)
(* library.                                                                *)
(***************************************************************************)
EXTENDS Integers, Sequences, FiniteSets

CONSTANTS
    Ids,          \* card ids
    Words,        \* what cards are about
    WordOf,       \* per id: the word of its card
    Canon,        \* per word: the id its one card is to have
    IdOrder,      \* the ids in the order of their documents
    OldCards,     \* the documents the library may start with
    PageDocs,     \* documents in a page of the discovery
    MaxCards,     \* MAX_CARD_ALLOCATION
    MaxWrites,    \* bound on what the owner does
    MaxFaults,    \* bound on the jobs that die and the replies that are lost
    NoId          \* no reservation

ASSUME IdsAssumption ==
    /\ WordOf \in [Ids -> Words] /\ Canon \in [Words -> Ids] /\ NoId \notin Ids
    /\ \A w \in Words : WordOf[Canon[w]] = w
ASSUME CardsAssumption ==
    IsFiniteSet(Ids) /\ OldCards \subseteq [Ids -> [gen : {0}, rev : Int, level : Nat]]
ASSUME OrderAssumption ==
    /\ IdOrder \in [1 .. Cardinality(Ids) -> Ids]
    /\ \A i, j \in DOMAIN IdOrder : IdOrder[i] = IdOrder[j] => i = j
ASSUME BoundsAssumption ==
    {PageDocs, MaxCards} \subseteq Nat \ {0} /\ {MaxWrites, MaxFaults} \subseteq Nat

VARIABLES
    epoch,        \* libraryEpoch of library_state
    cards,        \* the card documents
    tombs,        \* the tombstones
    taken,        \* card_reservations: the id each word is reserved for
    profile,      \* resource_usage.cardCount, and query_migration.complete
    job,          \* the job document
    groups,       \* its groups: per word the cards found, and how far it got
    fence,        \* library_migration_fence
    root,         \* the backup's root document
    saved,        \* per card: its copy in the backup
    plans,        \* per word: what the apply wrote
    run,          \* what the job under way holds in memory
    writes, faults,
    known,        \* history: how well the owner knew each word when last written
    before        \* history: the documents when the apply closed the fence

libraryVars == <<epoch, cards, tombs, taken, profile>>
jobVars == <<job, groups, fence, root, saved, plans>>
historyVars == <<known, before>>
vars == <<libraryVars, jobVars, run, writes, faults, historyVars>>

\* f, and g where f says nothing: TLC's operator, defined here for the proofs to expand.
f @@ g == [x \in DOMAIN f \cup DOMAIN g |-> IF x \in DOMAIN f THEN f[x] ELSE g[x]]

\* A card of the old kind has no revision; the level is its learning progress.
Card(gen, rev, level) == [gen |-> gen, rev |-> rev, level |-> level]
NoCard == Card(0, -1, 0)
Exists(id) == cards[id] # NoCard
Live(id) == Exists(id) /\ cards[id].gen = epoch
Current(id) == Live(id) /\ cards[id].rev > 0
Tomb(gen, rev) == [gen |-> gen, rev |-> rev]
NoTomb == Tomb(0, 0)
Later(m, n) == IF m >= n THEN m ELSE n
Greatest(S) == CHOOSE m \in S : \A n \in S : n <= m

NoCount == -1
NoJob == [phase |-> "none"]
NoGroup == [page |-> 0]
NoFence == [phase |-> "none"]
NoRoot == [kept |-> FALSE]
NoPlan == [status |-> "none"]
NoCopy == [sealed |-> FALSE, card |-> NoCard]
Idle == [at |-> "idle"]

CardsOf(w) == {id \in Ids : WordOf[id] = w /\ Exists(id)}
Fenced == fence # NoFence

(***************************************************************************)
(* What the owner does.  Every transaction reads the fence first.          *)
(***************************************************************************)
Knows(docs, e, w) ==
    LET live == {id \in Ids : WordOf[id] = w /\ docs[id] # NoCard /\ docs[id].gen = e}
    IN IF live = {} THEN -1 ELSE Greatest({docs[id].level : id \in live})

Written ==
    /\ writes < MaxWrites /\ writes' = writes + 1
    /\ known' = [w \in Words |-> Knows(cards', epoch', w)]
    /\ UNCHANGED <<jobVars, run, faults, before>>

\* Mutant of MayWrite: a fence whose job has died no longer counts.
MayWrite_LeaseOut == IF Fenced THEN ~fence.live ELSE TRUE
MayWrite == ~Fenced

TombRev(id) == IF tombs[id].gen = epoch THEN tombs[id].rev ELSE 0
StoredCount == IF profile.count # NoCount THEN profile.count
               ELSE Cardinality({id \in Ids : Exists(id)})

TargetOf(w) == IF taken[w] = NoId THEN Canon[w] ELSE taken[w]

\* createCardForOwner: a word has one card, under the id reserved for it.
CreateCard(w) ==
    LET id == TargetOf(w)
        counted == taken[w] = NoId /\ ~Exists(id)
    IN /\ MayWrite
       /\ IF Live(id)
          THEN /\ \/ ~Current(id) \/ taken[w] = NoId
               /\ cards' = IF Current(id) THEN cards
                           ELSE [cards EXCEPT ![id].rev = 1]
               /\ UNCHANGED profile
          ELSE /\ counted => StoredCount < MaxCards
               /\ cards' = [cards EXCEPT ![id] = Card(epoch, TombRev(id) + 1, 0)]
               /\ profile' = IF counted THEN [profile EXCEPT !.count = StoredCount + 1]
                                        ELSE profile
       /\ taken' = [taken EXCEPT ![w] = id]
       /\ UNCHANGED <<epoch, tombs>>
       /\ Written

\* applyCardPatchIfCurrent: a card of the old kind is upgraded where it is, if
\* its word is not reserved for another.
PatchCard(id) ==
    /\ MayWrite
    /\ Live(id)
    /\ Current(id) \/ taken[WordOf[id]] \in {NoId, id}
    /\ cards' = [cards EXCEPT ![id].rev = @ + 1]
    /\ taken' = IF Current(id) THEN taken ELSE [taken EXCEPT ![WordOf[id]] = id]
    /\ UNCHANGED <<epoch, tombs, profile>>
    /\ Written

\* applyReviewForOwner
ReviewCard(id) ==
    /\ MayWrite
    /\ Current(id)
    /\ cards' = [cards EXCEPT ![id].rev = @ + 1, ![id].level = @ + 1]
    /\ UNCHANGED <<epoch, tombs, taken, profile>>
    /\ Written

\* deleteCardWithTombstone: neither the reservation nor the count goes with it.
DeleteCard(id) ==
    /\ MayWrite
    /\ Exists(id)
    /\ cards' = [cards EXCEPT ![id] = NoCard]
    /\ tombs' = [tombs EXCEPT ![id] =
                   Tomb(epoch, Later(cards[id].rev, TombRev(id)) + 1)]
    /\ UNCHANGED <<epoch, taken, profile>>
    /\ Written

\* The first transaction of a clear-all: every card becomes an old one.
AdvanceEpoch ==
    /\ MayWrite
    /\ epoch' = epoch + 1
    /\ UNCHANGED <<cards, tombs, taken, profile>>
    /\ Written

\* The rest of the clear-all: old cards are deleted, a page at a time.
Purge ==
    /\ MayWrite
    /\ \E page \in SUBSET {id \in Ids : Exists(id) /\ ~Live(id)} :
          /\ page # {}
          /\ cards' = [id \in Ids |-> IF id \in page THEN NoCard ELSE cards[id]]
    /\ UNCHANGED <<epoch, tombs, taken, profile>>
    /\ Written

(***************************************************************************)
(* Jobs.  A job throws when it finds what it does not expect; one that     *)
(* holds the fence then tries to give it back (catch).                     *)
(***************************************************************************)
Start(mode, at) ==
    /\ run = Idle
    /\ run' = [at |-> at, mode |-> mode]
    /\ UNCHANGED <<libraryVars, jobVars, writes, faults, historyVars>>
StartDiscovery == Start("discover", "acquire")
StartApply == job # NoJob /\ Start("apply", "begin")
StartRollback == root.kept /\ Start("rollback", "begin")

Elsewhere == UNCHANGED <<libraryVars, writes, historyVars>>
Throw == /\ run' = IF "mem" \in DOMAIN run THEN [run EXCEPT !.at = "catch"] ELSE Idle
         /\ UNCHANGED <<jobVars, libraryVars, writes, faults, historyVars>>

\* A step that committed is followed by the next, or its reply was lost and
\* the job throws, still holding what it read before.
Then(next) ==
    \/ run' = next /\ UNCHANGED faults
    \/ /\ faults < MaxFaults /\ faults' = faults + 1
       /\ run' = IF "mem" \in DOMAIN run THEN [run EXCEPT !.at = "catch"] ELSE Idle
At(at) == [run EXCEPT !.at = at]
Mem(f) == [rev |-> f.rev, applied |-> f.applied, rolled |-> f.rolled]

\* The process dies, or the catch's own transaction fails.
Crash ==
    /\ run # Idle
    /\ faults < MaxFaults /\ faults' = faults + 1
    /\ run' = Idle
    /\ UNCHANGED <<libraryVars, jobVars, writes, historyVars>>

\* What a dead job holds is free again after three minutes.
LeaseOut ==
    /\ run = Idle
    /\ \/ /\ Fenced /\ fence.live
          /\ fence' = [fence EXCEPT !.live = FALSE]
          /\ UNCHANGED job
       \/ /\ job # NoJob /\ job.leased
          /\ job' = [job EXCEPT !.leased = FALSE]
          /\ UNCHANGED fence
    /\ UNCHANGED <<libraryVars, groups, root, saved, plans, run, writes, faults, historyVars>>

(***************************************************************************)
(* The discovery: a page at a time, into the groups of the manifest.       *)
(***************************************************************************)
AcquireLease ==
    /\ run.at = "acquire"
    /\ IF job # NoJob /\ job.phase # "discover"
       THEN run' = Idle /\ UNCHANGED <<jobVars, faults>>
       ELSE IF Fenced \/ (job # NoJob /\ job.leased) THEN Throw
       ELSE /\ job' = IF job # NoJob THEN [job EXCEPT !.leased = TRUE]
                      ELSE [phase |-> "discover", cursor |-> 0, page |-> 0, epoch |-> -1,
                            sources |-> 0, applied |-> NoCount, leased |-> TRUE]
            /\ UNCHANGED <<groups, fence, root, saved, plans>>
            /\ Then(At("read"))
    /\ Elsewhere

Rest(cursor) == {i \in DOMAIN IdOrder : i > cursor /\ Exists(IdOrder[i])}
PageAfter(cursor) ==
    {i \in Rest(cursor) : Cardinality({j \in Rest(cursor) : j <= i}) <= PageDocs}

ReadPage ==
    /\ run.at = "read"
    /\ LET page == PageAfter(job.cursor)
       IN run' = [run EXCEPT !.at = "commit"] @@
                 [epoch |-> epoch,
                  docs |-> [id \in {IdOrder[i] : i \in page} |-> cards[id]],
                  cursor |-> IF page = {} THEN job.cursor ELSE Greatest(page),
                  terminal |-> Cardinality(page) < PageDocs]
    /\ UNCHANGED <<jobVars, faults>> /\ Elsewhere

WordsOfPage == {WordOf[id] : id \in DOMAIN run.docs}
PageStands == \A id \in DOMAIN run.docs : cards[id] = run.docs[id]
\* A group that this page adds to was last touched by the page before it.
GroupsStand ==
    \A w \in WordsOfPage : groups[w] # NoGroup => groups[w].page = job.page
WithPage(w) ==
    LET old == IF groups[w] = NoGroup THEN <<>> ELSE groups[w].sources
        new == [id \in {x \in DOMAIN run.docs : WordOf[x] = w} |-> run.docs[id]]
    IN [page |-> job.page + 1, sources |-> new @@ old, sealed |-> FALSE,
        taken |-> NoId, tombs |-> <<>>, applied |-> FALSE]

CommitPage ==
    /\ run.at = "commit"
    /\ IF Fenced THEN Throw
       ELSE IF run.epoch # epoch \/ (job.epoch # -1 /\ job.epoch # run.epoch)
       THEN /\ job' = [job EXCEPT !.phase = "blocked", !.leased = FALSE]
            /\ UNCHANGED groups
            /\ Then(Idle)
       ELSE IF ~PageStands \/ ~GroupsStand THEN Throw
       ELSE /\ job' = [job EXCEPT
                         !.phase = IF run.terminal THEN "discovered" ELSE "discover",
                         !.cursor = run.cursor, !.page = @ + 1, !.epoch = run.epoch,
                         !.sources = @ + Cardinality(DOMAIN run.docs), !.leased = FALSE]
            /\ groups' = [w \in Words |->
                            IF w \in WordsOfPage THEN WithPage(w) ELSE groups[w]]
            /\ Then([at |-> "acquire", mode |-> "discover"])
    /\ UNCHANGED <<fence, root, saved, plans>>
    /\ Elsewhere

(***************************************************************************)
(* The fence.                                                              *)
(***************************************************************************)
Manifest == {w \in Words : groups[w] # NoGroup}
Sources(w) == DOMAIN groups[w].sources
Touched(w) == Sources(w) \cup {Canon[w]}
JobIsFor(kind) ==
    \/ job.phase \in {"discovered", "verify", "apply", "rollback"}
    \/ kind = "rollback" /\ job.phase \in {"complete", "rolled-back"}

\* Mutant of FenceRefuses: only what a rollback fenced can be rolled back.
FenceRefuses_NoTakeover(kind) ==
    \/ job.phase \in {"discover", "blocked"}
    \/ epoch # job.epoch
    \/ IF Fenced THEN fence.live \/ (fence.phase = "rollback") # (kind = "rollback")
       ELSE ~JobIsFor(kind)
FenceRefuses(kind) ==
    \/ job.phase \in {"discover", "blocked"}
    \/ epoch # job.epoch
    \/ IF Fenced
       THEN \/ fence.live
            \/ fence.phase = "rollback" /\ kind # "rollback"
            \/ fence.phase # "rollback" /\ kind = "rollback" /\ fence.applied = 0
       ELSE ~JobIsFor(kind)

\* Only the job under way compares revisions: they count from its begin.
NewFence(kind) ==
    IF Fenced
    THEN [fence EXCEPT !.phase = IF @ = "rollback" \/ (kind = "rollback" /\ fence.applied > 0)
                                 THEN "rollback"
                                 ELSE IF fence.applied > 0 THEN "apply" ELSE kind,
                       !.rev = 1, !.live = TRUE]
    ELSE [phase |-> kind, rev |-> 1, rolled |-> 0, live |-> TRUE,
          applied |-> IF kind = "verify" THEN 0
                      ELSE IF job.applied = NoCount THEN Cardinality(Manifest)
                      ELSE job.applied]

\* beginMigrationFence
Begin(kind) ==
    /\ IF FenceRefuses(kind) THEN Throw
       ELSE LET new == NewFence(kind)
            IN /\ fence' = new
               /\ job' = [job EXCEPT !.phase = new.phase, !.applied = new.applied]
               /\ before' = IF kind = "verify" /\ ~Fenced
                            THEN [cards |-> cards, tombs |-> tombs, taken |-> taken]
                            ELSE before
               /\ \/ /\ run' = [run EXCEPT !.at = IF kind = "verify" THEN "manifest" ELSE "root"]
                               @@ [mem |-> Mem(new), was |-> job.phase]
                     /\ UNCHANGED faults
                  \/ /\ faults < MaxFaults /\ faults' = faults + 1
                     /\ run' = Idle
               /\ UNCHANGED <<groups, root, saved, plans>>
    /\ UNCHANGED <<libraryVars, writes, known>>

BeginApply ==
    /\ run.at = "begin" /\ run.mode = "apply"
    /\ IF job.phase = "complete"
       THEN run' = Idle /\ UNCHANGED <<libraryVars, jobVars, writes, faults, historyVars>>
       ELSE Begin("verify")
BeginRollback ==
    /\ run.at = "begin" /\ run.mode = "rollback"
    /\ IF job.phase = "rolled-back"
       THEN run' = Idle /\ UNCHANGED <<libraryVars, jobVars, writes, faults, historyVars>>
       ELSE Begin("rollback")

Clears ==
    /\ Fenced /\ fence.rev = run.mem.rev
    /\ IF fence.phase = "rollback" THEN fence.rolled = 0 ELSE fence.applied = 0

\* The catch of both jobs: clearZeroProgressFence, if nothing was written yet.
Catch ==
    /\ run.at = "catch"
    /\ LET tries == IF run.mode = "apply" THEN run.mem.applied = 0
                    ELSE /\ run.mem.rolled = 0
                         /\ run.was = "complete" \/ run.mem.applied = 0
       IN IF tries /\ Clears
          THEN /\ fence' = NoFence
               /\ IF run.mode = "apply"
                  THEN /\ job' = [job EXCEPT !.phase = "discovered", !.applied = 0]
                       /\ root' = NoRoot
                  ELSE /\ job' = [job EXCEPT !.phase = "complete"]
                       /\ UNCHANGED root
          ELSE UNCHANGED <<fence, job, root>>
    /\ run' = Idle
    /\ UNCHANGED <<groups, saved, plans, faults>> /\ Elsewhere

(***************************************************************************)
(* The apply: compare, copy, merge, check, finish.                         *)
(***************************************************************************)
Present == [id \in {x \in Ids : Exists(x)} |-> cards[id]]
Listed == [id \in UNION {Sources(w) : w \in Manifest} |-> groups[WordOf[id]].sources[id]]

\* verifyFreshManifest: before anything is written, the library is the one the
\* discovery saw.
CheckManifest ==
    /\ run.at = "manifest"
    /\ IF run.mem.applied = 0 /\ (epoch # job.epoch \/ Present # Listed) THEN Throw
       ELSE run' = At("root") /\ UNCHANGED <<jobVars, faults>>
    /\ Elsewhere

\* ensureBackupRoot
EnsureRoot ==
    /\ run.at = "root"
    /\ root' = IF root.kept THEN root
               ELSE [kept |-> TRUE, profile |-> profile, complete |-> FALSE, final |-> <<>>]
    /\ Then(At(IF run.mode = "rollback" THEN "sealed"
               ELSE IF run.mem.applied = 0 THEN "copy" ELSE "merge"))
    /\ UNCHANGED <<job, groups, fence, saved, plans>> /\ Elsewhere

Unsealed == {w \in Manifest : ~groups[w].sealed}
Unapplied == {w \in Manifest : ~groups[w].applied}
SourcesStand(w) == \A id \in Sources(w) : cards[id] = groups[w].sources[id]
TombsOf(w) == [id \in Touched(w) |-> tombs[id]]
Copied(w, sealed) ==
    \A id \in Sources(w) : /\ saved[id].card = groups[w].sources[id]
                           /\ sealed => saved[id].sealed

\* prepareGroupBackup: a batch writes the copies, a transaction seals them.
CopySources(w) ==
    /\ run.at \in {"copy", "merge"} /\ "word" \notin DOMAIN run
    /\ w \in IF run.at = "copy" THEN Unsealed ELSE Unsealed \cap Unapplied
    /\ IF ~SourcesStand(w)
          \/ \E id \in Sources(w) : saved[id] # NoCopy /\ saved[id].card # cards[id]
       THEN Throw
       ELSE /\ saved' = [id \in Ids |->
                           IF id \in Sources(w) /\ saved[id] = NoCopy
                           THEN [sealed |-> FALSE, card |-> cards[id]] ELSE saved[id]]
            /\ Then(run @@ [word |-> w])
            /\ UNCHANGED <<job, groups, fence, root, plans>>
    /\ Elsewhere

Without(r, f) == [x \in DOMAIN r \ {f} |-> r[x]]
SealCopy ==
    /\ "word" \in DOMAIN run /\ run.at # "catch"
    /\ LET w == run.word
       IN IF ~SourcesStand(w) \/ ~Copied(w, FALSE) THEN Throw
          ELSE /\ groups' = [groups EXCEPT ![w].taken = taken[w], ![w].tombs = TombsOf(w),
                                           ![w].sealed = TRUE]
               /\ saved' = [id \in Ids |->
                              IF id \in Sources(w) THEN [saved[id] EXCEPT !.sealed = TRUE]
                              ELSE saved[id]]
               /\ Then(Without(run, "word"))
               /\ UNCHANGED <<job, fence, root, plans>>
    /\ Elsewhere

EnterApply ==
    /\ run.at = "copy" /\ "word" \notin DOMAIN run /\ Unsealed = {}
    /\ IF fence.phase = "apply"
       THEN run' = [run EXCEPT !.at = "merge"] /\ UNCHANGED <<fence, job, faults>>
       ELSE /\ fence' = [fence EXCEPT !.phase = "apply", !.rev = @ + 1]
            /\ job' = [job EXCEPT !.phase = "apply"]
            /\ Then([run EXCEPT !.at = "merge", !.mem = Mem(fence')])
    /\ UNCHANGED <<groups, root, saved, plans>> /\ Elsewhere

\* applyMigrationGroup
Losers(w) == Sources(w) \ {Canon[w]}
Merged(w) ==
    LET old == {groups[w].sources[id] : id \in Sources(w)}
    IN Card(job.epoch, Greatest({Later(c.rev, 0) : c \in old}) + 1,
            Greatest({c.level : c \in old}))
TombsAfter(w) ==
    [id \in Touched(w) |->
        IF id \in Losers(w)
        THEN Tomb(job.epoch, Later(groups[w].sources[id].rev + 1, tombs[id].rev))
        ELSE NoTomb]
Conflict(w) ==
    \/ ~SourcesStand(w)
    \/ Canon[w] \notin Sources(w) /\ Exists(Canon[w])
    \/ taken[w] # groups[w].taken
    \/ TombsOf(w) # groups[w].tombs

ApplyGroup(w) ==
    /\ run.at = "merge" /\ "word" \notin DOMAIN run
    /\ w \in Unapplied /\ groups[w].sealed
    /\ IF Conflict(w) \/ fence.rev # run.mem.rev
       THEN Throw /\ Elsewhere
       ELSE /\ cards' = [id \in Ids |-> IF id = Canon[w] THEN Merged(w)
                                       ELSE IF id \in Losers(w) THEN NoCard ELSE cards[id]]
            /\ tombs' = TombsAfter(w) @@ tombs
            /\ taken' = [taken EXCEPT ![w] = Canon[w]]
            /\ plans' = [plans EXCEPT ![w] = [status |-> "applied", card |-> Merged(w),
                                              tombs |-> TombsAfter(w)]]
            /\ groups' = [groups EXCEPT ![w].applied = TRUE]
            /\ fence' = [fence EXCEPT !.phase = "apply", !.rev = @ + 1, !.applied = @ + 1]
            /\ job' = [job EXCEPT !.phase = "apply", !.applied = fence.applied + 1]
            /\ Then([run EXCEPT !.mem = Mem(fence')])
            /\ UNCHANGED <<epoch, profile, root, saved, writes, historyVars>>

\* scanFinalLibrary, and finalizeMigration in the transaction that follows.
FinalState ==
    /\ Cardinality({id \in Ids : Exists(id)}) = Cardinality(Manifest)
    /\ \A w \in Manifest : /\ CardsOf(w) = {Canon[w]}
                           /\ cards[Canon[w]].gen = epoch
                           /\ cards[Canon[w]].rev > 0
    /\ \A w \in Words : taken[w] = IF w \in Manifest THEN Canon[w] ELSE NoId

Aggregate(counters) == [cards |-> cards, tombs |-> tombs, taken |-> taken,
                        profile |-> counters]
FinishApply ==
    /\ run.at = "merge" /\ "word" \notin DOMAIN run /\ Unapplied = {}
    /\ IF ~FinalState \/ fence.rev # run.mem.rev \/ fence.applied # Cardinality(Manifest)
       THEN Throw /\ Elsewhere
       ELSE /\ profile' = [count |-> Cardinality(Manifest), complete |-> TRUE]
            /\ root' = [root EXCEPT !.complete = TRUE, !.final = Aggregate(profile')]
            /\ job' = [job EXCEPT !.phase = "complete", !.applied = fence.applied,
                                  !.leased = FALSE]
            /\ fence' = NoFence
            /\ Then(Idle)
            /\ UNCHANGED <<epoch, cards, tombs, taken, groups, saved, plans, writes,
                           historyVars>>

(***************************************************************************)
(* The rollback.                                                           *)
(***************************************************************************)
Applied == {w \in Words : plans[w] # NoPlan /\ plans[w].status = "applied"}
Planned == {w \in Words : plans[w] # NoPlan}
\* Mutant of AsApplied: what became of the merged card is not compared.
AsApplied_AnyCard(w) ==
    /\ taken[w] = Canon[w] /\ TombsOf(w) = plans[w].tombs
AsApplied(w) ==
    /\ cards[Canon[w]] = plans[w].card
    /\ taken[w] = Canon[w] /\ TombsOf(w) = plans[w].tombs

\* verifySealedFinalLibrary, when the job was complete, and preflightRollback,
\* which alone looks for the cards the merge took away.
CheckFinal == run.mem.rolled = 0 /\ run.was = "complete" =>
                 root.complete /\ root.final = Aggregate(profile)
Preflight ==
    /\ run.at = "sealed"
    /\ IF \/ ~CheckFinal
          \/ \E w \in Applied : \/ ~Copied(w, TRUE) \/ ~AsApplied(w)
                              \/ \E id \in Losers(w) : Exists(id)
          \/ Cardinality(Planned) # fence.applied
       THEN Throw
       ELSE run' = At("restore") /\ UNCHANGED <<jobVars, faults>>
    /\ Elsewhere

\* rollbackOneGroup
RestoreGroup(w) ==
    /\ run.at = "restore"
    /\ w \in Applied
    /\ IF ~AsApplied(w) \/ ~Copied(w, TRUE) \/ fence.rev # run.mem.rev
       THEN Throw /\ Elsewhere
       ELSE /\ cards' = [id \in Ids |-> IF id \in Touched(w) THEN saved[id].card ELSE cards[id]]
            /\ tombs' = groups[w].tombs @@ tombs
            /\ taken' = [taken EXCEPT ![w] = groups[w].taken]
            /\ plans' = [plans EXCEPT ![w].status = "rolledBack"]
            /\ fence' = [fence EXCEPT !.phase = "rollback", !.rev = @ + 1, !.rolled = @ + 1]
            /\ Then([run EXCEPT !.mem = Mem(fence')])
            /\ UNCHANGED <<epoch, profile, job, groups, root, saved, writes, historyVars>>

FinishRollback ==
    /\ run.at = "restore" /\ Applied = {}
    /\ profile' = root.profile
    /\ root' = [root EXCEPT !.complete = FALSE]
    /\ job' = [job EXCEPT !.phase = "rolled-back", !.leased = FALSE]
    /\ fence' = NoFence
    /\ Then(Idle)
    /\ UNCHANGED <<epoch, cards, tombs, taken, groups, saved, plans, writes, historyVars>>

-----------------------------------------------------------------------------
LibInit ==
    /\ epoch = 0
    /\ cards \in OldCards
    /\ tombs = [id \in Ids |-> NoTomb]
    /\ taken = [w \in Words |-> NoId]
    /\ profile = [count |-> NoCount, complete |-> FALSE]
    /\ job = NoJob /\ groups = [w \in Words |-> NoGroup]
    /\ fence = NoFence /\ root = NoRoot
    /\ saved = [id \in Ids |-> NoCopy] /\ plans = [w \in Words |-> NoPlan]
    /\ run = Idle /\ writes = 0 /\ faults = 0
    /\ known = [w \in Words |-> Knows(cards, 0, w)]
    /\ before = [cards |-> cards, tombs |-> tombs, taken |-> taken]

OwnerStep ==
    \/ \E w \in Words : CreateCard(w)
    \/ \E id \in Ids : PatchCard(id) \/ ReviewCard(id) \/ DeleteCard(id)
    \/ AdvanceEpoch
    \/ Purge
Discover == AcquireLease \/ ReadPage \/ CommitPage
Apply ==
    \/ BeginApply \/ CheckManifest \/ EnterApply \/ FinishApply
    \/ SealCopy
    \/ \E w \in Words : CopySources(w) \/ ApplyGroup(w)
Rollback == BeginRollback \/ Preflight \/ FinishRollback \/ \E w \in Words : RestoreGroup(w)
JobStep == Discover \/ Apply \/ Rollback \/ EnsureRoot \/ Catch
LibNext ==
    \/ OwnerStep
    \/ StartDiscovery \/ StartApply \/ StartRollback
    \/ JobStep \/ Crash \/ LeaseOut

LibSpec == LibInit /\ [][LibNext]_vars
\* A job that runs gets on; what a dead one holds runs out; and the operator
\* tries every job again at a time when nothing is held.
NothingHeld == (Fenced => ~fence.live) /\ (job # NoJob => ~job.leased)
LibFairSpec ==
    /\ LibSpec
    /\ WF_vars(JobStep) /\ SF_vars(LeaseOut)
    /\ SF_vars(NothingHeld /\ StartDiscovery)
    /\ SF_vars(NothingHeld /\ StartApply)
    /\ SF_vars(NothingHeld /\ StartRollback)
=============================================================================
